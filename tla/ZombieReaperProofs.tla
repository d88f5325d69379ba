------------------------- MODULE ZombieReaperProofs -------------------------
(***************************************************************************)
(* Proofs about check_for_zombie_proxy_users (ZombieReaper), for every     *)
(* set of users, every naming of them and every set of job execution ids. *)
(***************************************************************************)
EXTENDS ZombieReaper, SequenceTheorems, FiniteSetTheorems, TLAPS

-----------------------------------------------------------------------------
(***************************************************************************)
(* The slice name[4:] of line 135 undoes the naming job_<id> of a job's   *)
(* proxy user.                                                             *)
(***************************************************************************)

\* A sequence over S is a sequence over any larger alphabet.
LEMMA SeqMono ==
    ASSUME NEW S, NEW T, S \subseteq T, NEW s \in Seq(S)
    PROVE  s \in Seq(T)
<1>1. Len(s) \in Nat /\ s \in [1..Len(s) -> S]
    BY LenProperties
<1>2. s \in [1..Len(s) -> T]
    BY <1>1
<1>3. [i \in 1..Len(s) |-> s[i]] \in Seq(T)
    BY <1>1, <1>2, IsASeq
<1> QED
    BY <1>1, <1>3

\* Cutting a prefix p off p \o j gives j back.
LEMMA ConcatSlice ==
    ASSUME NEW S, NEW p \in Seq(S), NEW j \in Seq(S)
    PROVE  SubSeq(p \o j, Len(p) + 1, Len(p \o j)) = j
<1>1. /\ p \o j \in Seq(S)
      /\ Len(p \o j) = Len(p) + Len(j)
      /\ \A i \in 1 .. Len(p) + Len(j) :
            (p \o j)[i] = IF i <= Len(p) THEN p[i] ELSE j[i - Len(p)]
    BY ConcatProperties
<1>2. Len(p) \in Nat /\ Len(j) \in Nat
    BY LenProperties
<1>3. \A i \in Len(p) + 1 .. Len(p \o j) : (p \o j)[i] \in S
    BY <1>1, <1>2, ElementOfSeq
<1>4. /\ SubSeq(p \o j, Len(p) + 1, Len(p \o j)) \in Seq(S)
      /\ Len(SubSeq(p \o j, Len(p) + 1, Len(p \o j))) = Len(j)
      /\ \A i \in 1 .. Len(j) :
            SubSeq(p \o j, Len(p) + 1, Len(p \o j))[i] = (p \o j)[Len(p) + i]
    BY <1>1, <1>2, <1>3, SubSeqProperties
<1>5. \A i \in 1 .. Len(j) : (p \o j)[Len(p) + i] = j[i]
    BY <1>1, <1>2
<1> QED
    BY <1>4, <1>5, SeqEqual

\* The user a job creates for job execution j is read back as j.
LEMMA BoundUserId ==
    ASSUME NEW j \in JobExecIds, NEW u \in BoundUsers(j)
    PROVE  JobExecIdOf(u) = j
<1> DEFINE Ch == STRING \cup {"j", "o", "b", "_"}
<1>1. JobPrefix \in Seq({"j", "o", "b", "_"})
    BY DEF JobPrefix
<1>2. JobPrefix \in Seq(Ch)
    BY <1>1, SeqMono
<1>3. j \in Seq(Ch)
    BY ZombieAssumption, SeqMono
<1>4. SubSeq(JobPrefix \o j, Len(JobPrefix) + 1, Len(JobPrefix \o j)) = j
    BY <1>2, <1>3, ConcatSlice
<1>5. Len(JobPrefix) + 1 = 5
    BY DEF JobPrefix
<1>6. Name[u] = JobPrefix \o j
    BY DEF BoundUsers
<1> QED
    BY <1>4, <1>5, <1>6, Zenon DEF JobExecIdOf

\* A user is bound to at most one job execution.
LEMMA BoundOnce ==
    ASSUME NEW j \in JobExecIds, NEW i \in JobExecIds, NEW u \in BoundUsers(j),
           u \in BoundUsers(i)
    PROVE  i = j
BY BoundUserId

-----------------------------------------------------------------------------
(***************************************************************************)
(* NoLiveCredentialDeleted holds although the status test of line 136 is  *)
(* made on a list read earlier, and the job execution may change before  *)
(* proxy_user_delete.  It holds because the EDP engine never reuses a job  *)
(* execution id: a job_<id> user exists, or was listed, only once <id>    *)
(* has started, and a job execution that has started and is not running   *)
(* (terminal, or deleted after it ended) never runs again.                 *)
(***************************************************************************)
Started(j) == je[j] # "absent" \/ j \in ended

IInv ==
    /\ TypeOK
    /\ \A j \in JobExecIds : je[j] = "terminal" => j \in ended
    /\ \A j \in JobExecIds : \A u \in users :
          u \in BoundUsers(j) => Started(j)
    /\ \A j \in JobExecIds : \A l \in 1..Len(usnap) :
          usnap[l] \in BoundUsers(j) => Started(j)
    /\ pc # "idle" => k >= 1
    /\ pc = "delete" =>
          /\ k <= Len(usnap)
          /\ \A j \in JobExecIds : usnap[k] \in BoundUsers(j) => je[j] # "running"

LEMMA InitIInv == Init => IInv
BY DEF Init, IInv, TypeOK, JeStatuses

\* What proxy_domain_users_list() returns: each existing user, once.
LEMMA ListingOK ==
    ASSUME TypeOK, NEW s \in Orderings(users), {s[l] : l \in DOMAIN s} = users
    PROVE  s \in Seq(Users) /\ \A l \in 1..Len(s) : s[l] \in users
<1>1. Cardinality(users) \in Nat
    <2>1. IsFiniteSet(users)
        BY ZombieAssumption, FS_Subset DEF TypeOK
    <2> QED
        BY <2>1, FS_CardinalityType
<1>2. PICK n \in Nat : s \in [1..n -> users]
    BY <1>1 DEF Orderings
<1>3. [i \in 1..n |-> s[i]] \in Seq(Users)
    BY <1>2, IsASeq DEF TypeOK
<1>4. s = [i \in 1..n |-> s[i]]
    BY <1>2
<1> QED
    BY <1>2, <1>3, <1>4

\* Every step keeps IInv.
LEMMA NextIInv == IInv /\ [Next]_vars => IInv'
<1> SUFFICES ASSUME IInv, [Next]_vars PROVE IInv'
    OBVIOUS
<1> USE DEF IInv, TypeOK, JeStatuses, Started
<1>1. CASE ZombieStart
    <2>1. PICK s \in Orderings(users) :
              /\ {s[l] : l \in DOMAIN s} = users
              /\ usnap' = s
        BY <1>1 DEF ZombieStart
    <2>2. s \in Seq(Users) /\ \A l \in 1..Len(s) : s[l] \in users
        BY <2>1, ListingOK
    <2>3. ctx' = "admin" /\ k' = 1 /\ pc' = "loop" /\ UNCHANGED <<je, ended, users>>
        BY <1>1 DEF ZombieStart
    <2> QED
        BY <2>1, <2>2, <2>3
<1>2. CASE ZombieLoop
    <2>1. CASE k > Len(usnap)
        BY <1>2, <2>1 DEF ZombieLoop
    <2>2. CASE ~(k > Len(usnap)) /\ StartsWithJob(usnap[k]) /\ IsZombie(usnap[k])
        <3>1. pc' = "delete" /\ UNCHANGED <<je, ended, users, usnap, ctx, k>>
            BY <1>2, <2>2 DEF ZombieLoop
        <3>2. pc = "loop" /\ k \in 1..Len(usnap)
            BY <1>2, <2>2 DEF ZombieLoop
        <3>3. ASSUME NEW j \in JobExecIds, usnap[k] \in BoundUsers(j)
              PROVE  je[j] # "running"
            <4>1. JobExecIdOf(usnap[k]) = j
                BY <3>3, BoundUserId
            <4> QED
                BY <2>2, <4>1 DEF IsZombie
        <3> QED
            BY <3>1, <3>2, <3>3
    <2>3. CASE ~(k > Len(usnap)) /\ ~(StartsWithJob(usnap[k]) /\ IsZombie(usnap[k]))
        BY <1>2, <2>3 DEF ZombieLoop
    <2> QED
        BY <2>1, <2>2, <2>3
<1>3. CASE ZombieDelete
    BY <1>3 DEF ZombieDelete
<1>4. CASE ZombieDeleteRaises
    BY <1>4 DEF ZombieDeleteRaises
<1>5. ASSUME NEW j \in JobExecIds, StartJob(j) PROVE IInv'
    <2>1. /\ je[j] = "absent" /\ j \notin ended
          /\ je' = [je EXCEPT ![j] = "running"]
          /\ UNCHANGED <<ended, users, ctx, pc, usnap, k>>
        BY <1>5 DEF StartJob
    <2>2. pc = "delete" => ~(usnap[k] \in BoundUsers(j))
        BY <2>1 DEF Started
    <2> QED
        BY <2>1, <2>2 DEF Started
<1>6. ASSUME NEW j \in JobExecIds, JobEnds(j) PROVE IInv'
    BY <1>6 DEF JobEnds, Started
<1>7. ASSUME NEW j \in JobExecIds, DeleteJobExecution(j) PROVE IInv'
    BY <1>7 DEF DeleteJobExecution, Started
<1>8. ASSUME NEW j \in JobExecIds, NEW u \in Users, CreateProxyUser(j, u)
      PROVE  IInv'
    <2>1. /\ je[j] = "running" /\ u \in BoundUsers(j)
          /\ users' = users \cup {u}
          /\ UNCHANGED <<je, ended, ctx, pc, usnap, k>>
        BY <1>8 DEF CreateProxyUser
    <2>2. \A i \in JobExecIds : u \in BoundUsers(i) => i = j
        BY <2>1, BoundOnce
    <2> QED
        BY <2>1, <2>2 DEF Started
<1>9. ASSUME NEW j \in JobExecIds, NEW u \in Users, CleanupProxyUser(j, u)
      PROVE  IInv'
    BY <1>9 DEF CleanupProxyUser
<1>10. CASE UNCHANGED vars
    BY <1>10 DEF vars, Started
<1> QED
    BY <1>1, <1>2, <1>3, <1>4, <1>5, <1>6, <1>7, <1>8, <1>9, <1>10 DEF Next

(* check_for_zombie_proxy_users never deletes the proxy user of a job    *)
(* execution that is still running (periodic.py lines 134-141), for any   *)
(* users, names and job execution ids, although it lists the users once   *)
(* and job executions start and end while it goes through the list.      *)
THEOREM ZombieNoLiveCredentialDeleted == Spec => NoLiveCredentialDeleted
<1>1. IInv => [(pc = "delete" /\ pc' = "loop") =>
                  \A j \in JobExecIds :
                      usnap[k] \in BoundUsers(j) => je[j] # "running"]_vars
    BY DEF IInv
<1> QED
    BY <1>1, InitIInv, NextIInv, PTL DEF Spec, NoLiveCredentialDeleted
=============================================================================
