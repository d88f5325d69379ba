------------------------- MODULE AgentWaiterProofs -------------------------
(***************************************************************************)
(* Proofs about await_agents (AgentWaiter): it raises its timeout error    *)
(* only when the last agent registered at most one iteration of the loop  *)
(* before the deadline, for every timeout, poll interval, call duration,  *)
(* sleep overrun and set of instances.                                     *)
(***************************************************************************)
EXTENDS AgentWaiter, TLAPS

(* The inductive strengthening.  A call to the manager or a sleep never    *)
(* overruns its bound; a call began less than the timeout ago; a reply     *)
(* that lacks an instance was read by the manager no earlier than the      *)
(* call began, so the last registration is no earlier than that either;    *)
(* a sleep therefore ends at most Slack after the last registration, and   *)
(* the while test sees a last registration at most Slack old.  Without     *)
(* the reply, sleep and check conjuncts, a Fetch, Wake or Check step could *)
(* not be shown to keep NoSpuriousTimeout.                                 *)
IInv ==
    /\ TypeOK
    /\ registered # Instances => allAt = Never
    /\ pc \in {"fetch", "reply", "sleep"} => now <= until
    /\ pc \in {"fetch", "reply"} => until <= now + MaxCall
                                   /\ until < Timeout + MaxCall
    /\ pc = "reply" /\ seen # Instances => until <= allAt + MaxCall
    /\ pc = "sleep" => until <= now + Poll + MaxOverrun
                       /\ until <= allAt + Slack
    /\ pc = "check" => now <= allAt + Slack
    /\ pc = "failed" => Timeout <= allAt + Slack

LEMMA InitIInv == Init => IInv
BY WaiterAssumption DEF Init, IInv, TypeOK, MaxTime, Never, Slack

LEMMA NextIInv == IInv /\ [Next]_vars => IInv'
<1> SUFFICES ASSUME IInv, [Next]_vars PROVE IInv'
    OBVIOUS
<1> USE WaiterAssumption DEF IInv, TypeOK, MaxTime, Never, Slack
<1>1. CASE Check
    BY <1>1 DEF Check
<1>2. CASE ManagerRead
    BY <1>2 DEF ManagerRead
<1>3. CASE Fetch
    BY <1>3 DEF Fetch
<1>4. CASE Wake
    BY <1>4 DEF Wake
<1>5. CASE Tick
    BY <1>5 DEF Tick
<1>6. ASSUME NEW i \in Instances, Register(i) PROVE IInv'
    BY <1>6 DEF Register
<1>7. CASE UNCHANGED vars
    BY <1>7 DEF vars
<1> QED
    BY <1>1, <1>2, <1>3, <1>4, <1>5, <1>6, <1>7 DEF Next

(* Every reachable state of await_agents is well-typed.                    *)
THEOREM WaiterTypeCorrect == Spec => []TypeOK
<1>1. IInv => TypeOK
    BY DEF IInv
<1> QED
    BY <1>1, InitIInv, NextIInv, PTL DEF Spec

(* await_agents raises HadoopProvisionError (lines 216-218) only when the  *)
(* last agent registered at most Slack (a call to get_all_hosts and an     *)
(* overrunning context.sleep(5)) before the timeout, or never: the while   *)
(* test, the break and the sleep of lines 202-215 never miss an inventory  *)
(* that was complete that long before the deadline, whenever in its call   *)
(* the manager reads it and however late the reply and the sleep end.      *)
THEOREM NoSpuriousTimeoutHolds == Spec => []NoSpuriousTimeout
<1>1. IInv => NoSpuriousTimeout
    BY DEF IInv, NoSpuriousTimeout
<1> QED
    BY <1>1, InitIInv, NextIInv, PTL DEF Spec
=============================================================================
