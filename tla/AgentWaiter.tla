---------------------------- MODULE AgentWaiter ----------------------------
(***************************************************************************)
(* ClouderaUtils.await_agents of sahara/plugins/cdh/cloudera_utils.py      *)
(* (lines 196-218): poll the manager's host inventory until every          *)
(* instance's fqdn is registered, sleeping 5 s between polls, and raise    *)
(* HadoopProvisionError once 300 s have passed since the start.            *)
(*                                                                         *)
(* The agents connect while the waiter runs.  Time is counted in ticks of  *)
(* the 5 s poll.  A call to get_all_hosts takes up to MaxCall ticks: the   *)
(* manager reads its inventory at some moment of the call and the reply   *)
(* reaches the waiter later.  context.sleep(5) lasts at least Poll ticks   *)
(* and may overrun by up to MaxOverrun.                                    *)
(***************************************************************************)
EXTENDS Naturals, FiniteSets

CONSTANTS
    Instances,  \* the instances waited for (their fqdns)
    Timeout,    \* timeout = 300 s, in ticks
    Poll,       \* context.sleep(5), in ticks
    MaxCall,    \* longest a get_all_hosts call takes, in ticks
    MaxOverrun  \* longest context.sleep(5) oversleeps, in ticks

ASSUME WaiterAssumption ==
    /\ IsFiniteSet(Instances)
    /\ Instances # {}
    /\ Timeout \in Nat
    /\ Poll \in Nat \ {0}
    /\ MaxCall \in Nat
    /\ MaxOverrun \in Nat

\* The longest one iteration of the while loop takes: a call and a sleep.
Slack == MaxCall + Poll + MaxOverrun

\* A clock bound past which no step of the waiter happens.
MaxTime == Timeout + Slack

VARIABLES
    now,         \* timeutils.utcnow(), in ticks
    registered,  \* the hosts the manager lists
    seen,        \* the inventory the manager read for the pending reply
    pc,          \* where the waiter is
    until,       \* when the current call or sleep ends at the latest
    allAt        \* when the last instance registered (history)

vars == <<now, registered, seen, pc, until, allAt>>

Never == MaxTime + 1

TypeOK ==
    /\ now \in 0..MaxTime
    /\ registered \subseteq Instances
    /\ seen \subseteq Instances
    /\ pc \in {"check", "fetch", "reply", "sleep", "ok", "failed"}
    /\ until \in 0..MaxTime
    /\ allAt \in 0..Never

(* s_time = utcnow() (line 201): the start is time 0.  Some agents may   *)
(* have registered already.                                               *)
Init ==
    /\ now = 0
    /\ registered \in SUBSET Instances
    /\ seen = {}
    /\ pc = "check"
    /\ until = 0
    /\ allAt = IF registered = Instances THEN 0 ELSE Never

(* The test of the while loop (line 202): go on while less than the      *)
(* timeout has passed, calling get_all_hosts, else raise in the else      *)
(* branch (lines 216-218).                                                *)
Check ==
    /\ pc = "check"
    /\ IF now < Timeout
       THEN pc' = "fetch" /\ until' = now + MaxCall
       ELSE pc' = "failed" /\ UNCHANGED until
    /\ UNCHANGED <<now, registered, seen, allAt>>

(* The manager serves get_all_hosts('full') (line 205): it reads its     *)
(* inventory at this moment of the call.                                  *)
ManagerRead ==
    /\ pc = "fetch"
    /\ seen' = registered
    /\ pc' = "reply"
    /\ UNCHANGED <<now, registered, until, allAt>>

\* The is_ok loop whose success branch has lost its break: the while loop
\* goes on polling, and ends in the else branch.
FetchNoBreak ==
    /\ pc = "reply"
    /\ IF Instances \subseteq seen
       THEN pc' = "check" /\ UNCHANGED until
       ELSE pc' = "sleep" /\ until' \in now + Poll .. now + Poll + MaxOverrun
    /\ UNCHANGED <<now, registered, seen, allAt>>

(* The reply reaches the waiter: every fqdn in the inventory the manager  *)
(* read ends the loop with break (lines 206-215); a missing one makes it  *)
(* sleep, for Poll ticks and up to MaxOverrun more.                       *)
Fetch ==
    /\ pc = "reply"
    /\ IF Instances \subseteq seen
       THEN pc' = "ok" /\ UNCHANGED until
       ELSE pc' = "sleep" /\ until' \in now + Poll .. now + Poll + MaxOverrun
    /\ UNCHANGED <<now, registered, seen, allAt>>

(* context.sleep(5) returns (line 213).                                  *)
Wake ==
    /\ pc = "sleep"
    /\ now = until
    /\ pc' = "check"
    /\ UNCHANGED <<now, registered, seen, until, allAt>>

(* Time passes during a call to the manager or a sleep, never past their *)
(* end.                                                                   *)
Tick ==
    /\ pc \in {"fetch", "reply", "sleep"}
    /\ now < until
    /\ now' = now + 1
    /\ UNCHANGED <<registered, seen, pc, until, allAt>>

(* The agent on instance i connects and the manager lists its host.      *)
Register(i) ==
    /\ pc \notin {"ok", "failed"}
    /\ i \notin registered
    /\ registered' = registered \cup {i}
    /\ allAt' = IF registered' = Instances THEN now ELSE allAt
    /\ UNCHANGED <<now, seen, pc, until>>

Next ==
    \/ Check \/ ManagerRead \/ Fetch \/ Wake \/ Tick
    \/ \E i \in Instances : Register(i)

Spec == Init /\ [][Next]_vars

-----------------------------------------------------------------------------
(***************************************************************************)
(* Properties.                                                             *)
(***************************************************************************)

(* Spec 4.4 and 8: no agent that is in the inventory in time is missed:  *)
(* when the waiter raises, the last agent registered at most one          *)
(* iteration of the loop (a call and an overrunning sleep, Slack) before  *)
(* the timeout, or never.  The manager may read the inventory just before *)
(* the last agent registers and the reply and the sleep may take their    *)
(* longest; spec 8's example (the second instance at 250 s of 300 means   *)
(* success) holds when Slack is under 50 s.  This is about the            *)
(* while-else of lines 202-218, its break and its strict comparison with  *)
(* the timeout.                                                           *)
NoSpuriousTimeout ==
    pc = "failed" => Timeout <= allAt + Slack
=============================================================================
