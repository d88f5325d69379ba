------------------------- MODULE PeriodicScheduler -------------------------
(***************************************************************************)
(* The scheduler of sahara/service/periodic.py: setup() (lines 147-162)    *)
(* starts one dynamic timer that calls run_periodic_tasks of the           *)
(* SaharaPeriodicTasks built by _make_periodic_tasks() (lines 63-144).     *)
(*                                                                         *)
(* run_periodic_tasks and the dynamic timer belong to the oslo periodic    *)
(* task library, outside this repository; they are modelled from section   *)
(* 4.5 of the spec and that library's documented behaviour: each call      *)
(* goes through the tasks in order, runs those that are due, logs and      *)
(* swallows their exceptions, and returns how long to sleep, which the     *)
(* timer caps at periodic_interval_max.  A task that is run late has its   *)
(* last-run time moved to the latest multiple of its spacing, so the time  *)
(* since its last run is kept modulo its spacing together with a due flag. *)
(*                                                                         *)
(* The bodies of the three tasks are modelled by what they do to the       *)
(* thread's request context; what they do to clusters and credentials is   *)
(* in TransientReaper and ZombieReaper.  Time is counted in ticks of 15 s. *)
(***************************************************************************)
EXTENDS Integers, Sequences

CONSTANTS
    PeriodicEnable,          \* CONF.periodic_enable
    FuzzyDelay,              \* CONF.periodic_fuzzy_delay, in ticks
    IntervalMax,             \* CONF.periodic_interval_max, in ticks
    UseDomainForProxyUsers   \* values of CONF.use_domain_for_proxy_users

ASSUME SchedulerAssumption ==
    /\ PeriodicEnable \in BOOLEAN
    /\ FuzzyDelay \in Nat
    /\ IntervalMax \in Nat \ {0}
    /\ UseDomainForProxyUsers \subseteq BOOLEAN

VARIABLES
    timer,    \* "off", "sleep", "loop" (in run_periodic_tasks) or "task"
    left,     \* ticks the timer still sleeps
    elapsed,  \* elapsed[t]: ticks since t's last run, modulo its spacing
    due,      \* due[t]: a whole spacing has passed since t's last run
    idx,      \* position of the loop in TaskOrder
    idle,     \* the idle_for run_periodic_tasks will return
    ctx,      \* the request context of the timer's thread
    useDomain \* CONF.use_domain_for_proxy_users of this process

vars == <<timer, left, elapsed, due, idx, idle, ctx, useDomain>>

UJS == "update_job_statuses"
TUC == "terminate_unneeded_clusters"
ZPU == "check_for_zombie_proxy_users"

\* The order in which run_periodic_tasks goes through the tasks.
TaskOrder == <<UJS, TUC, ZPU>>
Tasks == {UJS, TUC, ZPU}

\* A zombie spacing with its two branches swapped.
SpacingSwapped ==
    [t \in Tasks |->
        CASE t = UJS -> 3
          [] t = TUC -> 6
          [] t = ZPU -> IF useDomain THEN -1 ELSE 20]

\* The spacing of each decorator, in ticks (lines 70, 73, 81, 129).
Spacing ==
    [t \in Tasks |->
        CASE t = UJS -> 3
          [] t = TUC -> 6
          [] t = ZPU -> IF useDomain THEN 20 ELSE -1]

\* run_immediately=True (line 73).
RunImmediately == [t \in Tasks |-> t = UJS]

\* A task with a spacing of zero or less is never run.
Enabled == {t \in Tasks : Spacing[t] > 0}

\* The sleep run_periodic_tasks starts from, 60 s.
DefaultInterval == 4

MinOf(a, b) == IF a <= b THEN a ELSE b

TypeOK ==
    /\ timer \in {"off", "sleep", "loop", "task"}
    /\ left \in 0..(FuzzyDelay + IntervalMax)
    /\ elapsed \in [Tasks -> Nat]
    /\ due \in [Tasks -> BOOLEAN]
    /\ idx \in 1..(Len(TaskOrder) + 1)
    /\ idle \in 0..DefaultInterval
    /\ ctx \in {"none", "admin"}
    /\ useDomain \in BOOLEAN

(* setup(): with periodic_enable the timer starts after randint(0,       *)
(* periodic_fuzzy_delay) seconds, or at once when the delay is 0; the    *)
(* tasks' last-run times are the time _make_periodic_tasks ran, except   *)
(* for the run_immediately task, which has none and is due.              *)
Init ==
    /\ timer = IF PeriodicEnable THEN "sleep" ELSE "off"
    /\ left \in IF FuzzyDelay # 0 THEN 0..FuzzyDelay ELSE {0}
    /\ elapsed = [t \in Tasks |-> 0]
    /\ due = RunImmediately
    /\ idx = 1
    /\ idle = DefaultInterval
    /\ ctx = "none"
    /\ useDomain \in UseDomainForProxyUsers

-----------------------------------------------------------------------------
(* One tick of 15 s passes while the timer sleeps or a task runs.        *)
Tick ==
    /\ \/ timer = "sleep" /\ left > 0 /\ left' = left - 1
       \/ timer = "task" /\ UNCHANGED left
    /\ elapsed' = [t \in Tasks |->
                      IF t \in Enabled THEN (elapsed[t] + 1) % Spacing[t]
                      ELSE elapsed[t]]
    /\ due' = [t \in Tasks |->
                  due[t] \/ (t \in Enabled /\ elapsed[t] + 1 = Spacing[t])]
    /\ UNCHANGED <<timer, idx, idle, ctx, useDomain>>

(* The timer wakes up and calls run_periodic_tasks.                      *)
Wake ==
    /\ timer = "sleep"
    /\ left = 0
    /\ timer' = "loop"
    /\ idx' = 1
    /\ idle' = DefaultInterval
    /\ UNCHANGED <<left, elapsed, due, ctx, useDomain>>

(* The loop of run_periodic_tasks at a task that is not due: shorten the *)
(* sleep to the time left until it is; a disabled task is not listed.    *)
SkipTask ==
    LET t == TaskOrder[idx] IN
    /\ timer = "loop"
    /\ idx <= Len(TaskOrder)
    /\ ~(t \in Enabled /\ due[t])
    /\ idle' = IF t \in Enabled THEN MinOf(idle, Spacing[t] - elapsed[t])
               ELSE idle
    /\ idx' = idx + 1
    /\ UNCHANGED <<timer, left, elapsed, due, ctx, useDomain>>

(* A task that is due runs: its first lines set the admin context (lines *)
(* 76-77, 84-85, 131-132).                                                *)
RunTask ==
    LET t == TaskOrder[idx] IN
    /\ timer = "loop"
    /\ idx <= Len(TaskOrder)
    /\ t \in Enabled /\ due[t]
    /\ idle' = MinOf(idle, Spacing[t])
    /\ due' = [due EXCEPT ![t] = FALSE]
    /\ timer' = "task"
    /\ ctx' = "admin"
    /\ UNCHANGED <<left, elapsed, idx, useDomain>>

(* The task returns after clearing the context (lines 79, 127, 142).     *)
TaskReturns ==
    /\ timer = "task"
    /\ ctx' = "none"
    /\ timer' = "loop"
    /\ idx' = idx + 1
    /\ UNCHANGED <<left, elapsed, due, idle, useDomain>>

(* The task raises: job_manager.update_job_statuses (line 78), or one of *)
(* the calls the reapers do not catch.  run_periodic_tasks logs it and    *)
(* goes on; the context the task set is left in place.                    *)
TaskRaises ==
    /\ timer = "task"
    /\ timer' = "loop"
    /\ idx' = idx + 1
    /\ UNCHANGED <<left, elapsed, due, idle, ctx, useDomain>>

(* run_periodic_tasks returns idle_for and the timer sleeps that long,   *)
(* at most periodic_interval_max (line 161).                             *)
Sleep ==
    /\ timer = "loop"
    /\ idx > Len(TaskOrder)
    /\ timer' = "sleep"
    /\ left' = MinOf(idle, IntervalMax)
    /\ UNCHANGED <<elapsed, due, idx, idle, ctx, useDomain>>

Next ==
    \/ Tick \/ Wake \/ SkipTask \/ RunTask \/ TaskReturns \/ TaskRaises
    \/ Sleep

(* The timer thread takes its steps, and time passes, whenever they are  *)
(* possible; a task eventually returns or raises (every remote call it   *)
(* makes ends).                                                          *)
Fairness ==
    /\ WF_vars(Next)
    /\ WF_vars(TaskReturns \/ TaskRaises)

Spec == Init /\ [][Next]_vars

FairSpec == Spec /\ Fairness

-----------------------------------------------------------------------------
(***************************************************************************)
(* Properties.                                                             *)
(***************************************************************************)

\* Task t is running.
Running(t) == timer = "task" /\ TaskOrder[idx] = t

\* The tasks section 4.5 enables: the reaper of proxy credentials only when
\* proxy-domain users are in use.
MustRun == {UJS, TUC} \cup (IF useDomain THEN {ZPU} ELSE {})

(* Spec 4.5: with periodic_enable, each task the configuration enables    *)
(* keeps firing, whatever the tasks raise: job statuses are refreshed,    *)
(* transient clusters and zombie credentials looked at, again and again;  *)
(* the disabled one never fires.  This is about the spacings chosen in    *)
(* _make_periodic_tasks (lines 70-129) and the timer setup() starts.      *)
TasksRunAsConfigured ==
    PeriodicEnable =>
        \A t \in Tasks :
            \/ t \in MustRun /\ []<>Running(t)
            \/ t \notin MustRun /\ []~Running(t)

(* Spec 4.5: the job-status refresher clears the administrative context  *)
(* it established, whatever the outcome of the call.  This is about       *)
(* set_ctx(None) of line 79, which an exception of line 78 skips.         *)
JobStatusContextCleared ==
    [][Running(UJS) /\ timer' = "loop" => ctx' = "none"]_vars
=============================================================================
