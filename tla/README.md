# Formal models of the Sahara CDH plugin helpers and the periodic service

This directory holds TLA+ models of the code under `src/`:

- `src/sahara/plugins/cdh/cloudera_utils.py` (abbreviated CU below) is the
  ClouderaUtils layer. Sahara uses it to drive Cloudera Manager.
- `src/sahara/service/periodic.py` (PE) holds the periodic reconciliation
  tasks and the timer that runs them.
- `src/sahara/tests/unit/db/sqlalchemy/test_types.py` holds unit tests of
  JSON column types. Those types are not in this repository.

`PROJECT.json` gives the machine-readable account of this project:
- components, runs, mutants and hazards;
- the map from every modelled definition to the source lines it translates.

## The system and how its parts interact

| Part | Code | Interacts with |
|------|------|----------------|
| Command runner | `cloudera_cmd`, CU 38-50 | Wraps every method of ClouderaUtils that yields a manager command. |
| Service router | `get_service_by_role`, CU 166-194, and the service names, CU 58-65 | Used by `_add_role`, `decommission_nodes` and `update_configs`. |
| Node lifecycle | `configure_instances` / `configure_instance` / `_add_role` (CU 220-237), `decommission_nodes` (106-110), `delete_instances` (96-104), `update_configs` (126-132) | These are called by several provisioning threads at once against one manager. They also race the agents, which register new hosts. |
| Agent waiter | `await_agents`, CU 196-218 | Polls the manager's host inventory while agents register. |
| Scheduler | `setup`, PE 147-162; `_make_periodic_tasks`, PE 63-144 | One timer thread runs the three tasks below, one after the other. |
| Job-status refresher | `update_job_statuses`, PE 73-79 | Sets and clears the thread's request context around the job manager. |
| Transient-cluster reaper | `terminate_unneeded_clusters`, PE 81-127 | Races users who start jobs, and the engine, which activates, scales and terminates clusters. |
| Proxy-credential reaper | `check_for_zombie_proxy_users`, PE 129-142 | Races job executions that start, end and are deleted, and the job's own cleanup of its proxy user. |

## Modules

Each component module declares:
- its CONSTANTS, with a named ASSUME;
- its VARIABLES;
- `TypeOK`, `Init`, one action per step of the code, `Next` and `Spec`;
- its properties, at the end.

Each `MC*` module gives the constants model values for TLC.

- **CommandRunner**
  - State: `results` (the waited results, in yield order), `phase` (pull, wait, returned, raised) and `err`.
  - Actions:
    - `Yield` is `next(generator)`.
    - `Exhausted` is the generator's end.
    - `WaitAccept(r)` and `WaitRaise(r)` are `cmd.wait()` returning `r`, followed by the check of lines 43-49.
  - The manager chooses each result, so `r` ranges over every result with up to `MaxChildren` children and a child list of `None`.
  - `RaisedMessage` translates the children loop.
- **ServiceRouter** has no state. `ServiceOf` is `get_service_by_role` as a function from role type to service name. The `ValueError` on an unsupported process is the complement of its domain.
- **NodeLifecycle**
  - Manager state: `roles` (absent, commissioned or decommissioned per role), `configured`, `clientCfg`, `registered` (the inventory) and `members` (the hosts of the cluster).
  - Environment state: `fresh` and `joining` (instances whose agents are still arriving), and `failures`.
  - Per-thread state: `thr[c]`, a frame record holding the program counter and the locals of the call that thread `c` is in. It is reset to `Idle` when the call returns or raises.
  - Every remote call is one atomic step. The manager rejects what the real one rejects: a duplicate role name, an unknown role or host, and a host that is not a member.
  - `RemoteFails` lets any remote call raise, up to `MaxFailures` times. It may do so after the manager has carried out the command. That covers a decommission, a waited client-config deploy and a `create_role` whose reply is lost after the manager created the role. `CreateAccepted` is what the manager checks before it creates a role.
  - The history variable `addRaised` holds the roles whose `_add_role` raised after the role existed. Nothing in the code reads it. It records what a caller was told, so that a property can ask whether a half-done role was reported.
  - `update_configs` (CU 126-132) does not skip `CLOUDERA_MANAGER`, unlike `_add_role` (CU 229). On the manager's node, `get_service_by_role` therefore raises `ValueError`, and `UpdDeploy` returns at that process. The result is deterministic, so no run needs to look for it. The hazard list no longer lists it.
  - `delete_instances` reads the inventory once (`DelList`) and then scans it (`DelScan`, `DelHost`). This stale read is what the model is about.
- **AgentWaiter** has state `now`, `registered`, `seen` (the inventory the manager read for the pending reply), `pc` and `until` (when the current call or sleep ends), plus the history variable `allAt`, the time the last agent registered.
  - Time is counted in ticks of the 5 s poll. A call to `get_all_hosts` takes up to `MaxCall` ticks. `context.sleep(5)` lasts `Poll` ticks and may overrun by up to `MaxOverrun`.
  - `Check` is the while test, which starts a call. `ManagerRead` is the manager reading its inventory at some moment of the call. `Fetch` is the reply reaching the waiter and the inventory loop with its `break`; it works on `seen`, not on the current inventory. `Wake` is the end of the sleep. `Register(i)` is an agent connecting.
  - `Slack` = `MaxCall + Poll + MaxOverrun` is the longest one iteration of the loop takes.
- **PeriodicScheduler**
  - State:
    - `timer` (off, sleep, loop or task) and `left` (the rest of the sleep);
    - `elapsed` and `due` (the time since each task's last run, modulo its spacing);
    - `idx` and `idle` (the position of `run_periodic_tasks` and the sleep it will return);
    - `ctx`, the thread's request context;
    - `useDomain`, the configuration option, chosen once in `Init`.
  - `Spacing` translates the decorators of lines 70-129. `Init` and `Sleep` translate `setup()`.
  - `run_periodic_tasks` and the dynamic timer are in oslo, not in this repository. `RunTask`, `SkipTask`, `Tick` and `Wake` model them from section 4.5 of the spec and are marked `spec_modelled` in the map.
  - Oslo moves a late task's last-run time to the nearest multiple of its spacing. This is why elapsed time is kept modulo the spacing, which keeps the state finite.
- **TransientReaper**
  - The task's state:
    - `pc`, `snap` (the list of Active clusters, with the `updated_at` each had when read) and `k` (the loop index);
    - `ctx`;
    - `useV3`, the identity-API option, chosen once in `Init`.
  - The world's state: `now`, `status`, `updatedAt` and `running`. The history variable `activeFrom` records when each cluster first became Active.
  - The task's steps are `ReaperStart`, `ReaperLoop`, `ReaperCount`, `ReaperTerminate` (both branches) and `ReaperRaises` (an uncaught exception at line 106 or 123).
  - The environment's steps are `Tick`, `Activate`, `StartScaling`, `FinishScaling`, `FinishTermination`, `RunJob` and `JobEnds`.
  - `Promise` instantiates ReaperPromise with the rows, the clock and the jobs; the task's `ctx`, `pc`, `snap`, `k` and `useV3` are hidden. `ImplementsPromise` is `Promise!Spec`.
- **ReaperPromise**
  - The abstract specification of what `terminate_unneeded_clusters` promises. It has no listing, loop or reads.
  - `Terminate(c)` moves a transient cluster that is not Spawning, and that became Active at least `MinActiveTime` ago, to Deleting or AwaitingTermination, and stamps its row.
  - The environment is the same as TransientReaper's. `Move(c, m)` covers the engine's four status moves, listed in `EngineMoves`.
  - The promise says nothing about running jobs or the current status being Active. The reaper_stale_guard run shows that the task does not keep those.
- **ZombieReaper**
  - User names are sequences of characters, so `startswith('job_')` and the slice `name[4:]` are modelled by what they do (`StartsWithJob`, `JobExecIdOf`).
  - The task's state is `pc`, `usnap` and `k`. The world's state is `je` (each job execution's status), `users` and the history variable `ended`.
  - `ZombieDeleteRaises` is `proxy_user_delete` raising. It raises when keystone fails (`Flaky`), or when the user is already gone.
- **CommandRunnerProofs**, **AgentWaiterProofs**, **NodeLifecycleProofs**, **TransientReaperProofs** and **ZombieReaperProofs** hold the TLAPS proofs; see below.

## Runs

There are 12 runs. Each passing run is paired with mutants: plausible bugs in the mapped code that make TLC fail the property (see "mutants" in PROJECT.json).

| Run | cfg | Expect | What it shows |
|-----|-----|--------|---------------|
| command_runner | CommandRunner.cfg | pass | Over every result of up to 2 commands with up to 2 children each, the wrapper raises only on a failed command. The error carries the message section 4.1 prescribes: the first failing child's, or the command's own. |
| command_runner_empty_children | CommandRunnerSwallow.cfg | violation | A failed command whose child list is present but empty is accepted (CU 44). |
| node_lifecycle | NodeLifecycle.cfg | pass | Two threads configure, decommission, delete and redeploy on two hosts while a new host registers, with one remote call that may raise. They never leave a cluster member unknown to the manager (`MembersRegistered`). A role that exists but was never configured is either the one a thread is about to configure, or one whose `_add_role` raised to its caller (`UnconfiguredRoleAccounted`). |
| decommission_ignores_result | NodeLifecycleDecommission.cfg | violation | `decommission_nodes` deletes roles whose decommission failed (CU 108). |
| delete_aborts | NodeLifecycleDeleteAbort.cfg | violation | `remove_host` raises and the remaining target hosts are left in place (CU 103). The trace has a single caller. A new host's agent registers, but the host never joins the cluster, as after a failed scale-up. `delete_instances` lists it first, and `remove_host` raises because it is no member. |
| agent_waiter | AgentWaiter.cfg | pass | `await_agents` times out only if the last agent registered at most `Slack` before the deadline (`NoSpuriousTimeout`). The manager may read the inventory at any moment of the call, and the reply and the sleep may end late. The bound is tight: TLC finds a timeout with the last agent `Slack` ticks early, and the one-poll bound fails. |
| scheduler | PeriodicScheduler.cfg | pass | With and without proxy-domain users, every task the configuration enables fires again and again, whatever the tasks raise. The zombie reaper never fires when it is disabled. |
| scheduler_context | PeriodicSchedulerContext.cfg | violation | An exception of the job manager leaves the admin context set on the scheduler thread (PE 78-79). |
| reaper | TransientReaper.cfg | pass | On both termination paths, with failing calls, the task implements ReaperPromise (`ImplementsPromise`). Its only row changes terminate transient clusters that became Active at least `MinActiveTime` ago. With one non-transient cluster, it never writes that cluster's row. |
| reaper_stale_guard | TransientReaperStale.cfg | violation | A cluster that started scaling, or was updated after the listing, is still terminated: the guards were evaluated on earlier reads. |
| zombie | ZombieReaperPass.cfg | pass | The credential of a running job execution is never deleted, while jobs start, end and are deleted during the scan. |
| zombie_abort | ZombieReaperAbort.cfg | violation | The job's own cleanup deletes a user after the list was read. `proxy_user_delete` then raises and ends the cycle before the remaining users are looked at (PE 141). |

Each violation is recorded as a finding in PROJECT.json. The finding names the line, what the code does, and what the spec says.

### Bounds, and why they are enough

- **CommandRunner.** 2 commands, 2 children and 2 messages. That is enough for:
  - a failed command after an accepted one;
  - two failing children with different messages, so first and last differ;
  - a `None` list and an empty list.
- **NodeLifecycle.** 2 hosts, one of them with the manager process and one of them new. There are 2 threads and `MaxFailures` = 1.
  - Both threads can work on the same host, so each call races every other call.
  - One failure can happen after the manager carried out the command.
  - The two threads are interchangeable, so the run declares them a symmetry set (`MCSymmetry`). Every property quantifies over all callers alike, so the symmetry is sound.
  - The run has 6 million distinct states and takes about 1.5 minutes. With 2 failures it no longer finishes in 5 minutes.
- **AgentWaiter.** The real timeout and poll, in ticks (300 s / 5 s = 60), and 2 instances. `MaxCall` = 1 and `MaxOverrun` = 1, so that a call can straddle the deadline, the manager can read before the last registration within the same call, and a sleep can end late.
- **PeriodicScheduler.** The default spacings (45 s, 90 s and 300 s in 15 s ticks), a fuzzy delay of 4 and an interval cap of 4, so that tasks run late and are rescheduled.
- **TransientReaper.** 2 clusters, one transient. `MinActiveTime` = 2 and a clock of 3, so a cluster can be listed young and old and can change between the listing and its termination. One job.
- **ZombieReaper.** 4 users: `job_1` and `job_2` are bound to job executions; `job` is too short; `job_3` names no known execution. There are 2 job execution ids.

### Fairness

Only the scheduler run checks liveness. It assumes:
- weak fairness of the timer thread's steps: eventlet runs the timer whenever it is due;
- weak fairness of a task's return or raise: every remote call a task makes ends, by its result or by the client's timeout.

No fairness is assumed of the environment.

## What is proved

`CommandRunnerProofs` proves, for every value of the constants allowed by `RunnerAssumption`:

- `TypeCorrect`: `Spec => []TypeOK`;
- `RaisesWithSpecMessage`: `Spec => []RaisedWithSpecMessage`. When the wrapper raises, the last command it waited on failed, and the error carries the first failing child's message, or the command's own.

Neither invariant is inductive by itself. The strengthening `IInv` adds two facts:
- in phase `wait`, `Len(results) < MaxCmds`, which `Yield` guarantees; without it, `WaitAccept` could exceed the bound;
- in phase `raised`, the last result raised and `err` is its `RaisedMessage`.

The lemma `MessageAgreement` shows that `RaisedMessage` (the code's loop) and `SpecMessage` (the spec's wording) agree on every result that raises. `LeastExists` gives the least failing child that both `CHOOSE`s pick.

`AgentWaiterProofs` proves, for every value of the constants allowed by `WaiterAssumption`:

- `WaiterTypeCorrect`: `Spec => []TypeOK`;
- `NoSpuriousTimeoutHolds`: `Spec => []NoSpuriousTimeout`. The bound `Slack` holds for every call duration `MaxCall` and every sleep overrun `MaxOverrun`.

Its strengthening `IInv` adds several facts:
- an incomplete inventory means `allAt = Never`;
- a call or sleep never passes its bound, `until`; a call began at most `MaxCall` ago and before the timeout;
- a reply that lacks an instance was read no earlier than its call began, so `until <= allAt + MaxCall`;
- a sleep ends at most `Slack` after the last registration;
- at the while test, the last registration is at most `Slack` old.

From the last fact, a `Check` step that raises sees `Timeout <= now <= allAt + Slack`. TLC checked `IInv` as an invariant for several choices of the constants before it was proved.

`NodeLifecycleProofs` proves, for every value of the constants allowed by `NodeLifecycleAssumption` (any hosts, callers, processes and failure budget):

- `NodeTypeCorrect`: `Spec => []TypeOK`;
- `MembersAlwaysRegistered`: `Spec => []MembersRegistered`;
- `HalfDoneRolesAccounted`: `Spec => []UnconfiguredRoleAccounted`.

The first two rest on `IInv`. It adds `FrameOK(c)` for every thread: the locals of the call a thread is in fit its program counter. The instance list is a sequence of hosts, the loop indices are within it, and a thread at `dec_wait` or `remove` holds a target the manager knows. `HostsOK` says that a host becomes a member only while it is registered, and leaves the inventory only after it has left the cluster.

The third adds `RInv`. `ConfiguredPresent` says that a configured role exists. This is true because `update_config` marks a role configured only when the manager has it, and `delete_role` forgets the configuration with the role. With it, a role created by `_add_role` stays accounted for until `update_config` ends. It ends either with the role configured, or, when the call raises, with the role in `addRaised`.

The proof has one step per action. The frame record is updated with nested EXCEPTs, which the SMT backend does not accept. So Zenon proves a lemma for each shape of frame update (`EnterWithInsts`, `SetPcI`, ...), turning it into the flat `FrameStep`. SMT then does the arithmetic. The generic lemmas `RoleStep`, `QuietStep` and `LeaveConfigStep` discharge the conjuncts an action does not touch.

`TransientReaperProofs` proves, for every value of the constants allowed by `ReaperAssumption` (any clusters, clock bound and `MinActiveTime`):

- `ReaperTypeCorrect`: `Spec => []TypeOK`;
- `ReaperImplementsPromise`, described below.

The task compares the clock with the `updated_at` it listed, not with `activeFrom`. Its `IInv` bridges the two:
- every row's `updated_at` is at most the clock, because a row is written only at the current time;
- a cluster that is not Spawning has `activeFrom <= updatedAt`. No step sends a cluster back to Spawning, so `activeFrom` is fixed from then on;
- every listed entry names a cluster that is not Spawning, with `activeFrom` at most the listed `updated_at`. The listing copies Active clusters only;
- at `terminate`, the count step's young-cluster test still holds, because the clock only moves forward.

From these, a terminating step has `now - activeFrom >= now - updated_at >= MinActiveTime`, as ReaperPromise's `Terminate` requires. The lemmas `RowsStep` and `EnvStep` discharge the clock, engine and user steps together. TLC checked `IInv` as an invariant, with a clock of 4, before it was proved.

`TransientReaperProofs` also proves `ReaperImplementsPromise`: `Spec => ImplementsPromise`, the refinement of ReaperPromise. It follows the usual layout:
- `InitRefines`: the initial rows are the promise's initial rows;
- `StepRefines`: under `IInv /\ TermInv`, every step is a step of ReaperPromise or leaves its variables unchanged. The listing, loop head, count and uncaught exception write no row. `Tick`, the engine's moves and the jobs map to the same steps of the promise. A termination maps to `Terminate` of the cluster at `snap[k]`.

`TermInv` says that at `count` and `terminate` the cluster at `snap[k]` is transient. The loop head checks this before it goes to `count`, and `k` stays put until the termination. With `IInv`'s facts about the listed entry, `activeFrom <= updated_at` and the young-cluster test, the termination meets `Terminate`'s guards. TLC checked `IInv /\ TermInv`, and the refinement, with two transient clusters and a clock of 4 before the proof.

`ZombieReaperProofs` proves, for every value of the constants allowed by `ZombieAssumption` (any users, user names and job execution ids):

- `ZombieNoLiveCredentialDeleted`: `Spec => NoLiveCredentialDeleted`. The zombie reaper never deletes the proxy user of a running job execution.

The task lists the users once and reads each job execution later, so the proof needs `IInv`:
- a terminal job execution is in the history variable `ended`;
- every user, existing or listed, that is bound to a job execution belongs to one that has started (it exists, or it has ended);
- at `delete`, the user at `usnap[k]` is bound to no running job execution.

This rests on job execution ids never being reused. `StartJob` requires `j \notin ended`. A job that ends cannot start again under the same id, so a user judged a zombie stays one. The name lemmas carry the slice: `SeqMono` (a sequence over a smaller alphabet is one over a larger), `ConcatSlice` (`name[4:]` of `'job_' + id` is `id`) and `BoundUserId` (a user bound to `j` has `JobExecIdOf` equal to `j`). TLC checked `IInv` as an invariant before it was proved.

## What is only model-checked

- Liveness (`TasksRunAsConfigured`). TLAPS does not handle ENABLED or fairness here.
- Every property of PeriodicScheduler. `TasksRunAsConfigured` is its only passing property, and it is liveness.

## What is not modelled

- **`have_cm_api_libs`, `validate_cm_api_libs`, `get_api_client` and `get_cloudera_cluster`.** They build client sessions and change no state.
- **`start_instances`, `refresh_nodes`, `deploy_configs`, `restart_mgmt_service`, `start_service`, `start_roles` and `create_mgmt_service`.** Each is a single `cloudera_cmd` command. Their failure behaviour is the command runner's. No property of the node lifecycle reads the state they change: whether a role is started, or whether a host's configuration is refreshed. Each would add an action to every interleaving of a run that is already 6 million states. So NodeLifecycleOrchestrator stays "partly" modelled.
- **Lost replies of `remove_host`, `delete_host`, `delete_role` and `update_config`.** Only the lost replies of a decommission, a client-config deploy and `create_role` are modelled. A lost reply of one of the other calls would make the thread raise after the manager removed something. Each such reply is one more failure branch at a step that already has one, and the run has no time to spare for it.
- **The bodies of the job manager, `ops.terminate_cluster` and the keystone client.** Each is one atomic step that may fail.
- **The JSON column type tests.** Their code is not here, and they are sequential conversions.

## Plan for later work

1. Compose the scheduler with the two reapers, so that their context effects and interleavings are checked in one model.
