# Verification of TrafficGenTool

TLA+ models of the program in `src/`: a *controller* (FastAPI, one asyncio
loop) that distributes test plans, and *worker agents* (one asyncio loop per
node) that run them and stream measurements back. TLC checks the models on
small instances; TLAPS proves the main invariants for every instance.

## 1. The system

```
 dashboard --REST--> controller --WebSocket /ws/agent--> agent (per node)
     ^                 |  ^  RUN_PLAN STOP_PLAN PING       |  plan executor
     +--WebSocket------+  +--- REGISTER PONG PLAN_STARTED  |  aliases, RADIUS logon,
        /ws/dashboard     |    PLAN_STOPPED SNAPSHOT ERROR |  UDP/web/YouTube workers
                          +-- built-in RADIUS server <-----+
```

| Component (source) | State it keeps | Operations | What makes it correct | Module |
|---|---|---|---|---|
| Session store (`controller/session_store.py`) | nodes with status and last_seen; sessions with status and participants | register, touch, update, remove; create, start, stop, complete, clear | one active session; an outcome is final | `SessionStore`, `Controller`, `TestSlot` |
| its snapshot log and alerts | snapshots, `_alert_below_since`, `_alert_fired`, alerts | add_snapshot, `_check_alert`, `_clear_alert_state` | an alert per long dip and none else; newest snapshots kept | `Telemetry` |
| Agent handlers and registry (`controller/main.py`) | `agent_bus._connections`, one handler per WebSocket with its `node_id` | REGISTER, PONG, SNAPSHOT, PLAN_STARTED, PLAN_STOPPED, ERROR, disconnect; the heartbeat task | store and registry agree; only the current connection evicts a node; no ghost nodes (silent nodes should be noticed, but nothing starts the task) | `Controller`, `NetLab` |
| Session requests (`controller/main.py`) | requests suspended in an await | POST sessions, POST stop, DELETE sessions | no overlap of sessions; RADIUS armed for the right one | `Controller`, `NetLab` |
| Agent loop and plan tasks (`agent/agent.py`) | `_executor`, `_ws`, `_running`, tasks, stop events | RUN_PLAN, STOP_PLAN, PING, shutdown, `_run_plan_task`, watchdog, reconnect | one plan at a time; a stop is never lost; announced plans end | `AgentLoop`, `NetLab` |
| Plan executor, alias manager, RADIUS worker (`agent/agent.py`, `agent/ip_manager.py`, `agent/workers/radius_worker.py`) | aliases on the interface, `_provisioned`, logged-on users, worker tasks | provision, authenticate, start, cancel, log off, unalias | everything set up is undone, in the reverse order | `PlanExecutor`, `PlanWorkers` |
| RADIUS server (`controller/radius_server.py`) and its users (`agent/workers/radius_worker.py`) | `_user_map`, auth records; each user's logon state | set/clear session, Access-Request, Accounting-Request, timeouts | records agree with what the users were told; the assigned roles are given | `RadiusLogon`; which session it is armed for also in `Controller` |
| Distributor, user pool (`controller/distributor.py`, `controller/user_pool.py`) | none; a cursor over the addresses while it runs | `distribute_plan`, `assign_users` | both ends of a session match, on different nodes, with a free port; load, names and roles are spread evenly | `Distributor` |
| UDP session (`agent/workers/udp_session.py`, `udp_receiver.py`) | sockets, the peer learned, counters per window | send, receive, report, give up, close | the windows tile the stream; losses are reported | `UdpCall`, `StreamStats` |
| YouTube worker (`agent/workers/youtube_worker.py`) | its task, the yt-dlp process, the reader, the window of readings | run, stop, cancel, read, report | no process is left behind; every reading is reported; the worker ends | `VideoWorker`, `TrafficWorker`, `PlanWorkers` |
| web worker (`agent/workers/web_worker.py`) | its task, the task of the current fetch, the window of counters | fetch, time out, count, report, stop, cancel | every page counts once; nothing is fetched after the end; the worker ends | `WebWorker`, `TrafficWorker`, `PlanWorkers` |
| Dashboard feed (`_emit`, `dashboard_bus`, `dashboard_ws`, `useController.js`) | broadcast tasks; clients of `dashboard_bus`; the merged state of the hook | emit, broadcast, connect and init, merge, clear and refresh | a dashboard shows what the store has, or is about to be told | `DashboardFeed` |
| MOS estimate, profiles, export, dashboard components | none | formulas, constant tables, formatting, rendering | | no |

Behaviours that are hard here: REST requests that are suspended in an await
while agent messages are handled; agents that reconnect before the controller
has noticed that their old connection is gone; messages of an earlier plan or
session that arrive in a later one; tasks of the agent that share
`self._executor` with the message loop; teardown that takes long; a controller
restart. `PROJECT.json` lists them as hazards, each at its line.

## 2. Modules

**TestSlot** is abstract: one slot that a test takes, is launched in and
releases. It is what a user may rely on.

**SessionStore** has the store's variables and one operator per method. The
methods have no control flow of their own; a handler calls several of them
between two awaits. `last_seen` is kept as the number of heartbeat ticks since
it was set, so the 45 s limit with a tick every 15 s is `OfflineTicks = 3`.
Session ids are numbered in creation order, which is the dict's order.

**Controller** extends it with the handlers and requests of `main.py`. What the
code does between two awaits is one action. `POST /api/sessions` is
`CreateSession` (checks, arming, insertion) and then one `Dispatch` per node;
`POST .../stop` is `StopSession`, one `Broadcast` per connected agent, and
`FinishStop`. Any number of requests may be suspended at once. Here agents are
the environment: any open WebSocket may deliver any message at any time, REGISTER
for one node after another included, so the safety results do not depend on how
agents behave. `Heartbeat` is a round of `_heartbeat_loop` that may come or not.
The program has none: `start_heartbeat` is an `on_event("startup")` handler
(`main.py:355`), and an application that is given a `lifespan` (`main.py:192`)
does not call those. What holds with such rounds holds without them, and would go
on to hold if the task were started. `RadiusModes` says whether plans may use the
built-in RADIUS server. `MCController` supplies the symmetry for TLC.

**AgentLoop** is `class Agent`. The loop's `RUN_PLAN` handler is two steps
(`OnRunPlan` sends PLAN_STARTED, `StartTask` creates executor and task), because
it awaits in between; `_run_plan_task` reads `self._executor` only in its first
step (`BeginRun`), which may find another plan's executor or none. An executor
is named after the plan that created it, and `bound` records which executor a
task called `run()` on.

**NetLab** composes the two by INSTANCE, with two FIFO channels per WebSocket,
lost connections, reconnects and controller restarts. A lost connection is
noticed by the agent at once and by the controller later; the controller's
handler reads what had arrived and may miss any suffix. Its user sends one
create request at a time and may stop a session at any time, while its RUN_PLANs
are still being sent too (`Controller` has all requests overlap). `shutdown()` of an agent is
left to `AgentLoop` and `PlanExecutor`. Four constants choose the scenario: `Overlap`
(may the user create a session while an agent is still busy with the last one),
`LateRegister` (may a connection drop before the controller has read its
REGISTER), `Telemetry` (are SNAPSHOTs sent), `Beats` (may heartbeat rounds come).

**PlanExecutor** extends AgentLoop by superposition: each action of AgentLoop is
kept and the aliases, RADIUS logons and workers are added to it, with one step
per `ip addr` command and per RADIUS exchange, for one node. Two tasks that
share one executor are not followed here. A command may fail (`CmdFails`): it was
refused, or killed at its timeout with or without its effect, which the alias
manager cannot tell (`ip_manager.py:165`). `doubtful` remembers the aliases whose
last command failed; the properties read it, no guard does. A logon may be refused
or time out.

**Telemetry** is one session's snapshots and alerts. A reading is what
`_check_alert` distinguishes: no data, below the floor, not below it. The
variable `log` records every reading ever added and is read by the properties
only.

**StreamStats** has `class StreamState` as operators on a record of counters.
**UdpCall** is one call: two sockets, the responder's return task that waits for
a peer, the report loops, and a network that loses packets, delays them, may
change their order (`order`, chosen in Init) and mixes in packets of another
call. What a snapshot says is added up in `reports`.

**Distributor** has one action per iteration of the loops of `distribute_plan`
and `assign_users`; the nodes' ranges and the plan are chosen in Init. Calls and
screen shares are placed by one action, `AddSession`: a call is a share with one
receiver. `MCDistributor` supplies the ranges, a pool of five names and two roles.

**TrafficWorker** is abstract: what the executor may rely on of a worker of any
kind. It downloads one thing after another, owes the measurements it takes, has
reported all of them when it is over, and begins nothing once it was asked to end.

**VideoWorker** is one YouTube worker and implements it. `pc` names the await at
which its task is suspended; beside it run yt-dlp, the task that reads its output
and the one that reports. `Cancel` is what the executor does to its task, and
`AfterCancel` says where a cancellation takes the task: two awaits swallow it. A
reading is a progress line with a rate above 0. A reader that fails on an over-long
line is left out; the code then kills yt-dlp as it does at the deadline. `Stop` is
the workers' `stop()`, which only the tests call: the executor ends its workers by
their deadline or by cancellation.

**WebWorker** is one web worker and implements `TrafficWorker` too. `wait_for` runs
the fetch as a task of its own, so the fetch can be done before the worker goes on
(`fetched`); a cancellation that comes just then is lost (Python 3.11, which
DEPLOYMENT.md asks for).

**PlanWorkers** composes one of each (by EXTENDS and INSTANCE) with the end of
`PlanExecutor.run`: the stop event, the watchdog, one cancellation per task and
`gather`. It is the reason why `PlanExecutor` may treat the workers as one unit.

**DashboardFeed** extends Controller by superposition: its actions emit the events
that the store's methods emit, each event is broadcast by a task of its own, and one
dashboard merges them as the hook does. It has one other client, served before
this one, whose slow connection suspends broadcasts while later ones pass.
`astray` marks what older news has overwritten and no later news has set right;
the properties read it, no guard does. Of the controller's actions, ERROR (which
emits what PLAN_STARTED does), snapshots, alerts and pings are left out.

**RadiusLogon** is the built-in RADIUS server with its users, across sessions. A
datagram says who asks for what; the network loses datagrams and delivers them in
any order. In a record the two accounting times are replaced by the list of the
requests that set them. `answered` is what a user was told in time and is read by
the properties only. `Overlap` lets a session begin while users of the last one
are still active. Users are independent here; that one node's users wait for each
other is in `PlanExecutor`.

The theorems are in **ControllerProofs** (`Controller` and `DashboardFeed`),
**PlanExecutorProofs** (`AgentLoop` and `PlanExecutor`), **PlanWorkersProofs**
(`VideoWorker`, `WebWorker` and their composition), **NetLabProofs**,
**DistributorProofs**, **TelemetryProofs**, **UdpCallProofs** and
**RadiusLogonProofs**.

Operators whose comment begins with *Mutant* are plausible mistakes in the code;
each is used to confirm that a property can fail. They are not part of any
specification.

## 3. Runs

| Run | Instance | What it shows |
|---|---|---|
| `Controller` | 2 nodes, 2 WebSockets, 2 sessions, plans that use the built-in RADIUS server, symmetry; 1.05M states | `OneLiveSession`, `OutcomeIsFinal`, `ImplementsTestSlot`: sessions do not overlap, a late PLAN_STARTED or PLAN_STOPPED neither revives nor re-ends one. `RegistryAgrees`, `OnlyOwnHandlerEvicts`: a node's entry is its own open connection, unless that one registered another node since; no eviction by an old connection |
| `AgentLoop` | 1 node, 3 plans with a duration | `NoWaitOnSetEvent`, `AnnouncedPlansEnd`: although tasks can end up sharing an executor, no stop is lost while a task waits and every announced plan reports its end |
| `NetLabTwoNodes` | 2 nodes, 1 timed session, stable connections; 362k states | `SessionsEnd`, `StatusSettles`: the session ends, and every node can be used for the next one |
| `NetLabStop` | 2 nodes, 1 session without a duration, stable connections; 253k states | `StopHeeded`: a node that was sent RUN_PLAN before STOP_PLAN does not go on with the plan, also when the stop request overtakes the create request on its way to the other node |
| `NetLabReconnect` | 1 node, 2 WebSockets, 2 sessions without a duration and one after the other, 1 lost connection or restart, heartbeat rounds at any time, `OfflineTicks = 0`, snapshots; 517k states | `ExecutorKnown`: a stop finds the executor of the plan that runs, whatever was lost before. `NoGhosts`: no node stays listed under a connection that is gone. `NodesReappear` (liveness): the agent is listed under the connection it uses, for good |
| `PlanExecutor` | 2 aliases, 2 plans one after the other, failing commands with or without effect, SIGTERM; 74k states | `AliasesUp`, `LogoffBeforeUnalias`: traffic and logoffs have the addresses they need. `CleanAfterPlans`: nothing is left over but aliases whose last command failed |
| `Telemetry` | 2 streams, 5 readings, 3 clock values, window 1, cap 4; 497k states | alerts are raised for exactly the long dips (`AlertsAreJustified`, `LongDipsAlert`), stay active until recovery, one per stream; the newest readings are kept |
| `UdpCall` | 3 packets each way, 1 stray, 2 reports per side; 1.5M states | `WindowsTile`, `LossIsReported`: no number is expected twice or never, and every loss shows, exactly when order is kept and at least up to early packets when it is not |
| `Distributor` | up to 3 nodes with 0-2 addresses each and three pairs of larger ranges, 0-2 calls, shares and users; 158k states | `EndsMatch`, `NoBusyPort`, `CallsCrossNodes`: who calls whom, from where and on which port; `EvenLoad`: no address takes part in two calls and shares more than another, no node has many more users; `UsersFitNodes`, `RolesAreEven` for RADIUS |
| `PlanWorkers` | one worker of each kind, 3 readings, 2 pages per window; 58k states | `ImplementsTrafficWorker`, `WebImplementsTrafficWorker`: both refine `TrafficWorker`. `NoOrphan`, `NothingLeft`: when the executor goes on, no process, reader, fetch or unreported measurement is left. `WorkersEnd`, `TeardownEnds` (liveness): stop, deadline, cancellation and the end of a download at every await |
| `DashboardFeed` | 1 node, 1 WebSocket, 1 session, 3 events on their way, 1 lost connection; 1.43M states | `DashboardConverges`: every node and session is shown as the store has it, or news of it is on its way, save for what an older event or answer has overwritten |
| `RadiusLogon` | 2 users, 2 sessions one after the other; 1.3M states | `OwnTimes`, `AnsweredIsRecorded`, `RolesAsAssigned`: matching by address is enough because a new session drops the records of the last, and nothing a user was told gets lost by disarming |

Why the bounds are enough. Two sessions are what it takes for a message of one
to arrive in another, and for a stop request to overlap a later create. Two
WebSockets are an old and a new connection of one node, or one connection of
each of two nodes. Three plans let a task be created while two others are on
their way out. In `Telemetry`, five readings pass the cap of four, so that the
list is trimmed, and three clock values give a dip shorter than, as long as and
longer than the window. In `UdpCall`, two reports per side leave packets before,
between and after them. In `Distributor` two nodes of five addresses are needed
for two shares with four viewers each, and eleven addresses are more than the
pool has names; two sessions of every type make the cursor wrap at every point.
In `PlanWorkers` three readings can be one reported, one in the window and one still
to come, and two pages are a window that goes on; the rest of its state is finite.
In `DashboardFeed` every step emits at most three events, the most at the end of a
session, and two suspended ones with a new one between them are an event that is
overtaken; one node, one connection and one session interact in every pair, since
every event is about a single node or session. In `NetLabStop` the two nodes are one
that was sent RUN_PLAN and one that was not. In `NetLabReconnect` the one fault is
enough for an old and a new connection of the node, and it may come at any point of
either session; a heartbeat round marks a node OFFLINE at once, so it finds it in
every status. In `RadiusLogon` two sessions share the addresses of two users.
`MaxFaults` (lost connections and restarts together), `MaxSessions`,
`MaxSnapshots`, `MaxTime`, `MaxPackets`, `MaxStrays`, `MaxReports`, `MaxUsers`, `MaxReadings`,
`MaxWindow`, `MaxQueued`, the one slow episode of the other dashboard client and
`Ranges` are the only bounds; the theorems hold for every
value of those they mention.

Fairness. `AgentLoop` and `NetLab`: asyncio runs every coroutine and task that can
run (an agent's message loop, each plan task, the handler of each WebSocket, each
create and stop request), channels deliver, an agent without a connection keeps
trying (`Agent.run`), and a watchdog's sleep ends - so `Elapse` is fair where plans
have a duration (`Timed`). A teardown waits for the workers and is fair only where
they have a deadline of their own, `Timed` too: `TeardownEnds` of `PlanWorkers` is
why, and `StopTearsDown` (below) why not otherwise. `PlanWorkers`: every await of
the workers has a timeout or follows a kill, except for a download without a
deadline, which need not end; deadlines pass, and the executor's task runs. Nothing
is assumed of the user, of failures, of connection losses or of heartbeat rounds.
`Controller` and `DashboardFeed` state safety only and need no fairness.
`NodesReappear` needs no assumption that drops stop: they are bounded.

`CHECK_DEADLOCK FALSE` is used where the system really stops: `AgentLoop` and
`PlanExecutor` when all plans are used up, `Telemetry` when the session and the
clock are at their end, `UdpCall` when both sockets are closed, `Distributor` when
it returns, `PlanWorkers` when the teardown is over, `RadiusLogon` when all users
are logged off.

### Promises the program does not keep

These are stated in the modules as well; each fails on the instance named. They
are known disagreements between the code and its comments or documents, and no
run of the project relies on them. To see one, put it into the configuration named.

| Property | Instance | Promise and behaviour |
|---|---|---|
| `Controller!SilentNodesGoOffline` | as `NetLabReconnect`, by its name in `NetLab` | `docs/NetLab-Validation-Tests.md:157` "After 45 s, dashboard marks that node as OFFLINE": the heartbeat task is never started (`main.py:355` beside the `lifespan` of `main.py:192`), so no silent node is ever marked |
| `NetLab!AnsweringNodesAreOnline` | as `NetLabReconnect` | `main.py:341` "Heartbeat task — ping all agents every 15 s": a round sends nothing, so if the task were started it would mark an idle connected agent OFFLINE after 45 s, and the agent would get no plan |
| `Controller!NoGhosts` | as `Controller` | `main.py:298-300`: a connection that registers a second node forgets the first, which stays listed when the connection ends. Agents do not do that: in `NetLab` the property holds |
| `NetLab!StopEndsPlans` | as `NetLabStop` | `agent.py:17` "Responds to STOP_PLAN and tears down all workers and aliases": a stop that comes while the create request is still sending (`main.py:454`) reaches a node before its RUN_PLAN; the node ignores it and then runs the plan of a stopped session |
| `NetLab!ExecutorKnown` | `NetLabReconnect` with `Overlap` | the same promise: the end of one plan resets the executor of the next (`agent.py:452`), which then ignores STOP_PLAN |
| `NetLab!OnePlanAtATime` | `NetLabReconnect` with `Overlap` | `agent.py:427` "Already running a plan": STOP_PLAN forgets the executor before its teardown, and the old task then forgets the new executor |
| `NetLab!SnapshotsOfOwnPlan` | `NetLabReconnect` with `Overlap` | `main.py:252` "Find active session for this node": a snapshot in flight goes to the next session |
| `NetLab!StartsWhenAllRunning` | as `NetLabTwoNodes` | `main.py:265` "If all nodes running": the first node starts the session |
| `NetLab!CompleteWhenNodesIdle` | as `NetLabTwoNodes`, untimed | `main.py:276` "If all nodes ... are now idle": a node that fails first completes the session while another is about to start |
| `NetLab!NodesReappear` | `NetLabReconnect` with `LateRegister` | `main.py:298-300`: a REGISTER read late from a dead connection takes the node over and its end evicts it |
| `NetLab!TelemetryResumes` | as `NetLabReconnect` | `docs/NetLab-Validation-Tests.md:158`: snapshots after a restart belong to no session |
| `Controller!ArmedForActiveSession` | as `Controller` | `main.py:429` "Arm the built-in RADIUS server if this session uses internal mode": a stop request that is still broadcasting disarms it after the next session has armed it (`main.py:525`) |
| `PlanExecutor!CleanAfterExit` | as `PlanExecutor` | `ip_manager.py:12` "so it can clean them all up on shutdown": SIGTERM ends the process without waiting for the teardown (`agent.py:502`) |
| `UdpCall!OutageShows` | as `UdpCall` | `DEPLOYMENT.md:271` "UDP streams show 100% loss": a side that receives nothing expects nothing and reports no loss |
| `UdpCall!ReturnsToInitiator` | as `UdpCall` | `udp_session.py:22-26`: the first packet of any call makes its sender the responder's peer (`udp_session.py:171`) |
| `Distributor!CallsAlwaysCrossNodes` | as `Distributor` | `distributor.py:135` "consecutive slot picks for a call pair land on different nodes": not where ranges differ in length |
| `Distributor!CallersAlwaysDiffer` | as `Distributor` | `distributor.py:224` "paired call endpoints always receive different usernames": not when the pool wraps |
| `Controller!NoLingeringCredentials` | as `Controller` | `main.py:524`: a session that completes by itself leaves RADIUS armed |
| `PlanExecutor!AliasesUp` | `PlanExecutor` with `Overlap` | `ip_manager.py:4`: the teardown of a stopped plan removes aliases the next plan counts as its own |
| `PlanWorkers!StopTearsDown` | as `PlanWorkers` | `agent.py:17` "Responds to STOP_PLAN and tears down all workers": each task is cancelled once, and a cancellation is lost when it arrives while the video worker awaits the tasks it has cancelled itself (`youtube_worker.py:502`), or when the fetch that the web worker waits for is just done (`web_worker.py:406`, `wait_for` of Python 3.11); without a duration the worker goes on and the teardown waits for ever |
| `DashboardFeed!NothingAstray` | as `DashboardFeed` | `main.py:78` "Broadcasts real-time events to all connected dashboard clients": behind a slow client an older event reaches this one after a newer one (`main.py:97`), and the answer of `refreshSessions` replaces newer sessions (`useController.js:121`); what they overwrite stays until the next event about it or the next connection |
| `RadiusLogon!OwnTimes`, `AnsweredIsRecorded`, `RolesAsAssigned` | `RadiusLogon` with `Overlap` | `radius_server.py:160` "if they do the latest set_session() call wins": late requests of the last session get records, times and roles in the next |
| `Telemetry!AlertsClearedAtEnd` | as `Telemetry` | `docs/NetLab-Validation-Tests.md:132`: an alert that is active at the end of a test stays active |

`SessionsEnd` and `StatusSettles` also need stable connections (`MaxFaults = 0`): a
RUN_PLAN or PLAN_STOPPED that is lost with its connection is never sent again.

Two things are less than a reader of the code might hope for, and the properties say
so. An `ip addr add` that is killed at its timeout may have added the alias, which
nobody removes (`ip_manager.py:165`): `CleanAfterPlans` excepts the aliases in
`doubtful`. And a screen share gives its presenter one UDP session per viewer
(`agent.py:138`) while the cursor moves on as if it were one: `EvenLoad` is about UDP
sessions as long as there are only calls, and about parts in calls and shares otherwise.

## 4. Theorems

All are proved for any number of nodes, connections, sessions, plans, aliases,
users, addresses, streams, readings and pages, from the assumptions on the constants
alone (`StoreAssumption`, `NoneAssumption`, `ModesAssumption`, `FeedAssumption`, `AgentAssumption`,
`ExecutorAssumption`, `NetAssumption`, `TelemetryAssumption`, `CallAssumption`,
`VideoAssumption`, `RadiusAssumption`, `DistributorAssumption`): kinds
of values, and that "none" is none of them. `FeedAssumption` also says that `Nodes` is
finite, since the end of a session emits one event per node.

Every safety property that a run checks is stated by a theorem, and so are the action
properties. Three kinds of theorems have a hypothesis, which the run of the property
has too: `~Overlap`, that the user creates no session while an agent is busy with the
last one (section 3 says what happens otherwise); in `StatusesSettle`, that no
connection is lost; and in `RolesStayEven`, that the plan's list of roles
repeats none: the dashboard adds a role to the list only if it is not in it
(`SetupPanel.jsx:84-96`).

*Controller* (`ControllerProofs`):
- `TypeCorrect`: `TypeOK`, inductive as it stands.
- `AtMostOneLiveSession`: `OneLiveSession` is not inductive. `SessionInv` adds
  that sessions beyond `created` are absent: without it the next id might already
  be active. The 409 check and the insertion are one step, which is what the
  proof of `CreateSession` uses.
- `ControllerImplementsTestSlot`: the refinement mapping (`Slot`) takes the
  holder to be `ActiveSession`. Each action maps to `Take`, `Launch`, `Release` or a
  stutter; with `OneLiveSession`, the end of a live session empties the slot.
- `RegistriesAgree`: `RegistryAgrees` is inductive given `TypeOK`, for any sequence of
  REGISTERs on any connection. The cases that matter are the disconnect of a
  connection that is no longer the node's, and a connection that registers anew.
- `OutcomesAreFinal`, `OnlyOwnEvicts`: action properties, from the type invariant and
  `SessionInv`.

*Dashboard feed* (`ControllerProofs`): `FeedTypeCorrect` and `DashboardsConverge`.
`DashboardConverges` says that what differs is announced by something on its way; it is
not inductive, because what is on its way might say something else. `FeedInv` looks
at the last event about a node or session among the tasks that have not run or, if
there is none, among the suspended ones: it says what the store holds (`LastNews`). An
event that passes a suspended one about the same thing breaks that, and exactly then
`RunTask` marks it `astray`. The lemmas on `Queued` and `LastIn` say what is last in a
concatenation; `SessionInv` of `Controller` is used for the event of a new session.

*Network* (`NetLabProofs`): `AgentsAreAgentLoops` and `ControllerIsController` show
that the composition runs its parts: each step is a step of `AgentLoop`, and one of
`Controller` or a restart, so what is proved of the agents and of each run of the
controller carries over.
- `ExecutorsAreKnown` (with `PlansOneAtATime`) rests on `KnownInv`: every trace of a
  plan - a suspended create request, a message on its way, a task, an executor - is of
  the newest session. That holds because without `Overlap` a session is only created
  when no trace of the last one is left.
- `NoGhostNodes` rests on `OwnInv`: an agent sends one REGISTER per connection and
  sends it first, so a handler that knows a node was told of no other. It holds with
  late REGISTERs too: they let another connection take the node over, but leave no
  entry behind.
- `StatusesSettle` (as long as no connection was lost, restarts or not) rests on
  `SettledInv`: an agent that has nothing left to send has, behind every message that
  would make it RUNNING or put it in ERROR, a PLAN_STOPPED on its way. `Wired` says which
  connection is whose, and that REGISTER is read first.

*Agents* (`PlanExecutorProofs`): `AgentTypeCorrect` and `NoStopIsLost`, from `AgentInv`.
What `NoWaitOnSetEvent` lacks is `Bound`: a task in setup knows the executor whose
event it is going to wait for. A stop wakes every waiting task of the executor
(`StopInvariant`), and `SetupDone` looks at the event before it waits.

*Executor* (`PlanExecutorProofs`): each step is a step of `AgentLoop` or leaves its
variables alone (`StepImplementsAgentLoop`), which gives `ExecutorLosesNoStop` with
or without overlapping plans. For plans that do not overlap (`~Overlap`),
`WorkersHaveTheirAliases`, `UsersLeaveBeforeAliases` and `PlansLeaveNothing` follow
from `IInv`, whose parts need each other: `OneAtATime` (at most one task is
between its creation and its end), `Phases` (where the task is when the plan is in
setup or teardown), `Links` (what a plan has provisioned is there until it begins to
remove it), `Accounted` (every alias on the interface is going to be removed by a plan
that provisioned it, or its last command failed) and `Users`
(users are logged on only in the phases that can still log them off, and their alias
is there). The step that matters is `RemoveAlias`: a plan that removes aliases is the
live one, so no other has workers or users. With `Overlap` that is what fails.

*Telemetry* (`TelemetryProofs`): `TypeCorrect`; `OneAlertPerStream`, inductive given
types; `NewestReadingsKept`, with a lemma on what `Trimmed` keeps of a list.
`AlertsMeanLongDips`, `LongDipsRaiseAlerts` and `AlertsLastUntilRecovery` are about
the whole history and need `DipInv`: while the session is active, `below[k]` is the
time of the first low reading of the dip that stream `k` is in, and not set when it
is in none. `NewReading` says what a new reading changes of the past.

*UdpCall* (`UdpCallProofs`): `TypeCorrect`; `WindowsTileStream`, from `WindowInv`:
before a side's first packet nothing has been counted or reported, and from then
on what was reported as expected is exactly the distance from the first packet to
the start of the current window. `WindowsTile` alone does not say where the
current window starts. `LossesAreReported` adds two things. `FlightInv` says that
packets of the call on their way have numbers the side has not seen, all different,
and in order as long as the network keeps it; so every reception adds one to what was
received. `LossInv` compares the number of packets reported with the number of those
received up to where the reports end (`Upto`): never more, and equal if the order is
kept, where a window cannot count more packets than it expects. The rest is counting.

*Workers* (`PlanWorkersProofs`). Of the video worker: `NoProcessLeft`, `EveryReadingReported`,
`NoDownloadAfterEnd` and the types, from one invariant. `NoOrphan` needs that the
reader runs only while the worker waits, and that a reader that is done has seen
its process end: only then may `Woken` skip the kill. `ReadingsReported` needs that
nothing is left in the window when the worker has ended, so no reader may run then.

Both workers implement `TrafficWorker`:
`VideoImplementsTrafficWorker` and `WebIsTrafficWorker` map each step to a
step of the abstract worker or a stutter. The mappings count as owed what has been
read or fetched and is in no snapshot, so the last step of a worker must find
nothing left. `ReadingsReported` and `NoLateDownload` are stated by theorems only.
In the composition every step is a step of one worker, a stop or a cancellation of
both, or a step of the executor. So the two invariants carry over, and with `Gone`
(the executor goes on only when both workers have ended) they give
`TeardownLeavesNothing`, `PlanLeavesNoOrphan` and `PlanRunsTrafficWorkers`.

*RadiusLogon* (`RadiusLogonProofs`): `TypeCorrect`; and, for sessions that do not
overlap, `RolesAreAssigned`, `TimesAreOwn` and `AnswersAreRecorded`. The first comes
from `OnlyCurrent` (datagrams on their way and records are of the current session,
whose users are the only ones that are active) and `Armed`. The others need
`ExchangeInv`: which datagrams of a user may be on their way in each of its states,
that it has at most one record, and that an answer on its way is noted there. A user
that has not begun to log off has no stop on its way, so a start that is answered in
time is the first thing its record notes.

*Distributor* (`DistributorProofs`): six theorems, one for each of its properties.
The slots and the addresses are flattened lists, so the proofs begin with what
`FlattenSeq` returns: the `Offsets` at which the parts of the list begin. From them
follow that the slots are all addresses, each once (`SlotsInjective`, `SlotsCover`), and
that with equal ranges the slots come in full rounds of the nodes (`FullRow`). The
other recurring lemmas are about the remainder of a cursor that moves on (`ModPlus`,
`ModApart`).
- `EndsAlwaysMatch`: `Paired` is `EndsMatch` seen from each entry. It needs that the
  cursor moves by all slots a session takes, and that there are that many.
- `PortsAreFree`: `Consecutive` keeps where the sessions of a type began (`base`); the
  sessions of another type come before or after all of them. As long as the slots
  of a type are no more than there are, they are different slots.
- `CallsLeaveTheNode`: `Crossing`. Two slots next to each other, the last and the
  first too, are on different nodes if all ranges have the same length.
- `LoadStaysEven`: `Balanced` says more than the property, namely which slots have the
  extra entry: those before the cursor. The entries of a session fall on the slots of a
  window that begins at the cursor and may wrap around (`WindowMoves`), and with a
  single slot they both fall on it (`OnOneSlot`). `OnePeer` says that an entry of a call
  has one peer, and `CallsLoad` counts UDP sessions by entries then. For the users, `SharesAddUp` says
  what `FoldFunction` adds up to.
- `UsersAlwaysFit`: `Assigned` says that the list follows the addresses; `SliceIs` says
  that a node's slice is its own part of it.
- `RolesStayEven`: `RolesShared` is to the roles what `Balanced` is to the slots.

Out of the prover's reach and only model-checked: everything about liveness and
fairness, which is `SessionsEnd`, `StopHeeded`, `NodesReappear`,
`AnnouncedPlansEnd`, `WorkersEnd` and `TeardownEnds`. The
library's induction theorems take the property as an operator and cannot be used; sets
of numbers stand in for it, as in `SetInduction`, which is itself proved from the
theorem that `<` is well-founded on the natural numbers.

## 5. Not modelled

Payloads, logging and wording; the encoding of RADIUS packets, and duplicated
datagrams; download rates, load times, latency, jitter and MOS formulas; the UDP
session roles that no plan uses; export; the hook's lists of snapshots and alerts;
the dashboard's rendering.
`Telemetry` assumes alerts are on (with a floor of 0 `_check_alert` returns at
once). Clocks do not jump.

## 6. Plan

1. Done: session life cycle, registry, agent loop, composition, executor, alerts,
   calls, distribution, both download workers under the executor, RADIUS, the
   dashboard feed; the theorems above.
2. A composition of `RadiusLogon` with `PlanExecutor`: who can still log off when
   the aliases go.
3. A composition of `Distributor` and `UdpCall`: several calls on shared addresses.
4. The hook's snapshot and alert lists in `DashboardFeed`, with the alert events.
5. Done: theorems about `Distributor`, `DashboardFeed`, `NetLab` and `PlanWorkers`.
6. Proofs about the compositions of 2 and 3, and `StatusSettles` with lost connections,
   weakened to what then still holds.
