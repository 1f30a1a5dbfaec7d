---------------------------- MODULE PlanExecutor ----------------------------
(***************************************************************************)
(* What class PlanExecutor of agent/agent.py does between the steps that   *)
(* AgentLoop.tla shows: it provisions an IP alias per simulated user       *)
(* (agent/ip_manager.py), logs the users on to RADIUS                      *)
(* (agent/workers/radius_worker.py), starts the traffic workers, and after *)
(* the stop event undoes all that in the opposite order.  Each `ip addr`   *)
(* command and each RADIUS exchange is awaited, so anything may happen     *)
(* between two of them.  The module refines AgentLoop by adding to its     *)
(* actions, for one worker node.                                           *)
(*                                                                         *)
(* A plan's IPAliasManager and RadiusWorker are named after the plan.  Two *)
(* tasks that share one executor (several messages handled in the very     *)
(* loop iteration that created the first task) are not followed here.      *)
(***************************************************************************)
EXTENDS AgentLoop

CONSTANTS
    Node,                     \* the worker node
    Ips,                      \* its alias range, one simulated user on each
    CmdFails,                 \* may an `ip addr` command fail or time out?
    Overlap                   \* may RUN_PLAN come during an earlier teardown?

ASSUME ExecutorAssumption ==
    Nodes = {Node} /\ CmdFails \in BOOLEAN /\ Overlap \in BOOLEAN

VARIABLES
    step,          \* plan -> where in setup or teardown its task is
    todo,          \* plan -> aliases its loop has still to add or remove
    pending,       \* plan -> users whose RADIUS exchange is not over
    provisioned,   \* plan -> IPAliasManager._provisioned
    iface,         \* aliases on the network interface
    doubtful,      \* history: aliases whose last `ip addr` command failed
    login,         \* plan -> ip -> what the RADIUS server knows of the user
    workers,       \* plans whose traffic workers run
    shutdown,      \* ~Agent._running
    exited         \* the process is gone

loopVars == <<starting, executor, task, bound, stopSet>>
linkVars == <<iface, doubtful, provisioned, todo>>
userVars == <<pending, login>>
procVars == <<shutdown, exited>>
vars == <<loopVars, step, linkVars, userVars, workers, procVars>>

\* out: Accounting-Stop sent    lost: could not be sent from the user's address
Login == {"none", "in", "out", "lost"}

TypeOK ==
    /\ AgentTypeOK
    /\ step \in [Plans -> {"none", "provision", "auth", "running",
                           "cancel", "logoff", "unalias"}]
    /\ todo \in [Plans -> SUBSET Ips]
    /\ pending \in [Plans -> SUBSET Ips]
    /\ provisioned \in [Plans -> SUBSET Ips]
    /\ iface \in SUBSET Ips /\ doubtful \in SUBSET Ips
    /\ login \in [Plans -> [Ips -> Login]]
    /\ workers \in SUBSET Plans
    /\ shutdown \in BOOLEAN /\ exited \in BOOLEAN

Init ==
    /\ AgentInit
    /\ step = [p \in Plans |-> "none"]
    /\ todo = [p \in Plans |-> {}]
    /\ pending = [p \in Plans |-> {}]
    /\ provisioned = [p \in Plans |-> {}]
    /\ iface = {} /\ doubtful = {}
    /\ login = [p \in Plans |-> [ip \in Ips |-> "none"]]
    /\ workers = {}
    /\ shutdown = FALSE /\ exited = FALSE

Goto(p, s) == step' = [step EXCEPT ![p] = s]
In(p, s) == step[p] = s /\ ~exited

-----------------------------------------------------------------------------
(* Steps of the loop, and of the task outside run(), which touch nothing here *)

LoopStep ==
    /\ ~exited
    /\ \/ \E p \in Plans : (Overlap \/ NoTask(Node)) /\ OnRunPlan(Node, p)
       \/ StartTask(Node)
       \/ OnStopPlan(Node)
       \/ \E p \in Plans : \/ Elapse(Node, p)
                           \/ ReportError(Node, p)
                           \/ ReportStopped(Node, p)
                           \/ ClearExecutor(Node, p)
    /\ UNCHANGED <<step, linkVars, userVars, workers, procVars>>

Shutdown ==
    /\ ~exited
    /\ OnShutdown(Node)
    /\ shutdown' = TRUE
    /\ UNCHANGED <<step, linkVars, userVars, workers, exited>>

\* run() returns when the connection ends after shutdown(); loop.close() then
\* abandons the tasks wherever they are.
Exit ==
    /\ shutdown /\ ~exited
    /\ exited' = TRUE
    /\ workers' = {}
    /\ UNCHANGED <<loopVars, step, linkVars, userVars, shutdown>>

-----------------------------------------------------------------------------
(* Setup *)

BeginPlan(p) ==
    /\ ~exited
    /\ executor[Node] \in {p, NoPlan}
    /\ BeginRun(Node, p)
    /\ IF executor[Node] = p
         THEN Goto(p, "provision") /\ todo' = [todo EXCEPT ![p] = Ips]
         ELSE UNCHANGED <<step, todo>>
    /\ UNCHANGED <<provisioned, iface, doubtful, userVars, workers, procVars>>

\* The IPAliasManager cannot be built (an invalid range): run() raises.
FailPlan(p) ==
    /\ In(p, "provision")
    /\ todo[p] = Ips
    /\ SetupFails(Node, p)
    /\ Goto(p, "none")
    /\ todo' = [todo EXCEPT ![p] = {}]
    /\ UNCHANGED <<provisioned, iface, doubtful, userVars, workers, procVars>>

\* provision(): `ip addr add`, where "File exists" counts as success.  A command
\* that is reported as failed was refused, or killed at its timeout with the alias
\* already there; the manager takes note of it in neither case.
AddAlias(p, ip) ==
    /\ In(p, "provision") /\ ip \in todo[p]
    /\ todo' = [todo EXCEPT ![p] = @ \ {ip}]
    /\ \/ /\ iface' = iface \cup {ip}
          /\ provisioned' = [provisioned EXCEPT ![p] = @ \cup {ip}]
          /\ doubtful' = doubtful \ {ip}
       \/ /\ CmdFails
          /\ iface' \in {iface, iface \cup {ip}}
          /\ doubtful' = doubtful \cup {ip}
          /\ UNCHANGED provisioned
    /\ UNCHANGED <<loopVars, step, userVars, workers, procVars>>

\* A plan with radius_enabled: authenticate_all() for all users at once ...
StartAuth(p) ==
    /\ In(p, "provision") /\ todo[p] = {}
    /\ Goto(p, "auth")
    /\ pending' = [pending EXCEPT ![p] = Ips]
    /\ UNCHANGED <<loopVars, linkVars, login, workers, procVars>>

\* ... and _auth_user: a user is logged on if the request could be sent from
\* the user's address and was accepted in time.  Failures are not fatal.
AuthUser(p, ip) ==
    /\ In(p, "auth") /\ ip \in pending[p]
    /\ pending' = [pending EXCEPT ![p] = @ \ {ip}]
    /\ \/ ip \in iface /\ login' = [login EXCEPT ![p][ip] = "in"]
       \/ UNCHANGED login
    /\ UNCHANGED <<loopVars, step, linkVars, workers, procVars>>

\* The UDP, web and YouTube workers and the watchdog are created, and the task
\* waits, without an await in between.
StartWorkers(p) ==
    /\ In(p, "provision") \/ In(p, "auth")
    /\ todo[p] = {} /\ pending[p] = {}
    /\ SetupDone(Node, p)
    /\ Goto(p, "running")
    /\ workers' = workers \cup {p}
    /\ UNCHANGED <<linkVars, userVars, procVars>>

-----------------------------------------------------------------------------
(* Teardown *)

\* Mutant: the workers are left to end by themselves.
CancelWorkersNot(p) ==
    /\ In(p, "running") /\ task[Node][p] = "teardown"
    /\ Goto(p, "cancel")
    /\ UNCHANGED <<loopVars, linkVars, userVars, workers, procVars>>

CancelWorkers(p) ==
    /\ In(p, "running") /\ task[Node][p] = "teardown"
    /\ Goto(p, "cancel")
    /\ workers' = workers \ {p}
    /\ UNCHANGED <<loopVars, linkVars, userVars, procVars>>

\* logoff_all(): Accounting-Stop for every authenticated user at once.
StartLogoff(p) ==
    /\ In(p, "cancel")
    /\ Goto(p, "logoff")
    /\ pending' = [pending EXCEPT ![p] = {ip \in Ips : login[p][ip] = "in"}]
    /\ UNCHANGED <<loopVars, linkVars, login, workers, procVars>>

LogoffUser(p, ip) ==
    /\ step[p] \in {"logoff", "unalias"} /\ ~exited /\ ip \in pending[p]
    /\ pending' = [pending EXCEPT ![p] = @ \ {ip}]
    /\ login' = [login EXCEPT ![p][ip] = IF ip \in iface THEN "out" ELSE "lost"]
    /\ UNCHANGED <<loopVars, step, linkVars, workers, procVars>>

\* Mutant: logoff_all() is not awaited.
StartUnaliasNoWait(p) ==
    /\ In(p, "logoff")
    /\ Goto(p, "unalias")
    /\ todo' = [todo EXCEPT ![p] = provisioned[p]]
    /\ UNCHANGED <<loopVars, provisioned, iface, doubtful, userVars, workers, procVars>>

\* teardown_all(): the aliases this plan's manager provisioned.
StartUnalias(p) ==
    /\ In(p, "logoff") /\ pending[p] = {}
    /\ Goto(p, "unalias")
    /\ todo' = [todo EXCEPT ![p] = provisioned[p]]
    /\ UNCHANGED <<loopVars, provisioned, iface, doubtful, userVars, workers, procVars>>

\* teardown(): `ip addr del`, where an alias that is not there counts as removed.
\* Again a command killed at its timeout may have had its effect.
RemoveAlias(p, ip) ==
    /\ step[p] = "unalias" /\ ~exited /\ ip \in todo[p]
    /\ todo' = [todo EXCEPT ![p] = @ \ {ip}]
    /\ \/ /\ iface' = iface \ {ip}
          /\ provisioned' = [provisioned EXCEPT ![p] = @ \ {ip}]
          /\ doubtful' = doubtful \ {ip}
       \/ /\ CmdFails
          /\ iface' \in {iface, iface \ {ip}}
          /\ doubtful' = doubtful \cup {ip}
          /\ UNCHANGED provisioned
    /\ UNCHANGED <<loopVars, step, userVars, workers, procVars>>

\* Mutant: teardown_all() is not awaited.
FinishTeardownNoWait(p) ==
    /\ In(p, "unalias")
    /\ TornDown(Node, p)
    /\ UNCHANGED <<step, linkVars, userVars, workers, procVars>>

FinishTeardown(p) ==
    /\ In(p, "unalias") /\ todo[p] = {}
    /\ TornDown(Node, p)
    /\ UNCHANGED <<step, linkVars, userVars, workers, procVars>>

-----------------------------------------------------------------------------

PlanStep(p) ==
    \/ BeginPlan(p)
    \/ FailPlan(p)
    \/ StartAuth(p)
    \/ StartWorkers(p)
    \/ CancelWorkers(p)
    \/ StartLogoff(p)
    \/ StartUnalias(p)
    \/ FinishTeardown(p)
    \/ \E ip \in Ips : \/ AddAlias(p, ip) \/ AuthUser(p, ip)
                       \/ LogoffUser(p, ip) \/ RemoveAlias(p, ip)

Next ==
    \/ LoopStep
    \/ \E p \in Plans : PlanStep(p)
    \/ Shutdown
    \/ Exit

Spec == Init /\ [][Next]_vars

-----------------------------------------------------------------------------
(* Properties *)

\* ip_manager.py:4-6, each simulated user has an IP alias of its own: while the
\* workers of a plan run, every alias that was provisioned for it is on the
\* interface - it is neither removed before they are cancelled nor taken away
\* by the teardown of an earlier plan.
AliasesUp == \A p \in workers : provisioned[p] \subseteq iface

\* agent.py:275-276, "send Accounting-Stop before aliases are removed so
\* packets still leave from the correct source IPs": no user of a plan stays
\* logged on because its alias was gone too early.
LogoffBeforeUnalias == \A p \in Plans : \A ip \in Ips : login[p][ip] # "lost"

\* When the last plan is over, whatever failed on the way, no worker runs, no
\* user is logged on, and an alias is left only where the last `ip addr` command
\* for it, to add or to remove it, failed.
CleanAfterPlans ==
    ~exited /\ NoTask(Node) =>
        /\ workers = {}
        /\ \A p \in Plans : \A ip \in Ips : login[p][ip] # "in"
        /\ iface \subseteq doubtful

\* ip_manager.py:12, the aliases are cleaned up on shutdown: when the process is
\* gone, so are they (unless a command failed).
CleanAfterExit == exited => iface = {}
=============================================================================
