----------------------------- MODULE AgentLoop -----------------------------
(***************************************************************************)
(* agent/agent.py, class Agent: the message loop and the tasks it starts,  *)
(* on every worker node.  What PlanExecutor does while it runs a plan is   *)
(* left out here (PlanExecutor.tla has it); what is kept is the traffic    *)
(* between the loop, which owns self._executor, and the _run_plan_task     *)
(* coroutines, which use it and reset it.                                  *)
(*                                                                         *)
(* An executor is named after the plan whose RUN_PLAN created it.  Every   *)
(* RUN_PLAN carries its own plan, so a plan has at most one task on a node.*)
(***************************************************************************)
EXTENDS Naturals

CONSTANTS
    Nodes,
    MaxSessions,              \* bound: plans ever dispatched
    Timed                     \* whether plans have a duration (duration_s > 0)

ASSUME AgentAssumption == MaxSessions \in Nat /\ Timed \in BOOLEAN

Plans  == 1 .. MaxSessions
NoPlan == 0

VARIABLES
    starting,    \* plan whose PLAN_STARTED the loop is sending, or NoPlan
    executor,    \* self._executor
    task,        \* node -> plan -> where its _run_plan_task is
    bound,       \* node -> plan -> the executor that task called run() on
    stopSet      \* node -> executor -> its _stop_event

agentVars == <<starting, executor, task, bound, stopSet>>

(* ready     created, has not run yet      setup     before the wait for stop
   waiting   in _stop_event.wait()         teardown  after it
   failed    run() raised                  closing   in the finally block
   clearing  sending PLAN_STOPPED there    done      returned                *)
TaskState == {"none", "ready", "setup", "waiting", "teardown", "failed",
              "closing", "clearing", "done"}

AgentTypeOK ==
    /\ starting \in [Nodes -> Plans \cup {NoPlan}]
    /\ executor \in [Nodes -> Plans \cup {NoPlan}]
    /\ task \in [Nodes -> [Plans -> TaskState]]
    /\ bound \in [Nodes -> [Plans -> Plans \cup {NoPlan}]]
    /\ stopSet \in [Nodes -> [Plans -> BOOLEAN]]

AgentInit ==
    /\ starting = [n \in Nodes |-> NoPlan]
    /\ executor = [n \in Nodes |-> NoPlan]
    /\ task = [n \in Nodes |-> [p \in Plans |-> "none"]]
    /\ bound = [n \in Nodes |-> [p \in Plans |-> NoPlan]]
    /\ stopSet = [n \in Nodes |-> [p \in Plans |-> FALSE]]

\* executor.stop(): sets the event, which also releases every task in wait().
SetStop(n, e) ==
    /\ stopSet' = [stopSet EXCEPT ![n][e] = TRUE]
    /\ task' = [task EXCEPT ![n] = [p \in Plans |->
                  IF task[n][p] = "waiting" /\ bound[n][p] = e
                  THEN "teardown" ELSE task[n][p]]]

Move(n, p, from, to) ==
    /\ task[n][p] = from
    /\ task' = [task EXCEPT ![n][p] = to]

-----------------------------------------------------------------------------
(* The message loop *)

LoopIdle(n) == starting[n] = NoPlan
NoTask(n)   == \A p \in Plans : task[n][p] \in {"none", "done"}

\* RUN_PLAN with no executor: PLAN_STARTED is sent first ...  Plans are numbered
\* in the order in which they come.
OnRunPlan(n, p) ==
    /\ LoopIdle(n)
    /\ executor[n] = NoPlan
    /\ \A q \in Plans : q >= p => task[n][q] = "none"
    /\ starting' = [starting EXCEPT ![n] = p]
    /\ UNCHANGED <<executor, task, bound, stopSet>>

\* ... then the executor and the task are created.
StartTask(n) ==
    /\ ~LoopIdle(n)
    /\ executor' = [executor EXCEPT ![n] = starting[n]]
    /\ task' = [task EXCEPT ![n][starting[n]] = "ready"]
    /\ starting' = [starting EXCEPT ![n] = NoPlan]
    /\ UNCHANGED <<bound, stopSet>>

\* Mutant: forgets the executor before it tells it to stop.
OnStopPlanForgets(n) ==
    /\ LoopIdle(n)
    /\ executor[n] # NoPlan
    /\ executor' = [executor EXCEPT ![n] = NoPlan]
    /\ UNCHANGED <<starting, task, bound, stopSet>>

\* STOP_PLAN with an executor: it is told to stop and forgotten at once, long
\* before its teardown is over.  PLAN_STOPPED is sent after that.
OnStopPlan(n) ==
    /\ LoopIdle(n)
    /\ executor[n] # NoPlan
    /\ SetStop(n, executor[n])
    /\ executor' = [executor EXCEPT ![n] = NoPlan]
    /\ UNCHANGED <<starting, bound>>

\* shutdown(), on SIGTERM: the executor is told to stop but not forgotten, and
\* the loop goes on for as long as its connection does.
OnShutdown(n) ==
    /\ IF executor[n] = NoPlan THEN UNCHANGED <<task, stopSet>>
       ELSE SetStop(n, executor[n])
    /\ UNCHANGED <<starting, executor, bound>>

-----------------------------------------------------------------------------
(* _run_plan_task and PlanExecutor.run *)

\* The task's first step, in order of creation: it reads self._executor only
\* now, and run() clears the stop event of what it finds.
BeginRun(n, p) ==
    /\ task[n][p] = "ready"
    /\ \A q \in Plans : q < p => task[n][q] # "ready"
    /\ IF executor[n] = NoPlan
         THEN /\ Move(n, p, "ready", "failed")
              /\ UNCHANGED <<bound, stopSet>>
         ELSE /\ Move(n, p, "ready", "setup")
              /\ bound' = [bound EXCEPT ![n][p] = executor[n]]
              /\ stopSet' = [stopSet EXCEPT ![n][executor[n]] = FALSE]
    /\ UNCHANGED <<starting, executor>>

\* Mutant: waits for a stop still to come, not for the event to be set.
SetupDoneWaits(n, p) ==
    /\ Move(n, p, "setup", "waiting")
    /\ UNCHANGED <<starting, executor, bound, stopSet>>

\* The workers run; the task waits for the stop event.
SetupDone(n, p) ==
    /\ Move(n, p, "setup", IF stopSet[n][bound[n][p]] THEN "teardown" ELSE "waiting")
    /\ UNCHANGED <<starting, executor, bound, stopSet>>

\* run() raises before it waits (an invalid alias range).
SetupFails(n, p) ==
    /\ Move(n, p, "setup", "failed")
    /\ UNCHANGED <<starting, executor, bound, stopSet>>

\* Mutant: the watchdog stops the executor the agent has by now.
ElapseCurrent(n, p) ==
    /\ Timed
    /\ task[n][p] = "waiting"
    /\ executor[n] # NoPlan
    /\ SetStop(n, executor[n])
    /\ UNCHANGED <<starting, executor, bound>>

\* The duration watchdog of a task that waits.
Elapse(n, p) ==
    /\ Timed
    /\ task[n][p] = "waiting"
    /\ SetStop(n, bound[n][p])
    /\ UNCHANGED <<starting, executor, bound>>

TornDown(n, p) ==
    /\ Move(n, p, "teardown", "closing")
    /\ UNCHANGED <<starting, executor, bound, stopSet>>

\* The except block: ERROR is sent.
ReportError(n, p) ==
    /\ Move(n, p, "failed", "closing")
    /\ UNCHANGED <<starting, executor, bound, stopSet>>

\* The finally block: PLAN_STOPPED is sent ...
ReportStopped(n, p) ==
    /\ Move(n, p, "closing", "clearing")
    /\ UNCHANGED <<starting, executor, bound, stopSet>>

\* ... and self._executor is reset, whichever executor it is by now.
ClearExecutor(n, p) ==
    /\ Move(n, p, "clearing", "done")
    /\ executor' = [executor EXCEPT ![n] = NoPlan]
    /\ UNCHANGED <<starting, bound, stopSet>>

TaskStep(n, p) ==
    \/ BeginRun(n, p)
    \/ SetupDone(n, p)
    \/ SetupFails(n, p)
    \/ Elapse(n, p)
    \/ TornDown(n, p)
    \/ ReportError(n, p)
    \/ ReportStopped(n, p)
    \/ ClearExecutor(n, p)

AgentNext ==
    \E n \in Nodes :
        \/ \E p \in Plans : OnRunPlan(n, p) \/ TaskStep(n, p)
        \/ StartTask(n)
        \/ OnStopPlan(n)
        \/ OnShutdown(n)

\* The steps that must come: asyncio runs every task that can run, a watchdog's
\* sleep ends, and so does a teardown, provided the workers have a deadline of
\* their own (PlanWorkers.tla: TeardownEnds, and StopTearsDown of those without).
FairStep(n, p) == TaskStep(n, p) /\ (Timed \/ task[n][p] # "teardown")

AgentFairness ==
    \A n \in Nodes :
        /\ WF_agentVars(StartTask(n))
        /\ \A p \in Plans : WF_agentVars(FairStep(n, p))

AgentSpec == AgentInit /\ [][AgentNext]_agentVars /\ AgentFairness

-----------------------------------------------------------------------------
(* Properties *)

\* Traffic is generated for the plan: its workers are being started or run.
Active(n, p) == task[n][p] \in {"setup", "waiting"}

\* The agent's log line for a RUN_PLAN that finds an executor says "Already
\* running a plan - ignoring RUN_PLAN" (agent.py:427): a node runs at most one
\* plan at a time.
OnePlanAtATime ==
    \A n \in Nodes : \A p, q \in Plans : Active(n, p) /\ Active(n, q) => p = q

\* Every plan the agent has announced with PLAN_STARTED is eventually over,
\* PLAN_STOPPED having been sent, whatever STOP_PLANs come in between and
\* whichever executor the task ended up with - provided plans have a duration.
AnnouncedPlansEnd ==
    \A n \in Nodes : \A p \in Plans :
        starting[n] = p ~> task[n][p] = "done"

\* A task that waits for a stop event waits for one that is not set: no stop
\* or watchdog is lost between the event being set and the task waiting.
NoWaitOnSetEvent ==
    \A n \in Nodes : \A p \in Plans :
        task[n][p] = "waiting" => bound[n][p] # NoPlan /\ ~stopSet[n][bound[n][p]]

\* An agent whose loop has no executor to stop runs no plan, so that the next
\* STOP_PLAN or RUN_PLAN does what it says.
ExecutorKnown ==
    \A n \in Nodes : \A p \in Plans :
        Active(n, p) /\ ~stopSet[n][bound[n][p]] => executor[n] # NoPlan
=============================================================================
