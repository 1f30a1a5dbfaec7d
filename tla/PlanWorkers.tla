---------------------------- MODULE PlanWorkers ----------------------------
(***************************************************************************)
(* The end of PlanExecutor.run of agent/agent.py, with one worker of each  *)
(* kind that keeps a task of its own: a VideoWorker and a WebWorker.  The  *)
(* executor waits for its stop event, which STOP_PLAN or the duration      *)
(* watchdog sets, cancels every task once and waits for all of them.       *)
(*                                                                         *)
(* PlanExecutor.tla has what comes before and after, with the workers as   *)
(* one unit that is gone when it is cancelled; this module is the reason   *)
(* why it may, and shows when it may not.                                  *)
(***************************************************************************)
EXTENDS VideoWorker

CONSTANT MaxWindow            \* bound: pages in a report interval

VARIABLES
    stage,        \* run(): "waiting", "gathering" or "clean"
    stopEvent,    \* the executor's _stop_event
    webExpired, webStopSet, webCancelled, webPc, webFetched, webWin, webOwed

execVars == <<stage, stopEvent>>
webVars == <<webExpired, webStopSet, webCancelled, webPc, webFetched, webWin, webOwed>>
planVars == <<vars, execVars, webVars>>

\* Both workers get the plan's duration, or none.
Web == INSTANCE WebWorker WITH
    expired <- webExpired, stopSet <- webStopSet, cancelled <- webCancelled,
    pc <- webPc, fetched <- webFetched, win <- webWin, owed <- webOwed

PlanTypeOK ==
    /\ TypeOK /\ Web!TypeOK
    /\ stage \in {"waiting", "gathering", "clean"}
    /\ stopEvent \in BOOLEAN

PlanInit ==
    /\ Init /\ Web!Init
    /\ stage = "waiting" /\ stopEvent = FALSE

-----------------------------------------------------------------------------
(* The executor *)

\* STOP_PLAN.
StopPlan ==
    /\ ~stopEvent
    /\ stopEvent' = TRUE
    /\ UNCHANGED <<stage, vars, webVars>>

\* The watchdog: it is one of the tasks, and cancelled with them.
Watchdog ==
    /\ timed /\ stage = "waiting" /\ ~stopEvent
    /\ stopEvent' = TRUE
    /\ UNCHANGED <<stage, vars, webVars>>

\* _teardown: t.cancel() for every task, without an await in between.
CancelTasks ==
    /\ stage = "waiting" /\ stopEvent
    /\ stage' = "gathering"
    /\ IF pc = "ended" THEN UNCHANGED vars ELSE Cancel
    /\ IF webPc = "ended" THEN UNCHANGED webVars ELSE Web!Cancel
    /\ UNCHANGED stopEvent

\* Mutant: gather() without return_exceptions returns with the first task that
\* was cancelled.
GatheredFirst ==
    /\ stage = "gathering"
    /\ pc = "ended" \/ webPc = "ended"
    /\ stage' = "clean"
    /\ UNCHANGED <<stopEvent, vars, webVars>>

\* gather() returns when all tasks are done, however they ended.
Gathered ==
    /\ stage = "gathering"
    /\ pc = "ended" /\ webPc = "ended"
    /\ stage' = "clean"
    /\ UNCHANGED <<stopEvent, vars, webVars>>

-----------------------------------------------------------------------------

VideoWork == Work /\ UNCHANGED <<webVars, execVars>>
VideoExpire == Expire /\ UNCHANGED <<webVars, execVars>>
WebWork == Web!Work /\ UNCHANGED <<vars, execVars>>
WebExpire == Web!Expire /\ UNCHANGED <<vars, execVars>>
Execute == CancelTasks \/ Gathered

PlanNext ==
    \/ VideoWork
    \/ Beside /\ UNCHANGED <<webVars, execVars>>
    \/ WebWork
    \/ Web!Beside /\ UNCHANGED <<vars, execVars>>
    \/ StopPlan
    \/ Watchdog
    \/ Execute

\* The workers' own fairness; asyncio runs the executor's task, and the
\* watchdog's sleep ends.
PlanFairness ==
    /\ WF_planVars(VideoWork) /\ WF_planVars(VideoExpire)
    /\ WF_planVars(WebWork) /\ WF_planVars(WebExpire)
    /\ WF_planVars(Execute) /\ WF_planVars(Watchdog)

PlanSpec == PlanInit /\ [][PlanNext]_planVars /\ PlanFairness

-----------------------------------------------------------------------------
(* Properties *)

\* The web worker, too, is a worker as TrafficWorker.tla has it: the executor need
\* not know what kind it runs.
WebImplementsTrafficWorker == Web!ImplementsTrafficWorker

\* When the executor goes on to log users off and to remove the aliases, no
\* worker, process, reader or fetch is left that could use one, and nothing that
\* was measured is still to be reported.
NothingLeft ==
    stage = "clean" =>
        /\ pc = "ended" /\ webPc = "ended"
        /\ proc # "running" /\ ~reader /\ reported = parsed
        /\ webOwed = 0

\* A worker that stop() or its deadline asks to end does end, in whatever await
\* it is suspended, although its download may not.
WorkersEnd ==
    /\ stopSet \/ expired ~> pc = "ended"
    /\ webStopSet \/ webExpired ~> webPc = "ended"

\* The teardown of a plan with a duration comes to its end: a worker that loses
\* its cancellation still has its deadline.
TeardownEnds == timed ~> stage = "clean"

\* agent.py:17, "Responds to STOP_PLAN and tears down all workers": the same of a
\* plan without a duration.  The code does not keep it, because each task is
\* cancelled once and a cancellation can be lost in either worker.
StopTearsDown == stopEvent ~> stage = "clean"
=============================================================================
