------------------------- MODULE PlanExecutorProofs -------------------------
(***************************************************************************)
(* First what holds of the agents' message loops (AgentLoop), on any       *)
(* number of nodes and whatever RUN_PLANs and STOP_PLANs they are sent.    *)
(*                                                                         *)
(* Then what holds of the plan executor on one node, with any number of    *)
(* plans and aliases, whatever commands and logons fail - as long as no    *)
(* RUN_PLAN comes before the last plan is over (~Overlap).                 *)
(***************************************************************************)
EXTENDS PlanExecutor, TLAPS

-----------------------------------------------------------------------------
(* The message loops: nothing here uses that the executor has one node.     *)

\* A task that has called run() knows the executor it called it on.
Bound ==
    \A n \in Nodes : \A p \in Plans :
        task[n][p] \in {"setup", "waiting"} => bound[n][p] \in Plans

AgentInv == AgentTypeOK /\ Bound /\ NoWaitOnSetEvent

LEMMA NoPlanIsNone == NoPlan \notin Plans
  BY AgentAssumption DEF NoPlan, Plans

\* The invariant holds at the start.
LEMMA AgentInitInvariant == ASSUME AgentInit PROVE AgentInv
<1> USE DEF AgentInit
<1>1. AgentTypeOK
  BY DEF AgentTypeOK, TaskState
<1>2. Bound
  BY DEF Bound
<1>3. NoWaitOnSetEvent
  BY DEF NoWaitOnSetEvent
<1> QED
  BY <1>1, <1>2, <1>3 DEF AgentInv

\* Moving one task on changes no other, and one that comes to wait must find its
\* event not set.
LEMMA MoveInvariant ==
  ASSUME AgentInv, NEW n \in Nodes, NEW p \in Plans, NEW from \in TaskState, NEW to \in TaskState,
         Move(n, p, from, to),
         starting' \in [Nodes -> Plans \cup {NoPlan}],
         executor' \in [Nodes -> Plans \cup {NoPlan}],
         UNCHANGED <<bound, stopSet>>,
         to \in {"setup", "waiting"} => bound[n][p] \in Plans,
         to = "waiting" => ~stopSet[n][bound[n][p]]
  PROVE  AgentInv'
<1> USE DEF AgentInv, AgentTypeOK, Move
<1>1. task' \in [Nodes -> [Plans -> TaskState]]
  OBVIOUS
<1>2. AgentTypeOK'
  BY <1>1
<1>3. \A m \in Nodes : \A q \in Plans :
         task'[m][q] = IF m = n /\ q = p THEN to ELSE task[m][q]
  OBVIOUS
<1>4. Bound'
  BY <1>3 DEF Bound
<1>5. NoWaitOnSetEvent'
  BY <1>3, NoPlanIsNone DEF NoWaitOnSetEvent
<1> QED
  BY <1>2, <1>4, <1>5

\* A stop wakes every task that waits for it.
LEMMA StopInvariant ==
  ASSUME AgentInv, NEW n \in Nodes, NEW e \in Plans, SetStop(n, e),
         starting' \in [Nodes -> Plans \cup {NoPlan}],
         executor' \in [Nodes -> Plans \cup {NoPlan}],
         UNCHANGED bound
  PROVE  AgentInv'
<1> USE DEF AgentInv, AgentTypeOK, SetStop
<1>1. /\ task' \in [Nodes -> [Plans -> TaskState]]
      /\ stopSet' \in [Nodes -> [Plans -> BOOLEAN]]
  BY DEF TaskState
<1>2. AgentTypeOK'
  BY <1>1
<1>3. \A m \in Nodes : \A q \in Plans :
         task'[m][q] = IF m = n /\ task[m][q] = "waiting" /\ bound[m][q] = e
                       THEN "teardown" ELSE task[m][q]
  OBVIOUS
<1>4. \A m \in Nodes : \A f \in Plans :
         stopSet'[m][f] = IF m = n /\ f = e THEN TRUE ELSE stopSet[m][f]
  OBVIOUS
<1>5. Bound'
  BY <1>3 DEF Bound
<1>6. NoWaitOnSetEvent'
  <2> SUFFICES ASSUME NEW m \in Nodes, NEW q \in Plans, task'[m][q] = "waiting"
               PROVE  bound[m][q] # NoPlan /\ ~stopSet'[m][bound[m][q]]
    BY DEF NoWaitOnSetEvent
  <2>1. task[m][q] = "waiting" /\ ~(m = n /\ bound[m][q] = e)
    BY <1>3
  <2>2. bound[m][q] \in Plans /\ bound[m][q] # NoPlan /\ ~stopSet[m][bound[m][q]]
    BY <2>1 DEF Bound, NoWaitOnSetEvent
  <2> QED
    BY <2>1, <2>2, <1>4
<1> QED
  BY <1>2, <1>5, <1>6

\* Clearing the stop event when a task begins takes nothing from those that wait.
LEMMA BeginInvariant ==
  ASSUME AgentInv, NEW n \in Nodes, NEW p \in Plans, BeginRun(n, p)
  PROVE  AgentInv'
<1> USE DEF AgentInv, AgentTypeOK, BeginRun
<1>1. CASE executor[n] = NoPlan
  BY <1>1, MoveInvariant, Zenon DEF TaskState
<1>2. CASE executor[n] # NoPlan
  <2> DEFINE e == executor[n]
  <2>1. /\ e \in Plans
        /\ Move(n, p, "ready", "setup")
        /\ bound' = [bound EXCEPT ![n][p] = e]
        /\ stopSet' = [stopSet EXCEPT ![n][e] = FALSE]
        /\ UNCHANGED <<starting, executor>>
    BY <1>2
  <2> HIDE DEF e, BeginRun
  <2>2. /\ task' \in [Nodes -> [Plans -> TaskState]]
        /\ bound' \in [Nodes -> [Plans -> Plans \cup {NoPlan}]]
        /\ stopSet' \in [Nodes -> [Plans -> BOOLEAN]]
    BY <2>1 DEF Move, TaskState
  <2>3. AgentTypeOK'
    BY <2>1, <2>2
  <2>4. \A m \in Nodes : \A q \in Plans :
           /\ task'[m][q] = IF m = n /\ q = p THEN "setup" ELSE task[m][q]
           /\ bound'[m][q] = IF m = n /\ q = p THEN e ELSE bound[m][q]
           /\ stopSet'[m][q] => stopSet[m][q]
    BY <2>1 DEF Move
  <2>5. Bound'
    BY <2>1, <2>4 DEF Bound
  <2>6. NoWaitOnSetEvent'
    BY <2>4 DEF NoWaitOnSetEvent, Bound
  <2> QED
    BY <2>3, <2>5, <2>6
<1> QED
  BY <1>1, <1>2

\* Every step keeps the invariant.
LEMMA AgentNextInvariant == ASSUME AgentInv, [AgentNext]_agentVars PROVE AgentInv'
<1> USE DEF AgentInv
<1>1. ASSUME NEW n \in Nodes, NEW p \in Plans, OnRunPlan(n, p) PROVE AgentInv'
  <2>1. AgentTypeOK'
    BY <1>1 DEF OnRunPlan, AgentTypeOK
  <2>2. Bound' /\ NoWaitOnSetEvent'
    BY <1>1 DEF OnRunPlan, Bound, NoWaitOnSetEvent
  <2> QED
    BY <2>1, <2>2
<1>2. ASSUME NEW n \in Nodes, StartTask(n) PROVE AgentInv'
  <2> DEFINE p == starting[n]
  <2>1. p \in Plans
    BY <1>2 DEF StartTask, LoopIdle, AgentTypeOK
  <2>2. /\ starting' = [starting EXCEPT ![n] = NoPlan]
        /\ executor' = [executor EXCEPT ![n] = p]
        /\ task' = [task EXCEPT ![n][p] = "ready"]
        /\ UNCHANGED <<bound, stopSet>>
    BY <1>2 DEF StartTask
  <2> HIDE DEF p
  <2>3. AgentTypeOK'
    BY <2>1, <2>2 DEF AgentTypeOK, TaskState
  <2>4. \A m \in Nodes : \A q \in Plans :
           task'[m][q] = IF m = n /\ q = p THEN "ready" ELSE task[m][q]
    BY <2>1, <2>2 DEF AgentTypeOK
  <2>5. Bound' /\ NoWaitOnSetEvent'
    BY <2>2, <2>4 DEF Bound, NoWaitOnSetEvent
  <2> QED
    BY <2>3, <2>5
<1>3. ASSUME NEW n \in Nodes, OnStopPlan(n) PROVE AgentInv'
  <2>1. /\ executor[n] \in Plans
        /\ SetStop(n, executor[n])
        /\ starting' = starting /\ bound' = bound
        /\ executor' = [executor EXCEPT ![n] = NoPlan]
    BY <1>3 DEF OnStopPlan, AgentTypeOK
  <2>2. /\ starting' \in [Nodes -> Plans \cup {NoPlan}]
        /\ executor' \in [Nodes -> Plans \cup {NoPlan}]
    BY <2>1 DEF AgentTypeOK
  <2> QED
    BY <2>1, <2>2, StopInvariant
<1>4. ASSUME NEW n \in Nodes, OnShutdown(n) PROVE AgentInv'
  <2>1. /\ starting' \in [Nodes -> Plans \cup {NoPlan}]
        /\ executor' \in [Nodes -> Plans \cup {NoPlan}]
    BY <1>4 DEF OnShutdown, AgentTypeOK
  <2>2. CASE executor[n] = NoPlan
    BY <1>4, <2>2 DEF OnShutdown, AgentTypeOK, Bound, NoWaitOnSetEvent
  <2>3. CASE executor[n] # NoPlan
    <3>1. executor[n] \in Plans /\ SetStop(n, executor[n]) /\ UNCHANGED bound
      BY <1>4, <2>3 DEF OnShutdown, AgentTypeOK
    <3> QED
      BY <2>1, <3>1, StopInvariant
  <2> QED
    BY <2>2, <2>3
<1>5. ASSUME NEW n \in Nodes, NEW p \in Plans, TaskStep(n, p) PROVE AgentInv'
  <2> USE DEF AgentTypeOK
  <2>1. CASE BeginRun(n, p)
    BY <2>1, BeginInvariant
  <2>2. CASE SetupDone(n, p)
    <3>1. bound[n][p] \in Plans
      BY <2>2 DEF SetupDone, Move, Bound
    <3>2. CASE stopSet[n][bound[n][p]]
      <4>1. Move(n, p, "setup", "teardown") /\ UNCHANGED <<starting, executor, bound, stopSet>>
        BY <2>2, <3>2, Zenon DEF SetupDone
      <4> QED
        BY <4>1, MoveInvariant DEF TaskState
    <3>3. CASE ~stopSet[n][bound[n][p]]
      <4>1. Move(n, p, "setup", "waiting") /\ UNCHANGED <<starting, executor, bound, stopSet>>
        BY <2>2, <3>3, Zenon DEF SetupDone
      <4> QED
        BY <4>1, <3>1, <3>3, MoveInvariant DEF TaskState
    <3> QED
      BY <3>2, <3>3
  <2>3. CASE SetupFails(n, p)
    BY <2>3, MoveInvariant DEF SetupFails, TaskState
  <2>4. CASE Elapse(n, p)
    <3>1. bound[n][p] \in Plans
      BY <2>4 DEF Elapse, Bound
    <3> QED
      BY <2>4, <3>1, StopInvariant DEF Elapse
  <2>5. CASE TornDown(n, p)
    BY <2>5, MoveInvariant DEF TornDown, TaskState
  <2>6. CASE ReportError(n, p)
    BY <2>6, MoveInvariant DEF ReportError, TaskState
  <2>7. CASE ReportStopped(n, p)
    BY <2>7, MoveInvariant DEF ReportStopped, TaskState
  <2>8. CASE ClearExecutor(n, p)
    <3>1. executor' \in [Nodes -> Plans \cup {NoPlan}]
      BY <2>8 DEF ClearExecutor
    <3> QED
      BY <2>8, <3>1, MoveInvariant DEF ClearExecutor, TaskState
  <2> QED
    BY <1>5, <2>1, <2>2, <2>3, <2>4, <2>5, <2>6, <2>7, <2>8 DEF TaskStep
<1>6. CASE UNCHANGED agentVars
  BY <1>6 DEF agentVars, AgentTypeOK, Bound, NoWaitOnSetEvent
<1> QED
  BY <1>1, <1>2, <1>3, <1>4, <1>5, <1>6 DEF AgentNext

\* The invariant holds in every state.
LEMMA AgentInvariant == AgentSpec => []AgentInv
  BY AgentInitInvariant, AgentNextInvariant, PTL DEF AgentSpec

\* The state of the agents is always of its type.
THEOREM AgentTypeCorrect == AgentSpec => []AgentTypeOK
<1>1. AgentInv => AgentTypeOK
  BY DEF AgentInv
<1> QED
  BY <1>1, AgentInvariant, PTL

\* No task waits for a stop event that is set already: a STOP_PLAN, a shutdown or
\* a watchdog that comes while the plan is being set up is not lost, and neither is
\* one that reaches a task through an executor it shares with another.
THEOREM NoStopIsLost == AgentSpec => []NoWaitOnSetEvent
<1>1. AgentInv => NoWaitOnSetEvent
  BY DEF AgentInv
<1> QED
  BY <1>1, AgentInvariant, PTL

-----------------------------------------------------------------------------
(* The plan executor *)

LEMMA NodeIsNode == Node \in Nodes /\ \A n \in Nodes : n = Node
  BY ExecutorAssumption

-----------------------------------------------------------------------------
(* The executor adds to AgentLoop and changes nothing of it *)

LEMMA StepImplementsAgentLoop ==
  ASSUME [Next]_vars PROVE [AgentNext]_agentVars
<1> USE NodeIsNode DEF AgentNext, TaskStep
<1>1. CASE LoopStep
  BY <1>1 DEF LoopStep
<1>2. ASSUME NEW p \in Plans, PlanStep(p) PROVE [AgentNext]_agentVars
  <2>1. CASE BeginPlan(p)
    BY <2>1 DEF BeginPlan
  <2>2. CASE FailPlan(p)
    BY <2>2 DEF FailPlan
  <2>3. CASE StartWorkers(p)
    BY <2>3 DEF StartWorkers
  <2>4. CASE FinishTeardown(p)
    BY <2>4 DEF FinishTeardown
  <2>5. CASE StartAuth(p) \/ CancelWorkers(p) \/ StartLogoff(p) \/ StartUnalias(p)
    BY <2>5 DEF StartAuth, CancelWorkers, StartLogoff, StartUnalias, loopVars, agentVars
  <2>6. CASE \E ip \in Ips : \/ AddAlias(p, ip) \/ AuthUser(p, ip)
                             \/ LogoffUser(p, ip) \/ RemoveAlias(p, ip)
    BY <2>6 DEF AddAlias, AuthUser, LogoffUser, RemoveAlias, loopVars, agentVars
  <2> QED
    BY <1>2, <2>1, <2>2, <2>3, <2>4, <2>5, <2>6 DEF PlanStep
<1>3. CASE Shutdown
  BY <1>3 DEF Shutdown
<1>4. CASE Exit
  BY <1>4 DEF Exit, loopVars, agentVars
<1>5. CASE UNCHANGED vars
  BY <1>5 DEF vars, loopVars, agentVars
<1> QED
  BY <1>1, <1>2, <1>3, <1>4, <1>5 DEF Next

\* A stop reaches the task that waits for it also when aliases and logons are in
\* the way: the executor is an agent as AgentLoop.tla has it.
THEOREM ExecutorLosesNoStop == Spec => []NoWaitOnSetEvent
<1>1. Init => AgentInv
  BY AgentInitInvariant DEF Init
<1>2. AgentInv /\ [Next]_vars => AgentInv'
  BY StepImplementsAgentLoop, AgentNextInvariant
<1>3. AgentInv => NoWaitOnSetEvent
  BY DEF AgentInv
<1> QED
  BY <1>1, <1>2, <1>3, PTL DEF Spec

-----------------------------------------------------------------------------
(* The invariant *)

Live(p) == task[Node][p] \notin {"none", "done"}

\* One plan at a time: the loop starts none while another is live.
OneAtATime ==
    /\ \A p, q \in Plans : Live(p) /\ Live(q) => p = q
    /\ starting[Node] # NoPlan =>
         NoTask(Node) /\ task[Node][starting[Node]] = "none"

\* Where a plan is in setup or teardown, and where its task is.
Phases ==
    \A p \in Plans :
        /\ step[p] \in {"provision", "auth"} <=> task[Node][p] = "setup"
        /\ step[p] = "running" => task[Node][p] \in {"waiting", "teardown"}
        /\ step[p] \in {"cancel", "logoff"} => task[Node][p] = "teardown"
        /\ step[p] = "unalias" => task[Node][p] \in {"teardown", "closing", "clearing", "done"}
        /\ task[Node][p] = "waiting" => step[p] = "running"

\* What a plan has provisioned stays until the last phase of the plan removes it.
Links ==
    \A p \in Plans :
        /\ step[p] = "none" => provisioned[p] = {}
        /\ step[p] = "provision" => provisioned[p] \cap todo[p] = {}
        /\ step[p] \notin {"provision", "unalias"} => todo[p] = {}
        /\ step[p] = "unalias" /\ todo[p] # {} => task[Node][p] = "teardown"
        /\ step[p] # "unalias" => provisioned[p] \subseteq iface

\* Every alias on the interface is one whose last command failed, or one that a
\* plan has provisioned and is still going to remove.
WillRemove(p, ip) == ip \in provisioned[p] /\ (step[p] = "unalias" => ip \in todo[p])
Accounted == \A ip \in iface : ip \in doubtful \/ \E p \in Plans : WillRemove(p, ip)

\* Users are logged on only where they can still be logged off.
Users ==
    \A p \in Plans :
        /\ step[p] \notin {"auth", "logoff"} => pending[p] = {}
        /\ step[p] = "logoff" => pending[p] = {ip \in Ips : login[p][ip] = "in"}
        /\ \A ip \in Ips :
             /\ login[p][ip] # "lost"
             /\ login[p][ip] = "in" =>
                  step[p] \in {"auth", "running", "cancel", "logoff"} /\ ip \in iface
        /\ p \in workers => step[p] = "running"

IInv == TypeOK /\ AgentInv /\ OneAtATime /\ Phases /\ Links /\ Accounted /\ Users

LEMMA InitInvariant == ASSUME Init PROVE IInv
<1> USE NodeIsNode DEF Init, AgentInit
<1>1. TypeOK
  BY AgentInitInvariant DEF TypeOK, AgentInv, Login
<1>2. AgentInv
  BY AgentInitInvariant
<1>3. OneAtATime /\ Phases
  BY DEF OneAtATime, Phases, Live
<1>4. Links /\ Accounted /\ Users
  BY DEF Links, Accounted, Users
<1> QED
  BY <1>1, <1>2, <1>3, <1>4 DEF IInv

\* A step that touches no alias and goes back on no removal.
LEMMA AccountedKept ==
  ASSUME Accounted, UNCHANGED <<iface, doubtful>>,
         \A p \in Plans : \A ip \in iface : WillRemove(p, ip) => WillRemove(p, ip)'
  PROVE  Accounted'
  BY DEF Accounted

-----------------------------------------------------------------------------
(* Steps of the loop and of the task outside run() *)

\* Such a step takes tasks only where the phase of their plan allows it.
LEMMA QuietInvariant ==
  ASSUME IInv, AgentInv', OneAtATime',
         UNCHANGED <<step, linkVars, userVars>>,
         workers' \subseteq workers,
         shutdown' \in BOOLEAN, exited' \in BOOLEAN,
         \A p \in Plans :
            \/ task'[Node][p] = task[Node][p]
            \/ /\ task[Node][p] = "waiting"
               /\ task'[Node][p] = "teardown"
            \/ /\ task[Node][p] \in {"none", "failed", "closing", "clearing"}
               /\ task'[Node][p] \in {"ready", "closing", "clearing", "done"}
               /\ task[Node][p] \in {"closing", "clearing"} => task'[Node][p] # "ready"
  PROVE  IInv'
<1> USE DEF IInv, linkVars, userVars
<1>1. TypeOK'
  BY DEF TypeOK, AgentInv
<1>2. Phases'
  BY DEF Phases
<1>3. Links'
  <2>1. \A p \in Plans : step[p] = "unalias" /\ task[Node][p] = "teardown"
                            => task'[Node][p] = "teardown"
    OBVIOUS
  <2> QED
    BY <2>1 DEF Links
<1>4. Users'
  BY DEF Users
<1>5. Accounted'
  BY AccountedKept DEF WillRemove
<1> QED
  BY <1>1, <1>2, <1>3, <1>4, <1>5

\* Tasks that are live go on being live, and the others stay what they are.
LEMMA SameLive ==
  ASSUME IInv, UNCHANGED starting,
         \A p \in Plans : task'[Node][p] # task[Node][p]
                            => Live(p) /\ task'[Node][p] # "none"
  PROVE  OneAtATime'
<1> USE NodeIsNode DEF IInv, OneAtATime, TypeOK, AgentTypeOK, Live, NoTask
<1>1. \A p \in Plans : Live(p)' => Live(p)
  OBVIOUS
<1>2. \A p, q \in Plans : Live(p)' /\ Live(q)' => p = q
  BY <1>1
<1>3. ASSUME starting'[Node] # NoPlan
      PROVE  NoTask(Node)' /\ task'[Node][starting'[Node]] = "none"
  <2>1. starting[Node] \in Plans /\ NoTask(Node) /\ task[Node][starting[Node]] = "none"
    BY <1>3
  <2>2. \A p \in Plans : task'[Node][p] = task[Node][p]
    BY <2>1
  <2> QED
    BY <2>1, <2>2
<1> QED
  BY <1>2, <1>3

\* A stop moves tasks that wait, and no others.
LEMMA StopMoves ==
  ASSUME IInv, NEW e, SetStop(Node, e)
  PROVE  \A p \in Plans : \/ task'[Node][p] = task[Node][p]
                          \/ task[Node][p] = "waiting" /\ task'[Node][p] = "teardown"
  BY NodeIsNode DEF IInv, TypeOK, AgentTypeOK, SetStop

LEMMA LoopInvariant ==
  ASSUME ~Overlap, IInv, LoopStep
  PROVE  IInv'
<1>1. AgentInv'
  BY StepImplementsAgentLoop, AgentNextInvariant DEF IInv, Next
<1>2. UNCHANGED <<step, linkVars, userVars>> /\ UNCHANGED <<workers, procVars>>
  BY DEF LoopStep
<1>3. workers' \subseteq workers /\ shutdown' \in BOOLEAN /\ exited' \in BOOLEAN
  BY <1>2 DEF procVars, IInv, TypeOK
<1> USE NodeIsNode DEF AgentTypeOK, TypeOK
<1>4. ASSUME NEW p \in Plans, NoTask(Node), OnRunPlan(Node, p) PROVE IInv'
  <2>1. task[Node][p] = "none"
    BY <1>4, AgentAssumption DEF OnRunPlan, Plans
  <2>2. OneAtATime'
    BY <1>4, <2>1 DEF OnRunPlan, OneAtATime, IInv, Live, NoTask
  <2> QED
    BY <1>1, <1>2, <1>3, <1>4, <2>2, QuietInvariant DEF OnRunPlan
<1>5. CASE StartTask(Node)
  <2> DEFINE s == starting[Node]
  <2>1. s \in Plans /\ NoTask(Node) /\ task[Node][s] = "none"
    BY <1>5 DEF StartTask, LoopIdle, IInv, OneAtATime
  <2>2. task' = [task EXCEPT ![Node][s] = "ready"] /\ starting'[Node] = NoPlan
    BY <1>5 DEF StartTask, IInv
  <2> HIDE DEF s
  <2>3. \A p \in Plans : task'[Node][p] = IF p = s THEN "ready" ELSE task[Node][p]
    BY <2>1, <2>2 DEF IInv
  <2>4. OneAtATime'
    BY <2>1, <2>2, <2>3 DEF OneAtATime, Live, NoTask
  <2> QED
    BY <1>1, <1>2, <1>3, <2>1, <2>3, <2>4, QuietInvariant
<1>6. ASSUME NEW e, SetStop(Node, e), UNCHANGED starting PROVE IInv'
  <2>1. \A p \in Plans : \/ task'[Node][p] = task[Node][p]
                         \/ task[Node][p] = "waiting" /\ task'[Node][p] = "teardown"
    BY <1>6, StopMoves
  <2>2. OneAtATime'
    BY <1>6, <2>1, SameLive DEF Live
  <2> QED
    BY <1>1, <1>2, <1>3, <2>1, <2>2, QuietInvariant
<1>7. ASSUME NEW p \in Plans, NEW from, NEW to, Move(Node, p, from, to), UNCHANGED starting,
             <<from, to>> \in {<<"failed", "closing">>, <<"closing", "clearing">>,
                               <<"clearing", "done">>}
      PROVE IInv'
  <2>1. \A q \in Plans : task'[Node][q] = IF q = p THEN to ELSE task[Node][q]
    BY <1>7 DEF Move, IInv
  <2>2. task[Node][p] = from /\ Live(p)
    BY <1>7 DEF Move, Live
  <2>3. OneAtATime'
    BY <1>7, <2>1, <2>2, SameLive
  <2> QED
    BY <1>1, <1>2, <1>3, <1>7, <2>1, <2>2, <2>3, QuietInvariant
<1>8. CASE OnStopPlan(Node)
  BY <1>6, <1>8 DEF OnStopPlan
<1>9. ASSUME NEW p \in Plans, Elapse(Node, p) PROVE IInv'
  BY <1>6, <1>9 DEF Elapse
<1>10. ASSUME NEW p \in Plans,
              ReportError(Node, p) \/ ReportStopped(Node, p) \/ ClearExecutor(Node, p)
       PROVE IInv'
  BY <1>7, <1>10 DEF ReportError, ReportStopped, ClearExecutor
<1> QED
  BY <1>4, <1>5, <1>8, <1>9, <1>10 DEF LoopStep

LEMMA EndOfProcessInvariant ==
  ASSUME IInv, Shutdown \/ Exit
  PROVE  IInv'
<1> USE NodeIsNode DEF TypeOK, AgentTypeOK
<1>1. AgentInv'
  BY StepImplementsAgentLoop, AgentNextInvariant DEF IInv, Next
<1>2. CASE Shutdown
  <2>1. \A p \in Plans : \/ task'[Node][p] = task[Node][p]
                         \/ task[Node][p] = "waiting" /\ task'[Node][p] = "teardown"
    BY <1>2, StopMoves DEF Shutdown, OnShutdown
  <2>2. UNCHANGED starting
    BY <1>2 DEF Shutdown, OnShutdown
  <2>3. OneAtATime'
    BY <2>1, <2>2, SameLive DEF Live
  <2>4. UNCHANGED <<step, linkVars, userVars, workers, exited>> /\ shutdown' \in BOOLEAN
    BY <1>2 DEF Shutdown
  <2>5. exited' \in BOOLEAN /\ workers' \subseteq workers
    BY <2>4 DEF IInv
  <2> QED
    BY <1>1, <2>1, <2>3, <2>4, <2>5, QuietInvariant
<1>3. CASE Exit
  <2>1. UNCHANGED <<loopVars, step, linkVars, userVars, shutdown>> /\ workers' = {} /\ exited' = TRUE
    BY <1>3 DEF Exit
  <2>2. OneAtATime'
    BY <2>1 DEF OneAtATime, Live, NoTask, IInv, loopVars
  <2>3. \A p \in Plans : task'[Node][p] = task[Node][p]
    BY <2>1 DEF loopVars
  <2> QED
    BY <1>1, <2>1, <2>2, <2>3, QuietInvariant DEF IInv
<1> QED
  BY <1>2, <1>3

-----------------------------------------------------------------------------
(* Setup *)

\* What every step of a plan's task has in common.
LEMMA PlanStepKeeps ==
  ASSUME IInv, NEW p \in Plans, PlanStep(p)
  PROVE  AgentInv' /\ shutdown' \in BOOLEAN /\ exited' \in BOOLEAN
<1>1. AgentInv'
  BY StepImplementsAgentLoop, AgentNextInvariant DEF IInv, Next
<1>2. UNCHANGED procVars
  BY DEF PlanStep, BeginPlan, FailPlan, AddAlias, StartAuth, AuthUser, StartWorkers,
         CancelWorkers, StartLogoff, LogoffUser, StartUnalias, RemoveAlias, FinishTeardown
<1> QED
  BY <1>1, <1>2 DEF procVars, IInv, TypeOK

\* A step that moves no task starts none either.
LEMMA SameTasks ==
  ASSUME IInv, UNCHANGED loopVars
  PROVE  OneAtATime'
BY SameLive DEF loopVars

LEMMA BeginPlanInvariant ==
  ASSUME IInv, NEW p \in Plans, BeginPlan(p)
  PROVE  IInv'
<1> USE NodeIsNode DEF IInv, TypeOK, AgentTypeOK
<1>1. AgentInv' /\ shutdown' \in BOOLEAN /\ exited' \in BOOLEAN
  BY PlanStepKeeps DEF PlanStep
<1> DEFINE to == IF executor[Node] = p THEN "setup" ELSE "failed"
<1>2. /\ task[Node][p] = "ready"
      /\ \A q \in Plans : task'[Node][q] = IF q = p THEN to ELSE task[Node][q]
  BY NoPlanIsNone DEF BeginPlan, BeginRun, Move
<1>3. UNCHANGED <<starting, provisioned, iface, doubtful, pending, login, workers>>
  BY DEF BeginPlan, BeginRun, userVars
<1>4. step[p] = "none"
  <2>1. step[p] \notin {"provision", "auth", "running", "cancel", "logoff", "unalias"}
    BY <1>2 DEF Phases
  <2> QED
    BY <2>1
<1>5. CASE executor[Node] = p
  <2>1. step' = [step EXCEPT ![p] = "provision"] /\ todo' = [todo EXCEPT ![p] = Ips]
    BY <1>5 DEF BeginPlan, Goto
  <2>2. \A q \in Plans : step'[q] = IF q = p THEN "provision" ELSE step[q]
    BY <2>1
  <2>3. \A q \in Plans : todo'[q] = IF q = p THEN Ips ELSE todo[q]
    BY <2>1
  <2>4. TypeOK'
    BY <1>1, <1>3, <2>1 DEF AgentInv
  <2>5. OneAtATime'
    BY <1>2, <1>3, SameLive DEF Live
  <2>6. Phases'
    <3>1. task'[Node][p] = "setup" /\ step'[p] = "provision"
      BY <1>2, <1>5, <2>2
    <3>2. \A q \in Plans \ {p} : task'[Node][q] = task[Node][q] /\ step'[q] = step[q]
      BY <1>2, <2>2
    <3> QED
      BY <3>1, <3>2 DEF Phases
  <2>7. Links'
    <3>2. /\ step'[p] = "provision" /\ provisioned'[p] = {}
          /\ provisioned'[p] \cap todo'[p] = {} /\ provisioned'[p] \subseteq iface'
      BY <1>3, <1>4, <2>2 DEF Links
    <3>3. \A q \in Plans \ {p} : /\ step'[q] = step[q] /\ todo'[q] = todo[q]
                                 /\ task'[Node][q] = task[Node][q]
      BY <1>2, <2>2, <2>3
    <3>4. provisioned' = provisioned /\ iface' = iface
      BY <1>3
    <3> QED
      BY <3>2, <3>3, <3>4 DEF Links
  <2>8. Users'
    BY ZenonT(40), <1>3, <1>4, <2>2 DEF Users
  <2>9. Accounted'
    BY <1>3, <1>4, <2>2, <2>3, AccountedKept DEF WillRemove
  <2> QED
    BY <1>1, <2>4, <2>5, <2>6, <2>7, <2>8, <2>9
<1>6. CASE executor[Node] # p
  <2>1. UNCHANGED <<step, todo>>
    BY <1>6 DEF BeginPlan
  <2>2. TypeOK'
    BY <1>1, <1>3, <2>1 DEF AgentInv
  <2>3. OneAtATime'
    BY <1>2, <1>3, SameLive DEF Live
  <2>4. Phases'
    BY <1>2, <1>4, <1>6, <2>1 DEF Phases
  <2>5. Links'
    <3>1. \A q \in Plans : step[q] = "unalias" => task'[Node][q] = task[Node][q]
      BY <1>2, <1>4
    <3> QED
      BY <1>3, <2>1, <3>1 DEF Links
  <2>6. Users'
    BY <1>3, <2>1 DEF Users
  <2>7. Accounted'
    BY <1>3, <2>1, AccountedKept DEF WillRemove
  <2> QED
    BY <1>1, <2>2, <2>3, <2>4, <2>5, <2>6, <2>7
<1> QED
  BY <1>5, <1>6

\* Nothing had been provisioned when run() raised.
LEMMA FailPlanInvariant ==
  ASSUME IInv, NEW p \in Plans, FailPlan(p)
  PROVE  IInv'
<1> USE NodeIsNode DEF IInv, TypeOK, AgentTypeOK
<1>1. AgentInv' /\ shutdown' \in BOOLEAN /\ exited' \in BOOLEAN
  BY PlanStepKeeps DEF PlanStep
<1>2. /\ task[Node][p] = "setup"
      /\ \A q \in Plans : task'[Node][q] = IF q = p THEN "failed" ELSE task[Node][q]
  BY DEF FailPlan, SetupFails, Move
<1>3. UNCHANGED <<starting, provisioned, iface, doubtful, pending, login, workers>>
  BY DEF FailPlan, SetupFails, userVars
<1>4. step[p] = "provision" /\ todo[p] = Ips
  BY DEF FailPlan, In
<1>5. step' = [step EXCEPT ![p] = "none"] /\ todo' = [todo EXCEPT ![p] = {}]
  BY DEF FailPlan, Goto
<1>6. \A q \in Plans : step'[q] = IF q = p THEN "none" ELSE step[q]
  BY <1>5
<1>7. \A q \in Plans : todo'[q] = IF q = p THEN {} ELSE todo[q]
  BY <1>5
<1>8. provisioned[p] = {}
  <2>1. provisioned[p] \cap Ips = {} /\ provisioned[p] \subseteq Ips
    BY <1>4 DEF Links
  <2> QED
    BY <2>1
<1>9. TypeOK'
  BY <1>1, <1>3, <1>5 DEF AgentInv
<1>10. OneAtATime'
  BY <1>2, <1>3, SameLive DEF Live
<1>11. Phases'
  BY <1>2, <1>6 DEF Phases
<1>12. Links'
  BY SMTT(30), <1>2, <1>3, <1>6, <1>7, <1>8 DEF Links
<1>13. Users'
  BY <1>3, <1>4, <1>6 DEF Users
<1>14. Accounted'
  BY <1>3, <1>6, <1>7, <1>8, AccountedKept DEF WillRemove
<1> QED
  BY <1>1, <1>9, <1>10, <1>11, <1>12, <1>13, <1>14

LEMMA AddAliasInvariant ==
  ASSUME IInv, NEW p \in Plans, NEW ip \in Ips, AddAlias(p, ip)
  PROVE  IInv'
<1> USE NodeIsNode DEF IInv, TypeOK, AgentTypeOK
<1>1. AgentInv' /\ shutdown' \in BOOLEAN /\ exited' \in BOOLEAN
  BY PlanStepKeeps DEF PlanStep
<1>2. UNCHANGED <<starting, task, step, pending, login, workers>>
  BY DEF AddAlias, loopVars, userVars
<1>3. step[p] = "provision" /\ ip \in todo[p]
  BY DEF AddAlias, In
<1>4. todo' = [todo EXCEPT ![p] = @ \ {ip}]
  BY DEF AddAlias
<1>5. \/ /\ iface' = iface \cup {ip}
         /\ provisioned' = [provisioned EXCEPT ![p] = @ \cup {ip}]
         /\ doubtful' = doubtful \ {ip}
      \/ /\ iface' \in {iface, iface \cup {ip}}
         /\ doubtful' = doubtful \cup {ip}
         /\ UNCHANGED provisioned
  BY DEF AddAlias
<1>6. todo' \in [Plans -> SUBSET Ips]
  BY <1>4
<1>7. \A q \in Plans : todo'[q] = IF q = p THEN todo[p] \ {ip} ELSE todo[q]
  BY <1>4
<1>8. /\ iface' \in SUBSET Ips
      /\ provisioned' \in [Plans -> SUBSET Ips]
      /\ iface \subseteq iface' /\ iface' \subseteq iface \cup {ip}
      /\ ip \in provisioned'[p] \/ ip \in doubtful'
      /\ doubtful \ {ip} \subseteq doubtful' /\ doubtful' \in SUBSET Ips
      /\ provisioned'[p] \subseteq provisioned[p] \cup (iface' \cap {ip})
      /\ \A q \in Plans : q # p => provisioned'[q] = provisioned[q]
      /\ \A q \in Plans : provisioned[q] \subseteq provisioned'[q]
  <2>1. CASE /\ iface' = iface \cup {ip}
             /\ provisioned' = [provisioned EXCEPT ![p] = @ \cup {ip}]
             /\ doubtful' = doubtful \ {ip}
    <3>1. \A q \in Plans : provisioned'[q] = IF q = p THEN provisioned[p] \cup {ip}
                                                  ELSE provisioned[q]
      BY <2>1
    <3>2. provisioned' \in [Plans -> SUBSET Ips]
      BY <2>1
    <3> QED
      BY <2>1, <3>1, <3>2
  <2>2. CASE /\ iface' \in {iface, iface \cup {ip}}
             /\ doubtful' = doubtful \cup {ip}
             /\ UNCHANGED provisioned
    BY <2>2
  <2> QED
    BY <1>5, <2>1, <2>2
<1>9. TypeOK'
  BY <1>1, <1>2, <1>6, <1>8 DEF AgentInv
<1>10. OneAtATime'
  BY <1>2, SameLive
<1>11. Phases'
  BY <1>2 DEF Phases
<1>12. Links'
  <2>2. \A q \in Plans :
          /\ step[q] = "none" => provisioned'[q] = {}
          /\ step[q] = "provision" => provisioned'[q] \cap todo'[q] = {}
          /\ step[q] # "unalias" => provisioned'[q] \subseteq iface'
    BY <1>3, <1>7, <1>8 DEF Links
  <2>3. \A q \in Plans :
          /\ step[q] \notin {"provision", "unalias"} => todo'[q] = {}
          /\ step[q] = "unalias" /\ todo'[q] # {} => task[Node][q] = "teardown"
    BY <1>3, <1>7 DEF Links
  <2> QED
    BY <1>2, <2>2, <2>3 DEF Links
<1>13. Users'
  BY <1>2, <1>8 DEF Users
<1>14. Accounted'
  <2> SUFFICES ASSUME NEW x \in iface'
               PROVE  x \in doubtful' \/ \E q \in Plans : WillRemove(q, x)'
    BY DEF Accounted
  <2>1. CASE x = ip
    BY <1>2, <1>3, <1>8, <2>1 DEF WillRemove
  <2>2. CASE x # ip
    <3>1. x \in doubtful \/ \E q \in Plans : WillRemove(q, x)
      BY <1>8, <2>2 DEF Accounted
    <3>2. \A q \in Plans : WillRemove(q, x) => WillRemove(q, x)'
      BY <1>2, <1>7, <1>8, <2>2 DEF WillRemove
    <3> QED
      BY <1>8, <2>2, <3>1, <3>2
  <2> QED
    BY <2>1, <2>2
<1> QED
  BY <1>1, <1>9, <1>10, <1>11, <1>12, <1>13, <1>14

\* A plan that has added its aliases and does not yet remove them leaves the
\* interface alone.
LEMMA LinksKept ==
  ASSUME Links, UNCHANGED <<iface, provisioned, todo, task>>,
         NEW p \in Plans, NEW s \in {"auth", "running", "cancel", "logoff"},
         step[p] # "unalias", todo[p] = {},
         \A q \in Plans : step'[q] = IF q = p THEN s ELSE step[q]
  PROVE  Links'
<1>2. \A q \in Plans :
        /\ step'[q] = "none" => provisioned'[q] = {}
        /\ step'[q] = "provision" => provisioned'[q] \cap todo'[q] = {}
        /\ step'[q] \notin {"provision", "unalias"} => todo'[q] = {}
  BY DEF Links
<1>3. \A q \in Plans :
        /\ step'[q] = "unalias" /\ todo'[q] # {} => task'[Node][q] = "teardown"
        /\ step'[q] # "unalias" => provisioned'[q] \subseteq iface'
  BY DEF Links
<1> QED
  BY <1>2, <1>3 DEF Links

LEMMA StartAuthInvariant ==
  ASSUME IInv, NEW p \in Plans, StartAuth(p)
  PROVE  IInv'
<1> USE NodeIsNode DEF IInv, TypeOK, AgentTypeOK
<1>1. AgentInv' /\ shutdown' \in BOOLEAN /\ exited' \in BOOLEAN
  BY PlanStepKeeps DEF PlanStep
<1>2. UNCHANGED <<starting, task, iface, doubtful, provisioned, todo, login, workers>>
  BY DEF StartAuth, loopVars, linkVars
<1>3. step[p] = "provision" /\ todo[p] = {}
  BY DEF StartAuth, In
<1>4. step' = [step EXCEPT ![p] = "auth"] /\ pending' = [pending EXCEPT ![p] = Ips]
  BY DEF StartAuth, Goto
<1>5. \A q \in Plans : step'[q] = IF q = p THEN "auth" ELSE step[q]
  BY <1>4
<1>6. \A q \in Plans : q # p => pending'[q] = pending[q]
  BY <1>4
<1>7. TypeOK'
  BY <1>1, <1>2, <1>4 DEF AgentInv
<1>8. OneAtATime'
  BY <1>2, SameLive
<1>9. Phases'
  BY <1>2, <1>3, <1>5 DEF Phases
<1>10. Links'
  BY <1>2, <1>3, <1>5, LinksKept
<1>11. Users'
  BY <1>2, <1>3, <1>5, <1>6 DEF Users
<1>20. Accounted'
  BY <1>2, <1>3, <1>5, AccountedKept DEF WillRemove
<1> QED
  BY <1>1, <1>7, <1>8, <1>9, <1>10, <1>11, <1>20

\* Only a user whose alias is there is logged on.
LEMMA AuthUserInvariant ==
  ASSUME IInv, NEW p \in Plans, NEW ip \in Ips, AuthUser(p, ip)
  PROVE  IInv'
<1> USE NodeIsNode DEF IInv, TypeOK, AgentTypeOK
<1>1. AgentInv' /\ shutdown' \in BOOLEAN /\ exited' \in BOOLEAN
  BY PlanStepKeeps DEF PlanStep
<1>2. UNCHANGED <<starting, task, step, iface, doubtful, provisioned, todo, workers>>
  BY DEF AuthUser, loopVars, linkVars
<1>3. step[p] = "auth" /\ pending' = [pending EXCEPT ![p] = @ \ {ip}]
  BY DEF AuthUser, In
<1>4. \/ ip \in iface /\ login' = [login EXCEPT ![p][ip] = "in"]
      \/ UNCHANGED login
  BY DEF AuthUser
<1>5. login' \in [Plans -> [Ips -> Login]]
  <2>1. CASE login' = [login EXCEPT ![p][ip] = "in"]
    BY <2>1 DEF Login
  <2>2. CASE UNCHANGED login
    BY <2>2
  <2> QED
    BY <1>4, <2>1, <2>2
<1>6. \A q \in Plans : \A i \in Ips :
         \/ login'[q][i] = login[q][i]
         \/ q = p /\ i \in iface /\ login'[q][i] = "in"
  BY <1>4
<1>7. \A q \in Plans : q # p => pending'[q] = pending[q]
  BY <1>3
<1>8. TypeOK'
  BY <1>1, <1>2, <1>3, <1>5 DEF AgentInv
<1>9. OneAtATime'
  BY <1>2, SameLive
<1>10. Phases' /\ Links'
  BY <1>2 DEF Phases, Links
<1>11. Users'
  <2>1. \A q \in Plans : step[q] = "logoff" => pending'[q] = {i \in Ips : login'[q][i] = "in"}
    <3> SUFFICES ASSUME NEW q \in Plans, step[q] = "logoff"
                 PROVE  pending'[q] = {i \in Ips : login'[q][i] = "in"}
      OBVIOUS
    <3>1. q # p
      BY <1>3
    <3>2. \A i \in Ips : login'[q][i] = login[q][i]
      BY <1>6, <3>1
    <3> QED
      BY <1>7, <3>1, <3>2 DEF Users
  <2>2. \A q \in Plans : step[q] \notin {"auth", "logoff"} => pending'[q] = {}
    BY <1>3, <1>7 DEF Users
  <2>3. \A q \in Plans : \A i \in Ips :
           /\ login'[q][i] # "lost"
           /\ login'[q][i] = "in" =>
                step[q] \in {"auth", "running", "cancel", "logoff"} /\ i \in iface
    BY <1>3, <1>6 DEF Users
  <2> QED
    BY <1>2, <2>1, <2>2, <2>3 DEF Users
<1>20. Accounted'
  BY <1>2, AccountedKept DEF WillRemove
<1> QED
  BY <1>1, <1>8, <1>9, <1>10, <1>11, <1>20

LEMMA StartWorkersInvariant ==
  ASSUME IInv, NEW p \in Plans, StartWorkers(p)
  PROVE  IInv'
<1> USE NodeIsNode DEF IInv, TypeOK, AgentTypeOK
<1>1. AgentInv' /\ shutdown' \in BOOLEAN /\ exited' \in BOOLEAN
  BY PlanStepKeeps DEF PlanStep
<1> DEFINE to == IF stopSet[Node][bound[Node][p]] THEN "teardown" ELSE "waiting"
<1>2. /\ task[Node][p] = "setup"
      /\ \A q \in Plans : task'[Node][q] = IF q = p THEN to ELSE task[Node][q]
  BY DEF StartWorkers, SetupDone, Move
<1>3. to \in {"teardown", "waiting"}
  OBVIOUS
<1> HIDE DEF to
<1>4. UNCHANGED <<starting, iface, doubtful, provisioned, todo, pending, login>>
  BY DEF StartWorkers, SetupDone, linkVars, userVars
<1>5. step[p] \in {"provision", "auth"} /\ todo[p] = {} /\ pending[p] = {}
  BY DEF StartWorkers, In
<1>6. step' = [step EXCEPT ![p] = "running"] /\ workers' = workers \cup {p}
  BY DEF StartWorkers, Goto
<1>7. \A q \in Plans : step'[q] = IF q = p THEN "running" ELSE step[q]
  BY <1>6
<1>8. TypeOK'
  BY <1>1, <1>4, <1>6 DEF AgentInv
<1>9. OneAtATime'
  BY <1>2, <1>3, <1>4, SameLive DEF Live
<1>10. Phases'
  BY <1>2, <1>3, <1>7 DEF Phases
<1>11. Links'
  BY <1>2, <1>3, <1>4, <1>5, <1>7 DEF Links
<1>12. Users'
  BY <1>4, <1>5, <1>6, <1>7 DEF Users
<1>20. Accounted'
  BY <1>2, <1>3, <1>4, <1>5, <1>7, AccountedKept DEF WillRemove
<1> QED
  BY <1>1, <1>8, <1>9, <1>10, <1>11, <1>12, <1>20

-----------------------------------------------------------------------------
(* Teardown *)

LEMMA CancelWorkersInvariant ==
  ASSUME IInv, NEW p \in Plans, CancelWorkers(p)
  PROVE  IInv'
<1> USE NodeIsNode DEF IInv, TypeOK, AgentTypeOK
<1>1. AgentInv' /\ shutdown' \in BOOLEAN /\ exited' \in BOOLEAN
  BY PlanStepKeeps DEF PlanStep
<1>2. UNCHANGED <<starting, task, iface, doubtful, provisioned, todo, pending, login>>
  BY DEF CancelWorkers, loopVars, linkVars, userVars
<1>3. step[p] = "running" /\ task[Node][p] = "teardown"
  BY DEF CancelWorkers, In
<1>4. step' = [step EXCEPT ![p] = "cancel"] /\ workers' = workers \ {p}
  BY DEF CancelWorkers, Goto
<1>5. \A q \in Plans : step'[q] = IF q = p THEN "cancel" ELSE step[q]
  BY <1>4
<1>6. TypeOK'
  BY <1>1, <1>2, <1>4 DEF AgentInv
<1>7. OneAtATime'
  BY <1>2, SameLive
<1>8. Phases'
  BY <1>2, <1>3, <1>5 DEF Phases
<1>9. Links'
  BY <1>2, <1>3, <1>5 DEF Links
<1>10. Users'
  BY <1>2, <1>3, <1>4, <1>5 DEF Users
<1>20. Accounted'
  BY <1>2, <1>3, <1>5, AccountedKept DEF WillRemove
<1> QED
  BY <1>1, <1>6, <1>7, <1>8, <1>9, <1>10, <1>20

LEMMA StartLogoffInvariant ==
  ASSUME IInv, NEW p \in Plans, StartLogoff(p)
  PROVE  IInv'
<1> USE NodeIsNode DEF IInv, TypeOK, AgentTypeOK
<1>1. AgentInv' /\ shutdown' \in BOOLEAN /\ exited' \in BOOLEAN
  BY PlanStepKeeps DEF PlanStep
<1>2. UNCHANGED <<starting, task, iface, doubtful, provisioned, todo, login, workers>>
  BY DEF StartLogoff, loopVars, linkVars
<1>3. step[p] = "cancel"
  BY DEF StartLogoff, In
<1> DEFINE users == {ip \in Ips : login[p][ip] = "in"}
<1>4. step' = [step EXCEPT ![p] = "logoff"] /\ pending' = [pending EXCEPT ![p] = users]
  BY DEF StartLogoff, Goto
<1>5. \A q \in Plans : step'[q] = IF q = p THEN "logoff" ELSE step[q]
  BY <1>4
<1>6. \A q \in Plans : pending'[q] = IF q = p THEN users ELSE pending[q]
  BY <1>4
<1>7. TypeOK'
  BY <1>1, <1>2, <1>4 DEF AgentInv
<1>8. OneAtATime'
  BY <1>2, SameLive
<1>9. Phases'
  BY <1>2, <1>3, <1>5 DEF Phases
<1>10. Links'
  <2>1. todo[p] = {}
    BY <1>3 DEF Links
  <2> QED
    BY <1>2, <1>3, <1>5, <2>1, LinksKept
<1>11. Users'
  <2>1. \A q \in Plans : step'[q] = "logoff" =>
                           pending'[q] = {ip \in Ips : login'[q][ip] = "in"}
    <3> SUFFICES ASSUME NEW q \in Plans, step'[q] = "logoff"
                 PROVE  pending'[q] = {ip \in Ips : login[q][ip] = "in"}
      BY <1>2
    <3> QED
      BY <1>5, <1>6 DEF Users
  <2>2. \A q \in Plans : step'[q] \notin {"auth", "logoff"} => pending'[q] = {}
    BY <1>5, <1>6 DEF Users
  <2>3. \A q \in Plans : \A i \in Ips :
           /\ login[q][i] # "lost"
           /\ login[q][i] = "in" =>
                step'[q] \in {"auth", "running", "cancel", "logoff"} /\ i \in iface
    BY <1>3, <1>5 DEF Users
  <2>4. \A q \in workers : step'[q] = "running"
    BY <1>3, <1>5 DEF Users
  <2> QED
    BY <1>2, <2>1, <2>2, <2>3, <2>4 DEF Users
<1>20. Accounted'
  BY <1>2, <1>3, <1>5, AccountedKept DEF WillRemove
<1> QED
  BY <1>1, <1>7, <1>8, <1>9, <1>10, <1>11, <1>20

\* A user that is still to be logged off has its alias.
LEMMA LogoffUserInvariant ==
  ASSUME IInv, NEW p \in Plans, NEW ip \in Ips, LogoffUser(p, ip)
  PROVE  IInv'
<1> USE NodeIsNode DEF IInv, TypeOK, AgentTypeOK
<1>1. AgentInv' /\ shutdown' \in BOOLEAN /\ exited' \in BOOLEAN
  BY PlanStepKeeps DEF PlanStep
<1>2. UNCHANGED <<starting, task, step, iface, doubtful, provisioned, todo, workers>>
  BY DEF LogoffUser, loopVars, linkVars
<1>3. step[p] = "logoff" /\ ip \in pending[p]
  BY DEF LogoffUser, Users
<1>4. ip \in iface
  BY <1>3 DEF Users
<1>5. /\ pending' = [pending EXCEPT ![p] = @ \ {ip}]
      /\ login' = [login EXCEPT ![p][ip] = "out"]
  BY <1>4 DEF LogoffUser
<1>6. \A q \in Plans : \A i \in Ips :
         login'[q][i] = IF q = p /\ i = ip THEN "out" ELSE login[q][i]
  BY <1>5
<1>7. \A q \in Plans : pending'[q] = IF q = p THEN pending[p] \ {ip} ELSE pending[q]
  BY <1>5
<1>8. login' \in [Plans -> [Ips -> Login]]
  BY <1>5 DEF Login
<1>9. TypeOK'
  BY <1>1, <1>2, <1>5, <1>8 DEF AgentInv
<1>10. OneAtATime'
  BY <1>2, SameLive
<1>11. Phases' /\ Links'
  BY <1>2 DEF Phases, Links
<1>12. Users'
  <2>1. \A q \in Plans : step[q] = "logoff" => pending'[q] = {i \in Ips : login'[q][i] = "in"}
    BY <1>6, <1>7 DEF Users
  <2>2. \A q \in Plans : step[q] \notin {"auth", "logoff"} => pending'[q] = {}
    BY <1>3, <1>7 DEF Users
  <2>3. \A q \in Plans : \A i \in Ips :
           /\ login'[q][i] # "lost"
           /\ login'[q][i] = "in" =>
                step[q] \in {"auth", "running", "cancel", "logoff"} /\ i \in iface
    BY SMTT(30), <1>6 DEF Users
  <2> QED
    BY <1>2, <2>1, <2>2, <2>3 DEF Users
<1>20. Accounted'
  BY <1>2, AccountedKept DEF WillRemove
<1> QED
  BY <1>1, <1>9, <1>10, <1>11, <1>12, <1>20

LEMMA StartUnaliasInvariant ==
  ASSUME IInv, NEW p \in Plans, StartUnalias(p)
  PROVE  IInv'
<1> USE NodeIsNode DEF IInv, TypeOK, AgentTypeOK
<1>1. AgentInv' /\ shutdown' \in BOOLEAN /\ exited' \in BOOLEAN
  BY PlanStepKeeps DEF PlanStep
<1>2. UNCHANGED <<starting, task, iface, doubtful, provisioned, pending, login, workers>>
  BY DEF StartUnalias, loopVars, userVars
<1>3. step[p] = "logoff" /\ pending[p] = {}
  BY DEF StartUnalias, In
<1>4. task[Node][p] = "teardown"
  BY <1>3 DEF Phases
<1>5. step' = [step EXCEPT ![p] = "unalias"] /\ todo' = [todo EXCEPT ![p] = provisioned[p]]
  BY DEF StartUnalias, Goto
<1>6. \A q \in Plans : step'[q] = IF q = p THEN "unalias" ELSE step[q]
  BY <1>5
<1>7. \A q \in Plans : q # p => todo'[q] = todo[q]
  BY <1>5
<1>8. TypeOK'
  BY <1>1, <1>2, <1>5 DEF AgentInv
<1>9. OneAtATime'
  BY <1>2, SameLive
<1>10. Phases'
  BY <1>2, <1>4, <1>6 DEF Phases
<1>11. Links'
  <2>2. \A q \in Plans :
          /\ step'[q] = "none" => provisioned[q] = {}
          /\ step'[q] = "provision" => provisioned[q] \cap todo'[q] = {}
          /\ step'[q] \notin {"provision", "unalias"} => todo'[q] = {}
    BY <1>6, <1>7 DEF Links
  <2>3. \A q \in Plans :
          /\ step'[q] = "unalias" /\ todo'[q] # {} => task[Node][q] = "teardown"
          /\ step'[q] # "unalias" => provisioned[q] \subseteq iface
    BY <1>4, <1>6, <1>7 DEF Links
  <2> QED
    BY <1>2, <2>2, <2>3 DEF Links
<1>12. Users'
  <2>1. \A i \in Ips : login[p][i] # "in"
    BY <1>3 DEF Users
  <2>2. \A q \in Plans : step'[q] = "logoff" => pending[q] = {i \in Ips : login[q][i] = "in"}
    BY <1>6 DEF Users
  <2>3. \A q \in Plans : step'[q] \notin {"auth", "logoff"} => pending[q] = {}
    BY <1>3, <1>6 DEF Users
  <2>4. \A q \in Plans : \A i \in Ips :
           /\ login[q][i] # "lost"
           /\ login[q][i] = "in" =>
                step'[q] \in {"auth", "running", "cancel", "logoff"} /\ i \in iface
    BY <1>6, <2>1 DEF Users
  <2>5. \A q \in Plans : q \in workers => step'[q] = "running"
    BY <1>3, <1>6 DEF Users
  <2> QED
    BY <1>2, <2>2, <2>3, <2>4, <2>5 DEF Users
<1>20. Accounted'
  BY <1>2, <1>5, <1>6, <1>7, AccountedKept DEF WillRemove
<1> QED
  BY <1>1, <1>8, <1>9, <1>10, <1>11, <1>12, <1>20

\* While one plan removes its aliases no other uses the interface: its workers
\* run no more, its users are logged off.
LEMMA RemoveAliasInvariant ==
  ASSUME IInv, NEW p \in Plans, NEW ip \in Ips, RemoveAlias(p, ip)
  PROVE  IInv'
<1> USE NodeIsNode DEF IInv, TypeOK, AgentTypeOK
<1>1. AgentInv' /\ shutdown' \in BOOLEAN /\ exited' \in BOOLEAN
  BY PlanStepKeeps DEF PlanStep
<1>2. UNCHANGED <<starting, task, step, pending, login, workers>>
  BY DEF RemoveAlias, loopVars, userVars
<1>3. step[p] = "unalias" /\ ip \in todo[p]
  BY DEF RemoveAlias
<1>4. task[Node][p] = "teardown"
  BY <1>3 DEF Links
<1>5. \A q \in Plans : q # p => step[q] \in {"none", "unalias"}
  <2> SUFFICES ASSUME NEW q \in Plans, q # p PROVE step[q] \in {"none", "unalias"}
    OBVIOUS
  <2>1. task[Node][q] \in {"none", "done"}
    BY <1>4 DEF OneAtATime, Live
  <2>2. step[q] \notin {"provision", "auth", "running", "cancel", "logoff"}
    BY <2>1 DEF Phases
  <2> QED
    BY <2>2
<1>6. todo' \in [Plans -> SUBSET Ips]
  BY DEF RemoveAlias
<1>7. \A q \in Plans : todo'[q] = IF q = p THEN todo[p] \ {ip} ELSE todo[q]
  BY DEF RemoveAlias
<1>8. /\ iface' \in SUBSET Ips
      /\ provisioned' \in [Plans -> SUBSET Ips]
      /\ iface' \subseteq iface
      /\ \A q \in Plans : q # p => provisioned'[q] = provisioned[q]
      /\ \A x \in iface' : x # ip /\ x \in provisioned[p] => x \in provisioned'[p]
      /\ ip \in iface' => ip \in doubtful'
      /\ doubtful \ {ip} \subseteq doubtful' /\ doubtful' \in SUBSET Ips
  <2>1. CASE /\ iface' = iface \ {ip}
             /\ provisioned' = [provisioned EXCEPT ![p] = @ \ {ip}]
             /\ doubtful' = doubtful \ {ip}
    <3>1. \A q \in Plans : provisioned'[q] = IF q = p THEN provisioned[p] \ {ip}
                                                  ELSE provisioned[q]
      BY <2>1
    <3>2. provisioned' \in [Plans -> SUBSET Ips]
      BY <2>1
    <3> QED
      BY <2>1, <3>1, <3>2
  <2>2. CASE /\ iface' \in {iface, iface \ {ip}}
             /\ doubtful' = doubtful \cup {ip}
             /\ UNCHANGED provisioned
    BY <2>2
  <2> QED
    BY <2>1, <2>2 DEF RemoveAlias
<1>9. TypeOK'
  BY <1>1, <1>2, <1>6, <1>8 DEF AgentInv
<1>10. OneAtATime'
  BY <1>2, SameLive
<1>11. Phases'
  BY <1>2 DEF Phases
<1>12. Links'
  <2>2. \A q \in Plans :
          /\ step[q] = "none" => provisioned'[q] = {} /\ todo'[q] = {}
          /\ step[q] = "unalias" /\ todo'[q] # {} => task[Node][q] = "teardown"
    BY <1>3, <1>7, <1>8 DEF Links
  <2>3. \A q \in Plans : step[q] \in {"none", "unalias"}
    BY <1>3, <1>5
  <2> QED
    BY <1>2, <2>2, <2>3 DEF Links
<1>13. Users'
  <2>1. \A q \in Plans : \A i \in Ips : login[q][i] # "in"
    BY <1>3, <1>5 DEF Users
  <2> QED
    BY <1>2, <2>1 DEF Users
<1>14. Accounted'
  <2> SUFFICES ASSUME NEW x \in iface'
               PROVE  x \in doubtful' \/ \E q \in Plans : WillRemove(q, x)'
    BY DEF Accounted
  <2>1. CASE x = ip
    BY <1>8, <2>1
  <2>2. CASE x # ip
    <3>1. x \in doubtful \/ \E q \in Plans : WillRemove(q, x)
      BY <1>8, <2>2 DEF Accounted
    <3>2. \A q \in Plans : WillRemove(q, x) => WillRemove(q, x)'
      BY <1>2, <1>7, <1>8, <2>2 DEF WillRemove
    <3> QED
      BY <1>8, <2>2, <3>1, <3>2
  <2> QED
    BY <2>1, <2>2
<1> QED
  BY <1>1, <1>9, <1>10, <1>11, <1>12, <1>13, <1>14

LEMMA FinishTeardownInvariant ==
  ASSUME IInv, NEW p \in Plans, FinishTeardown(p)
  PROVE  IInv'
<1> USE NodeIsNode DEF IInv, TypeOK, AgentTypeOK
<1>1. AgentInv' /\ shutdown' \in BOOLEAN /\ exited' \in BOOLEAN
  BY PlanStepKeeps DEF PlanStep
<1>2. /\ task[Node][p] = "teardown"
      /\ \A q \in Plans : task'[Node][q] = IF q = p THEN "closing" ELSE task[Node][q]
  BY DEF FinishTeardown, TornDown, Move
<1>3. UNCHANGED <<starting, step, iface, doubtful, provisioned, todo, pending, login, workers>>
  BY DEF FinishTeardown, TornDown, linkVars, userVars
<1>4. step[p] = "unalias" /\ todo[p] = {}
  BY DEF FinishTeardown, In
<1>5. TypeOK'
  BY <1>1, <1>3 DEF AgentInv
<1>6. OneAtATime'
  BY <1>2, <1>3, SameLive DEF Live
<1>7. Phases'
  BY <1>2, <1>3, <1>4 DEF Phases
<1>8. Links'
  <2>1. \A q \in Plans : step[q] = "unalias" /\ todo[q] # {} => task'[Node][q] = "teardown"
    BY <1>2, <1>4 DEF Links
  <2> QED
    BY <1>3, <2>1 DEF Links
<1>9. Users'
  BY <1>3 DEF Users
<1>20. Accounted'
  BY <1>3, AccountedKept DEF WillRemove
<1> QED
  BY <1>1, <1>5, <1>6, <1>7, <1>8, <1>9, <1>20

-----------------------------------------------------------------------------
(* The properties *)

LEMMA NextInvariant ==
  ASSUME ~Overlap, IInv, [Next]_vars
  PROVE  IInv'
<1>1. CASE LoopStep
  BY <1>1, LoopInvariant
<1>2. ASSUME NEW p \in Plans, PlanStep(p) PROVE IInv'
  BY <1>2, BeginPlanInvariant, FailPlanInvariant, AddAliasInvariant, StartAuthInvariant,
     AuthUserInvariant, StartWorkersInvariant, CancelWorkersInvariant, StartLogoffInvariant,
     LogoffUserInvariant, StartUnaliasInvariant, RemoveAliasInvariant,
     FinishTeardownInvariant DEF PlanStep
<1>3. CASE Shutdown \/ Exit
  BY <1>3, EndOfProcessInvariant
<1>4. CASE UNCHANGED vars
  <2>1. /\ UNCHANGED <<loopVars, step, linkVars, userVars>>
        /\ UNCHANGED <<workers, procVars>>
    BY <1>4 DEF vars
  <2>2. AgentInv'
    BY <1>4, StepImplementsAgentLoop, AgentNextInvariant DEF IInv
  <2>3. OneAtATime'
    BY <2>1, SameTasks
  <2>4. \A p \in Plans : task'[Node][p] = task[Node][p]
    BY <2>1 DEF loopVars
  <2>5. workers' \subseteq workers /\ shutdown' \in BOOLEAN /\ exited' \in BOOLEAN
    BY <2>1 DEF procVars, IInv, TypeOK
  <2> QED
    BY <2>1, <2>2, <2>3, <2>4, <2>5, QuietInvariant
<1> QED
  BY <1>1, <1>2, <1>3, <1>4 DEF Next

LEMMA ExecutorInvariant == ~Overlap => (Spec => []IInv)
<1> SUFFICES ASSUME ~Overlap PROVE Spec => []IInv
  OBVIOUS
<1>1. Init => IInv
  BY InitInvariant
<1>2. IInv /\ [Next]_vars => IInv'
  BY NextInvariant
<1> QED
  BY <1>1, <1>2, PTL DEF Spec

\* While the workers of a plan run, the addresses they bind to are there: no
\* plan's teardown takes away what another provisioned.
THEOREM WorkersHaveTheirAliases == ~Overlap => (Spec => []AliasesUp)
<1>1. IInv => AliasesUp
  BY DEF IInv, TypeOK, Users, Links, AliasesUp
<1> QED
  BY <1>1, ExecutorInvariant, PTL

\* Every user that was logged on is logged off from its own address.
THEOREM UsersLeaveBeforeAliases == ~Overlap => (Spec => []LogoffBeforeUnalias)
<1>1. IInv => LogoffBeforeUnalias
  BY DEF IInv, Users, LogoffBeforeUnalias
<1> QED
  BY <1>1, ExecutorInvariant, PTL

\* However a plan ended, it leaves behind no worker and no user that is logged on,
\* and only aliases for which the last `ip addr` command was reported as failed.
THEOREM PlansLeaveNothing == ~Overlap => (Spec => []CleanAfterPlans)
<1>1. IInv => CleanAfterPlans
  <2> SUFFICES ASSUME IInv, NoTask(Node) PROVE CleanAfterPlans
    BY DEF CleanAfterPlans
  <2>1. \A p \in Plans : step[p] \in {"none", "unalias"}
    BY DEF IInv, TypeOK, NoTask, Phases
  <2> QED
    <3>1. ASSUME NEW ip \in iface PROVE ip \in doubtful
      <4>1. ASSUME NEW p \in Plans PROVE ~WillRemove(p, ip)
        BY <2>1 DEF IInv, Links, NoTask, WillRemove
      <4> QED
        BY <4>1 DEF IInv, Accounted
    <3> QED
      BY <2>1, <3>1 DEF IInv, TypeOK, Users, CleanAfterPlans
<1> QED
  BY <1>1, ExecutorInvariant, PTL
=============================================================================
