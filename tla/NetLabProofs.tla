---------------------------- MODULE NetLabProofs ----------------------------
(***************************************************************************)
(* Theorems about NetLab, for any number of agents, connections, sessions, *)
(* lost connections and restarts of the controller.                        *)
(*                                                                         *)
(* Its parts are Controller and AgentLoop: every step of the network is a  *)
(* step of theirs or a restart, so what was proved of them carries over.   *)
(* What the parts do not have alone is that the agents are told in order,  *)
(* and answer in order.  ExecutorsAreKnown rests on KnownInv, that every   *)
(* trace of a plan, from the create request to the agent's task, is of the *)
(* newest session; NoGhostNodes on OwnInv, that a REGISTER is the first    *)
(* message of its connection; StatusesSettle on SettledInv, that an agent  *)
(* which has no PLAN_STOPPED left to send has one on its way behind        *)
(* everything that makes it RUNNING or puts it in ERROR.                   *)
(***************************************************************************)
EXTENDS NetLab, SequenceTheorems, TLAPS

-----------------------------------------------------------------------------
(* Types, and the agents as AgentLoop has them *)

UpMsgs ==
    [type : {"REGISTER"}, arg : Nodes] \cup
    [type : {"PONG", "PLAN_STARTED", "PLAN_STOPPED", "ERROR", "SNAPSHOT"},
     arg : A!Plans \cup {NoPlan}]
DownMsgs ==
    [type : {"RUN_PLAN"}, arg : A!Plans] \cup
    [type : {"PING", "STOP_PLAN"}, arg : {NoPlan}]

\* The controller's tables of nodes; that an age stays below the silence limit
\* is ControllerProofs' affair.
NodeTables == [Nodes -> [status : C!NodeStatus, age : Nat]]

\* What the proofs need to know of the types.
Typed ==
    /\ nodes \in NodeTables
    /\ created \in 0 .. MaxSessions
    /\ conns \in [Nodes -> Ws \cup {NoWs}]
    /\ wsNode \in [Ws -> Nodes \cup {NoNode}]
    /\ open \in SUBSET Ws
    /\ dispatch \in [SessionIds -> SUBSET Nodes]
    /\ link \in [Nodes -> Ws \cup {NoWs}]
    /\ up \in [Ws -> Seq(UpMsgs)]
    /\ down \in [Ws -> Seq(DownMsgs)]
    /\ faults \in [{"drops", "restarts"} -> Nat]

LEMMA MaxIsNat == MaxSessions \in Nat
  BY NetAssumption

\* The store methods return well-typed node tables.
LEMMA NodeTablesTyped ==
    ASSUME NEW ns \in NodeTables, NEW st \in C!NodeStatus
    PROVE  /\ \A N : C!WithStatus(ns, N, st) \in NodeTables
           /\ \A n \in Nodes : /\ [ns EXCEPT ![n] = C!Seen(st)] \in NodeTables
                               /\ C!Touched(ns, n) \in NodeTables
                               /\ C!Removed(ns, n) \in NodeTables
                               /\ C!Registered(ns, n) \in NodeTables
<1> USE DEF NodeTables, C!NodeStatus, C!Seen
<1>1. \A N : C!WithStatus(ns, N, st) \in NodeTables
  BY DEF C!WithStatus, C!Known
<1>2. ASSUME NEW n \in Nodes, NEW x \in C!NodeStatus PROVE [ns EXCEPT ![n] = C!Seen(x)] \in NodeTables
  OBVIOUS
<1>3. ASSUME NEW n \in Nodes PROVE C!Touched(ns, n) \in NodeTables
  BY DEF C!Touched, C!Known
<1> QED
  BY <1>1, <1>2, <1>3 DEF C!Removed, C!Registered, C!NoNodeState

LEMMA StatusesAre ==
    /\ "absent" \in C!NodeStatus /\ "connected" \in C!NodeStatus
    /\ "running" \in C!NodeStatus /\ "error" \in C!NodeStatus /\ "offline" \in C!NodeStatus
  BY DEF C!NodeStatus

LEMMA AgentInitTyped == A!AgentInit => A!AgentTypeOK
  BY DEF A!AgentInit, A!AgentTypeOK, A!TaskState

\* The steps of the loops are well typed.
LEMMA AgentStepTyped ==
    ASSUME A!AgentTypeOK, [A!AgentNext]_(A!agentVars) PROVE A!AgentTypeOK'
<1> USE DEF A!AgentTypeOK
<1>1. ASSUME NEW n \in Nodes, NEW p \in A!Plans, A!OnRunPlan(n, p) PROVE A!AgentTypeOK'
  BY <1>1 DEF A!OnRunPlan
<1>2. ASSUME NEW n \in Nodes, NEW e \in A!Plans, A!SetStop(n, e),
             starting' \in [Nodes -> A!Plans \cup {A!NoPlan}],
             executor' \in [Nodes -> A!Plans \cup {A!NoPlan}], UNCHANGED bound
      PROVE A!AgentTypeOK'
  BY <1>2 DEF A!SetStop, A!TaskState
<1>3. ASSUME NEW n \in Nodes, A!StartTask(n) PROVE A!AgentTypeOK'
  BY <1>3 DEF A!StartTask, A!LoopIdle, A!TaskState
<1>4. ASSUME NEW n \in Nodes, A!OnStopPlan(n) PROVE A!AgentTypeOK'
  BY <1>4, <1>2 DEF A!OnStopPlan
<1>5. ASSUME NEW n \in Nodes, A!OnShutdown(n) PROVE A!AgentTypeOK'
  BY <1>5, <1>2 DEF A!OnShutdown
<1>8. ASSUME NEW n \in Nodes, NEW p \in A!Plans, NEW from, NEW to \in A!TaskState,
             A!Move(n, p, from, to)
      PROVE  task' \in [Nodes -> [A!Plans -> A!TaskState]]
  BY <1>8 DEF A!Move
<1>6. ASSUME NEW n \in Nodes, NEW p \in A!Plans, A!TaskStep(n, p) PROVE A!AgentTypeOK'
  <2>1. CASE A!BeginRun(n, p)
    <3>1. "setup" \in A!TaskState /\ "failed" \in A!TaskState
      BY DEF A!TaskState
    <3>2. task' \in [Nodes -> [A!Plans -> A!TaskState]]
      BY <1>8, <2>1, <3>1, Zenon DEF A!BeginRun
    <3>3. CASE executor[n] = A!NoPlan
      BY <2>1, <3>2, <3>3 DEF A!BeginRun
    <3>4. CASE executor[n] # A!NoPlan
      <4>1. executor[n] \in A!Plans
        BY <3>4
      <4>2. /\ bound' = [bound EXCEPT ![n][p] = executor[n]]
            /\ stopSet' = [stopSet EXCEPT ![n][executor[n]] = FALSE]
            /\ UNCHANGED <<starting, executor>>
        BY <2>1, <3>4 DEF A!BeginRun
      <4> QED  BY <3>2, <4>1, <4>2
    <3> QED  BY <3>3, <3>4
  <2>2. CASE A!SetupDone(n, p)
    BY <2>2 DEF A!SetupDone, A!Move, A!TaskState
  <2>3. CASE A!Elapse(n, p)
    <3>1. CASE bound[n][p] \in A!Plans
      BY <2>3, <3>1, <1>2 DEF A!Elapse
    <3>2. CASE bound[n][p] = A!NoPlan
      BY <2>3, <3>2 DEF A!Elapse, A!SetStop, A!TaskState
    <3> QED  BY <3>1, <3>2
  <2>4. CASE A!SetupFails(n, p) \/ A!TornDown(n, p) \/ A!ReportError(n, p)
             \/ A!ReportStopped(n, p) \/ A!ClearExecutor(n, p)
    <3>1. {"failed", "closing", "clearing", "done"} \subseteq A!TaskState
      BY DEF A!TaskState
    <3>2. task' \in [Nodes -> [A!Plans -> A!TaskState]]
      BY <1>8, <2>4, <3>1 DEF A!SetupFails, A!TornDown, A!ReportError, A!ReportStopped,
                              A!ClearExecutor
    <3> QED
      BY <2>4, <3>2 DEF A!SetupFails, A!TornDown, A!ReportError, A!ReportStopped,
                        A!ClearExecutor
  <2> QED
    BY <1>6, <2>1, <2>2, <2>3, <2>4 DEF A!TaskStep
<1>7. CASE UNCHANGED A!agentVars
  BY <1>7 DEF A!agentVars
<1> QED
  BY <1>1, <1>3, <1>4, <1>5, <1>6, <1>7 DEF A!AgentNext

\* What an agent sends, and what is sent to one, are messages.
LEMMA SendsTyped ==
    ASSUME Typed, NEW n \in Nodes, NEW m \in UpMsgs, AgentSends(n, m)
    PROVE  up' \in [Ws -> Seq(UpMsgs)]
  BY DEF AgentSends, Typed

LEMMA ToAgentTyped ==
    ASSUME Typed, NEW n \in Nodes, NEW m \in DownMsgs
    PROVE  ToAgent(n, m) \in [Ws -> Seq(DownMsgs)]
  BY DEF ToAgent, Reaches, Typed

\* The constant messages.
LEMMA MessagesTyped ==
    /\ \A p \in A!Plans \cup {NoPlan} : \A t \in {"PONG", "PLAN_STARTED", "PLAN_STOPPED", "ERROR", "SNAPSHOT"} :
           Msg(t, p) \in UpMsgs
    /\ \A n \in Nodes : Msg("REGISTER", n) \in UpMsgs
    /\ \A p \in A!Plans : Msg("RUN_PLAN", p) \in DownMsgs
    /\ Msg("PING", NoPlan) \in DownMsgs /\ Msg("STOP_PLAN", NoPlan) \in DownMsgs
  BY DEF Msg, UpMsgs, DownMsgs

\* Only an agent's own steps change the state of a loop.
LEMMA OtherSteps ==
    ASSUME [Next]_vars
    PROVE  \/ UNCHANGED agentVars
           \/ \E n \in Nodes : AgentReceives(n) \/ AgentWorks(n)
<1> USE DEF netVars, agentVars
<1>3. CASE UNCHANGED vars
  BY <1>3 DEF vars
<1>4. ASSUME NEW n \in Nodes, \/ \E w \in Ws : Connect(n, w)
                              \/ Drop(n)
                              \/ \E p \in A!Plans : Snapshot(n, p)
      PROVE  UNCHANGED agentVars
  BY <1>4 DEF Connect, Drop, Snapshot
<1>5. ASSUME NEW w \in Ws, \/ ControllerReceives(w)
                           \/ \E n \in Nodes : ControllerRegisters(w, n)
                           \/ ControllerDisconnects(w)
      PROVE  UNCHANGED agentVars
  BY <1>5 DEF ControllerReceives, ControllerRegisters, ControllerDisconnects
<1>6. ASSUME NEW s \in SessionIds, \/ \E n \in Nodes : SendRunPlan(s, n) \/ SendStopPlan(s, n)
                                   \/ StopReturns(s)
                                   \/ UserStops(s)
      PROVE  UNCHANGED agentVars
  BY <1>6 DEF SendRunPlan, SendStopPlan, StopReturns, UserStops
<1>7. CASE HeartbeatRound \/ UserCreates \/ UserClears \/ Restart
  BY <1>7 DEF HeartbeatRound, UserCreates, UserClears, Restart
<1> QED
  BY <1>3, <1>4, <1>5, <1>6, <1>7 DEF Next

\* Every step of the network is one of the agents' loops or leaves them alone.
LEMMA StepOfAgents ==
    ASSUME Typed, [Next]_vars PROVE [A!AgentNext]_(A!agentVars)
<1> USE DEF A!agentVars, agentVars
<1>1. ASSUME NEW n \in Nodes, AgentReceives(n) PROVE [A!AgentNext]_(A!agentVars)
  <2> DEFINE m == Head(down[link[n]])
  <2>1. m \in DownMsgs
    BY <1>1 DEF AgentReceives, Typed
  <2>2. m.type = "RUN_PLAN" => m.arg \in A!Plans
    BY <2>1 DEF DownMsgs
  <2>3. \/ m.type = "RUN_PLAN" /\ A!OnRunPlan(n, m.arg)
        \/ A!OnStopPlan(n)
        \/ UNCHANGED agentVars
    BY <1>1 DEF AgentReceives
  <2> HIDE DEF m
  <2> QED
    BY <2>2, <2>3 DEF A!AgentNext
<1>2. ASSUME NEW n \in Nodes, AgentWorks(n) PROVE [A!AgentNext]_(A!agentVars)
  BY <1>2 DEF AgentWorks, A!AgentNext, A!TaskStep
<1> QED
  BY <1>1, <1>2, OtherSteps

\* Every step of the network is one of the controller, leaves it alone, or is a
\* restart.
LEMMA StepOfController ==
    ASSUME [Next]_vars PROVE [C!Next \/ Restart]_(C!vars)
<1>1. ASSUME UNCHANGED ctlVars PROVE UNCHANGED C!vars
  BY <1>1 DEF ctlVars, C!vars, C!storeVars, C!ctlVars, C!restVars
<1>2. ASSUME NEW n \in Nodes, NEW w \in Ws, Connect(n, w) PROVE C!Next
  <2>1. C!Handler(w)
    BY <1>2 DEF Connect, C!Handler
  <2> QED
    BY <2>1 DEF C!Next
<1>3. ASSUME NEW n \in Nodes, \/ Drop(n)
                              \/ AgentReceives(n)
                              \/ AgentWorks(n)
                              \/ \E p \in A!Plans : Snapshot(n, p)
      PROVE  UNCHANGED ctlVars
  BY <1>3 DEF Drop, AgentReceives, AgentWorks, Snapshot
<1>4. ASSUME NEW w \in Ws, ControllerReceives(w) PROVE C!Next \/ UNCHANGED ctlVars
  <2>1. \/ C!OnPong(w) \/ C!OnPlanStarted(w) \/ C!OnPlanStopped(w) \/ C!OnError(w)
        \/ UNCHANGED ctlVars
    BY <1>4, Zenon DEF ControllerReceives
  <2> QED
    BY <2>1 DEF C!Next, C!Handler
<1>5. ASSUME NEW w \in Ws, NEW n \in Nodes, ControllerRegisters(w, n) PROVE C!Next
  BY <1>5 DEF ControllerRegisters, C!Next, C!Handler
<1>6. ASSUME NEW w \in Ws, ControllerDisconnects(w) PROVE C!Next
  BY <1>6 DEF ControllerDisconnects, C!Next, C!Handler
<1>7. ASSUME HeartbeatRound PROVE C!Next
  BY <1>7, Zenon DEF HeartbeatRound, C!Next
<1>8. ASSUME NEW s \in SessionIds, \/ \E n \in Nodes : SendRunPlan(s, n) \/ SendStopPlan(s, n)
                                   \/ StopReturns(s)
                                   \/ UserStops(s)
      PROVE  C!Next
  <2>1. C!Request(s)
    BY <1>8 DEF SendRunPlan, SendStopPlan, StopReturns, UserStops, C!Request
  <2> QED
    BY <2>1 DEF C!Next, SessionIds
<1>9. ASSUME UserCreates \/ UserClears PROVE C!Next
  <2>1. (\E u \in {FALSE} : C!CreateSession(u)) \/ C!ClearSessions
    BY <1>9 DEF UserCreates, UserClears
  <2> QED
    BY <2>1, Zenon DEF C!Next
<1>10. ASSUME UNCHANGED vars PROVE UNCHANGED ctlVars
  BY <1>10 DEF vars
<1>11. C!Next \/ Restart \/ UNCHANGED ctlVars
  BY <1>2, <1>3, <1>4, <1>5, <1>6, <1>7, <1>8, <1>9, <1>10 DEF Next
<1> QED
  BY <1>1, <1>11

\* What each part of a step does to the types.
LEMMA TypedStep ==
    ASSUME Typed, [Next]_vars PROVE Typed'
<1> USE NetAssumption DEF Typed, netVars, agentVars, C!storeVars, C!sessionVars, C!ctlVars, C!restVars
<1>1. ASSUME NEW n \in Nodes, NEW w \in Ws, Connect(n, w) PROVE Typed'
  BY <1>1, MessagesTyped DEF Connect, C!Accept
<1>2. ASSUME NEW n \in Nodes, Drop(n) PROVE Typed'
  BY <1>2 DEF Drop, Fault, ctlVars
<1>3. ASSUME NEW n \in Nodes, AgentReceives(n) PROVE Typed'
  <2> DEFINE w == link[n]
             m == Head(down[w])
  <2>1. /\ w \in Ws /\ down[w] # <<>>
        /\ down' = [down EXCEPT ![w] = Tail(@)]
        /\ UNCHANGED <<ctlVars, link, stored, faults>>
    BY <1>3 DEF AgentReceives
  <2>2. down' \in [Ws -> Seq(DownMsgs)]
    BY <2>1
  <2>3. up' \in [Ws -> Seq(UpMsgs)]
    <3>1. m \in DownMsgs /\ (m.type = "RUN_PLAN" => m.arg \in A!Plans)
      BY <2>1 DEF DownMsgs
    <3>2. \/ m.type = "RUN_PLAN" /\ AgentSends(n, Msg("PLAN_STARTED", m.arg))
          \/ AgentSends(n, Msg("PONG", NoPlan))
          \/ AgentSends(n, Msg("PLAN_STOPPED", NoPlan))
          \/ UNCHANGED up
      BY <1>3 DEF AgentReceives
    <3> QED
      BY <3>1, <3>2, MessagesTyped, SendsTyped
  <2> QED
    BY <2>1, <2>2, <2>3 DEF ctlVars
<1>4. ASSUME NEW n \in Nodes, AgentWorks(n) PROVE Typed'
  <2>1. up' \in [Ws -> Seq(UpMsgs)]
    <3>1. \/ UNCHANGED up
          \/ AgentSends(n, Msg("ERROR", NoPlan))
          \/ \E p \in A!Plans : AgentSends(n, Msg("PLAN_STOPPED", p))
      BY <1>4 DEF AgentWorks
    <3> QED
      BY <3>1, MessagesTyped, SendsTyped
  <2> QED
    BY <1>4, <2>1 DEF AgentWorks, ctlVars
<1>5. ASSUME NEW n \in Nodes, NEW p \in A!Plans, Snapshot(n, p) PROVE Typed'
  BY <1>5, MessagesTyped, SendsTyped DEF Snapshot, ctlVars
<1>6. ASSUME NEW w \in Ws, ControllerReceives(w) PROVE Typed'
  <2>1. up' \in [Ws -> Seq(UpMsgs)] /\ UNCHANGED <<link, down, faults>>
    BY <1>6 DEF ControllerReceives
  <2>2. UNCHANGED <<conns, open, wsNode, dispatch, created>>
    BY <1>6 DEF ControllerReceives, C!OnPong, C!OnPlanStarted, C!OnPlanStopped, C!OnError,
                C!StoreStart, C!StoreEnd, ctlVars
  <2>3. nodes' \in NodeTables
    <3> HIDE DEF Typed
    <3>0. nodes \in NodeTables /\ wsNode \in [Ws -> Nodes \cup {NoNode}]
      BY DEF Typed
    <3>1. CASE C!OnPong(w)
      BY <3>0, <3>1, StatusesAre, NodeTablesTyped DEF C!OnPong, C!HasNode
    <3>2. CASE C!OnPlanStarted(w) \/ C!OnError(w)
      <4>1. \/ nodes' = C!WithStatus(nodes, {wsNode[w]}, "running")
            \/ nodes' = C!WithStatus(nodes, {wsNode[w]}, "error")
        BY <3>2 DEF C!OnPlanStarted, C!OnError
      <4> QED
        BY <3>0, <4>1, StatusesAre, NodeTablesTyped
    <3>3. CASE C!OnPlanStopped(w)
      <4> DEFINE ns == C!WithStatus(nodes, {wsNode[w]}, "connected")
      <4>1. ns \in NodeTables
        BY <3>0, StatusesAre, NodeTablesTyped
      <4>2. C!WithStatus(ns, participants[C!ActiveSession], "connected") \in NodeTables
        BY <4>1, StatusesAre, NodeTablesTyped
      <4>3. nodes' \in {ns, C!WithStatus(ns, participants[C!ActiveSession], "connected")}
        BY <3>3 DEF C!OnPlanStopped, C!StoreEnd
      <4> QED
        BY <4>1, <4>2, <4>3
    <3>4. \/ C!OnPong(w) \/ C!OnPlanStarted(w) \/ C!OnPlanStopped(w) \/ C!OnError(w)
          \/ UNCHANGED ctlVars
      BY <1>6, Zenon DEF ControllerReceives
    <3>5. CASE UNCHANGED ctlVars
      BY <3>0, <3>5 DEF ctlVars
    <3> QED
      BY <3>1, <3>2, <3>3, <3>4, <3>5
  <2> QED
    BY <2>1, <2>2, <2>3
<1>7. ASSUME NEW w \in Ws, NEW n \in Nodes, ControllerRegisters(w, n) PROVE Typed'
  <2>1. /\ C!OnRegister(w, n)
        /\ up' = [up EXCEPT ![w] = Tail(@)] /\ up[w] # <<>>
        /\ \/ UNCHANGED down
           \/ down' = [down EXCEPT ![w] = Append(@, Msg("PING", NoPlan))]
        /\ UNCHANGED <<agentVars, link, stored, faults>>
    BY <1>7 DEF ControllerRegisters
  <2>2. nodes' \in NodeTables
    BY <2>1, StatusesAre, NodeTablesTyped DEF C!OnRegister
  <2>3. up' \in [Ws -> Seq(UpMsgs)] /\ down' \in [Ws -> Seq(DownMsgs)]
    <3>1. Append(down[w], Msg("PING", NoPlan)) \in Seq(DownMsgs)
      BY MessagesTyped
    <3>2. Tail(up[w]) \in Seq(UpMsgs)
      BY <2>1
    <3> HIDE DEF Typed
    <3>3. up \in [Ws -> Seq(UpMsgs)] /\ down \in [Ws -> Seq(DownMsgs)]
      BY DEF Typed
    <3> QED
      BY <2>1, <3>1, <3>2, <3>3
  <2>4. /\ conns' \in [Nodes -> Ws \cup {NoWs}] /\ wsNode' \in [Ws -> Nodes \cup {NoNode}]
        /\ UNCHANGED <<created, dispatch, open>>
    BY <2>1 DEF C!OnRegister
  <2> QED
    BY <2>1, <2>2, <2>3, <2>4
<1>8. ASSUME NEW w \in Ws, ControllerDisconnects(w) PROVE Typed'
  <2>1. /\ C!OnDisconnect(w)
        /\ up' = [up EXCEPT ![w] = <<>>] /\ down' = [down EXCEPT ![w] = <<>>]
        /\ UNCHANGED <<agentVars, link, stored, faults>>
    BY <1>8 DEF ControllerDisconnects
  <2>2. nodes' \in NodeTables /\ conns' \in [Nodes -> Ws \cup {NoWs}]
    <3>1. CASE C!HasNode(w)
      <4>1. wsNode[w] \in Nodes
        BY <3>1 DEF C!HasNode
      <4>2. C!Removed(nodes, wsNode[w]) \in NodeTables
        BY <4>1, StatusesAre, NodeTablesTyped
      <4>3. [conns EXCEPT ![wsNode[w]] = NoWs] \in [Nodes -> Ws \cup {NoWs}]
        BY <4>1
      <4>4. \/ /\ nodes' = C!Removed(nodes, wsNode[w])
               /\ conns' = [conns EXCEPT ![wsNode[w]] = NoWs]
            \/ UNCHANGED <<nodes, conns>>
        BY <2>1 DEF C!OnDisconnect
      <4> QED
        BY <4>2, <4>3, <4>4
    <3>2. CASE ~C!HasNode(w)
      BY <2>1, <3>2 DEF C!OnDisconnect
    <3> QED
      BY <3>1, <3>2
  <2>3. UNCHANGED <<created, dispatch, wsNode>> /\ open' \in SUBSET Ws
    BY <2>1 DEF C!OnDisconnect
  <2>4. up' \in [Ws -> Seq(UpMsgs)] /\ down' \in [Ws -> Seq(DownMsgs)]
    BY <2>1
  <2> QED
    BY <2>1, <2>2, <2>3, <2>4
<1>9. CASE HeartbeatRound
  <2>1. nodes' \in NodeTables
    <3> SUFFICES ASSUME NEW n \in Nodes PROVE nodes'[n] \in [status : C!NodeStatus, age : Nat]
      BY <1>9 DEF HeartbeatRound, C!Heartbeat, NodeTables
    <3>1. nodes[n] \in [status : C!NodeStatus, age : Nat]
      BY DEF NodeTables
    <3>2. \/ nodes'[n] = nodes[n]
          \/ nodes'[n] = C!Seen("offline")
          \/ nodes'[n] = [status |-> nodes[n].status, age |-> nodes[n].age + 1]
      BY <1>9, Zenon DEF HeartbeatRound, C!Heartbeat
    <3> QED
      BY <3>1, <3>2 DEF C!Seen, C!NodeStatus
  <2> QED
    BY <1>9, <2>1 DEF HeartbeatRound, C!Heartbeat
<1>10. ASSUME NEW s \in SessionIds, NEW n \in Nodes, SendRunPlan(s, n) PROVE Typed'
  <2>1. s \in A!Plans
    BY DEF C!SessionIds, SessionIds, A!Plans
  <2> QED
    BY <1>10, <2>1, MessagesTyped, ToAgentTyped DEF SendRunPlan, C!Dispatch
<1>11. ASSUME NEW s \in SessionIds, NEW n \in Nodes, SendStopPlan(s, n) PROVE Typed'
  BY <1>11, MessagesTyped, ToAgentTyped DEF SendStopPlan, C!Broadcast
<1>12. ASSUME NEW s \in SessionIds, StopReturns(s) PROVE Typed'
  BY <1>12 DEF StopReturns, C!FinishStop
<1>13. ASSUME NEW s \in SessionIds, UserStops(s) PROVE Typed'
  BY <1>13, StatusesAre, NodeTablesTyped DEF UserStops, C!StopSession, C!StoreEnd
<1>14. CASE UserCreates
  <2>1. created + 1 \in SessionIds /\ created' \in 0 .. MaxSessions
    BY <1>14 DEF UserCreates, C!CreateSession, C!StoreCreate, C!SessionIds, SessionIds
  <2> QED
    BY <1>14, <2>1 DEF UserCreates, C!CreateSession, C!StoreCreate, C!IdleNodes
<1>15. CASE UserClears
  BY <1>15 DEF UserClears, C!ClearSessions, C!StoreClear
<1>16. CASE Restart
  <2>1. nodes' \in NodeTables
    BY <1>16 DEF Restart, NodeTables, C!NoNodeState, C!Seen, C!NodeStatus
  <2> QED
    BY <1>16, <2>1 DEF Restart, Fault
<1>17. CASE UNCHANGED vars
  BY <1>17 DEF vars, ctlVars
<1> QED
  BY <1>1, <1>2, <1>3, <1>4, <1>5, <1>6, <1>7, <1>8, <1>9, <1>10, <1>11, <1>12,
     <1>13, <1>14, <1>15, <1>16, <1>17 DEF Next

-----------------------------------------------------------------------------
(* The executor to stop is known *)

\* The only RUN_PLAN there can be is that of the newest session.
CurrentMsgs == {m \in DownMsgs : m.type = "RUN_PLAN" => m.arg = created}

\* The only plan an agent can be busy with is that of the newest session: the
\* executor is its executor, and is forgotten only when it was told to stop or its
\* task is over.
AgentsCurrent ==
    \A n \in Nodes :
        /\ starting[n] \in {NoPlan, created}
        /\ executor[n] \in {NoPlan, created}
        /\ executor[n] # NoPlan => task[n][created] \notin {"none", "done"}
        /\ \A p \in A!Plans : task[n][p] \notin {"none", "done"} => p = created
        /\ \A p \in A!Plans : A!Active(n, p) =>
              bound[n][p] = p /\ (~stopSet[n][p] => executor[n] = p)

KnownInv ==
    /\ \A s \in SessionIds : dispatch[s] # {} => s = created
    /\ down \in [Ws -> Seq(CurrentMsgs)]
    /\ AgentsCurrent

\* While no session is created, the agents' loops keep to the newest plan.
LEMMA AgentsStayCurrent ==
    ASSUME Typed, A!AgentTypeOK, AgentsCurrent, UNCHANGED created, NEW n \in Nodes,
           \/ A!OnRunPlan(n, created)
           \/ A!OnStopPlan(n)
           \/ A!StartTask(n)
           \/ \E p \in A!Plans : A!TaskStep(n, p)
    PROVE  AgentsCurrent'
<1> USE DEF A!AgentTypeOK, AgentsCurrent, A!Active, NoPlan
<1>0. A!NoPlan \notin A!Plans
  BY DEF A!NoPlan, A!Plans
<1>1. CASE A!OnRunPlan(n, created)
  BY <1>1 DEF A!OnRunPlan
<1>2. CASE A!OnStopPlan(n)
  <2>1. executor[n] = created /\ created \in A!Plans
    BY <1>2, <1>0 DEF A!OnStopPlan
  <2>2. /\ executor' = [executor EXCEPT ![n] = A!NoPlan]
        /\ stopSet' = [stopSet EXCEPT ![n][created] = TRUE]
        /\ task' = [task EXCEPT ![n] = [p \in A!Plans |->
                      IF task[n][p] = "waiting" /\ bound[n][p] = created
                      THEN "teardown" ELSE task[n][p]]]
        /\ UNCHANGED <<starting, bound>>
    BY <1>2, <2>1 DEF A!OnStopPlan, A!SetStop
  <2> QED
    BY <2>1, <2>2
<1>3. CASE A!StartTask(n)
  BY <1>3, <1>0 DEF A!StartTask, A!LoopIdle
<1>4. ASSUME NEW p \in A!Plans, A!TaskStep(n, p) PROVE AgentsCurrent'
  <2>1. CASE A!BeginRun(n, p)
    <3>1. p = created /\ task[n][p] = "ready"
      BY <2>1 DEF A!BeginRun, A!Move
    <3>2. CASE executor[n] = A!NoPlan
      BY <1>0, <2>1, <3>1, <3>2 DEF A!BeginRun, A!Move
    <3>3. CASE executor[n] # A!NoPlan
      <4>1. executor[n] = p
        BY <3>1, <3>3
      <4>2. /\ task' = [task EXCEPT ![n][p] = "setup"]
            /\ bound' = [bound EXCEPT ![n][p] = p]
            /\ stopSet' = [stopSet EXCEPT ![n][p] = FALSE]
            /\ UNCHANGED <<starting, executor>>
        BY <2>1, <4>1, <3>3 DEF A!BeginRun, A!Move
      <4> QED
        BY <1>0, <3>1, <4>1, <4>2
    <3> QED
      BY <3>2, <3>3
  <2>2. CASE A!SetupDone(n, p)
    BY <1>0, <2>2 DEF A!SetupDone, A!Move
  <2>3. CASE A!Elapse(n, p)
    BY <1>0, <2>3 DEF A!Elapse, A!SetStop
  <2>4. CASE A!SetupFails(n, p)
    BY <1>0, <2>4 DEF A!SetupFails, A!Move
  <2>5. CASE A!TornDown(n, p)
    BY <1>0, <2>5 DEF A!TornDown, A!Move
  <2>6. CASE A!ReportError(n, p)
    BY <1>0, <2>6 DEF A!ReportError, A!Move
  <2>7. CASE A!ReportStopped(n, p)
    BY <1>0, <2>7 DEF A!ReportStopped, A!Move
  <2>8. CASE A!ClearExecutor(n, p)
    <3>1. p = created /\ task[n][p] = "clearing"
      BY <2>8 DEF A!ClearExecutor, A!Move
    <3>2. /\ task' = [task EXCEPT ![n][p] = "done"]
          /\ executor' = [executor EXCEPT ![n] = A!NoPlan]
          /\ UNCHANGED <<starting, bound, stopSet>>
      BY <2>8 DEF A!ClearExecutor, A!Move
    <3>3. \A q \in A!Plans : task'[n][q] \notin {"none", "done"} => FALSE
      BY <3>1, <3>2
    <3>4. \A m \in Nodes : m # n =>
             task'[m] = task[m] /\ executor'[m] = executor[m]
      BY <3>2
    <3> QED
      BY <1>0, <3>2, <3>3, <3>4
  <2> QED
    BY <1>4, <2>1, <2>2, <2>3, <2>4, <2>5, <2>6, <2>7, <2>8 DEF A!TaskStep
<1> QED
  BY <1>1, <1>2, <1>3, <1>4

\* Where no session is created, no RUN_PLAN but one of the newest session is sent.
LEMMA MessagesStayCurrent ==
    ASSUME Typed, KnownInv, [Next]_vars, ~UserCreates
    PROVE  /\ created' = created
           /\ down' \in [Ws -> Seq(CurrentMsgs)]
           /\ \A s \in SessionIds : dispatch'[s] # {} => s = created
<1> DEFINE Quiet == UNCHANGED <<created, dispatch, down>>
           Down == [Ws -> Seq(CurrentMsgs)]
           Goal == /\ created' = created /\ down' \in Down
                   /\ \A s \in SessionIds : dispatch'[s] # {} => s = created
<1>0. /\ down \in Down /\ dispatch \in [SessionIds -> SUBSET Nodes]
      /\ \A s \in SessionIds : dispatch[s] # {} => s = created
  BY DEF KnownInv, Typed
<1>q. ASSUME Quiet PROVE Goal
  BY <1>0, <1>q
<1>m. /\ Msg("PING", NoPlan) \in CurrentMsgs /\ Msg("STOP_PLAN", NoPlan) \in CurrentMsgs
      /\ created \in A!Plans => Msg("RUN_PLAN", created) \in CurrentMsgs
  BY DEF CurrentMsgs, DownMsgs, Msg
<1>t. ASSUME NEW n \in Nodes, NEW m \in CurrentMsgs PROVE ToAgent(n, m) \in Down
  <2>1. Reaches(n) => conns[n] \in Ws
    BY DEF Reaches, Typed
  <2>2. Reaches(n) => Append(down[conns[n]], m) \in Seq(CurrentMsgs)
    BY <1>0, <2>1
  <2> QED
    BY <1>0, <2>1, <2>2 DEF ToAgent
<1> HIDE DEF Goal, Down, Quiet
<1> USE DEF C!storeVars, C!sessionVars, C!ctlVars, C!restVars, ctlVars, netVars
<1>1. ASSUME NEW n \in Nodes, \/ \E w \in Ws : Connect(n, w)
                              \/ Drop(n)
                              \/ AgentWorks(n)
                              \/ \E p \in A!Plans : Snapshot(n, p)
      PROVE Goal
  <2>1. Quiet
    BY <1>1 DEF Quiet, Connect, Drop, AgentWorks, Snapshot, C!Accept
  <2> QED  BY <2>1, <1>q
<1>2. ASSUME NEW n \in Nodes, AgentReceives(n) PROVE Goal
  <2>1. /\ link[n] \in Ws /\ down[link[n]] # <<>>
        /\ down' = [down EXCEPT ![link[n]] = Tail(@)]
        /\ UNCHANGED <<created, dispatch>>
    BY <1>2 DEF AgentReceives, Typed
  <2>2. Tail(down[link[n]]) \in Seq(CurrentMsgs)
    BY <1>0, <2>1 DEF Down
  <2> QED
    BY <1>0, <2>1, <2>2 DEF Goal, Down
<1>3. ASSUME NEW w \in Ws, ControllerReceives(w) PROVE Goal
  <2>1. Quiet
    BY <1>3 DEF Quiet, ControllerReceives, C!OnPong, C!OnPlanStarted, C!OnPlanStopped, C!OnError,
                C!StoreStart, C!StoreEnd
  <2> QED  BY <2>1, <1>q
<1>4. ASSUME NEW w \in Ws, NEW n \in Nodes, ControllerRegisters(w, n) PROVE Goal
  <2>1. /\ UNCHANGED <<created, dispatch>>
        /\ \/ UNCHANGED down
           \/ down' = [down EXCEPT ![w] = Append(@, Msg("PING", NoPlan))]
    BY <1>4 DEF ControllerRegisters, C!OnRegister
  <2>2. Append(down[w], Msg("PING", NoPlan)) \in Seq(CurrentMsgs)
    BY <1>0, <1>m DEF Down
  <2> QED
    BY <1>0, <2>1, <2>2 DEF Goal, Down
<1>5. ASSUME NEW w \in Ws, ControllerDisconnects(w) PROVE Goal
  BY <1>0, <1>5 DEF ControllerDisconnects, C!OnDisconnect, Goal, Down
<1>6. ASSUME NEW s \in SessionIds, NEW n \in Nodes, SendRunPlan(s, n) PROVE Goal
  <2>1. /\ n \in dispatch[s] /\ UNCHANGED created
        /\ dispatch' = [dispatch EXCEPT ![s] = @ \ {n}]
        /\ down' = ToAgent(n, Msg("RUN_PLAN", s))
    BY <1>6 DEF SendRunPlan, C!Dispatch
  <2>2. s = created /\ s \in A!Plans
    BY <1>0, <2>1 DEF A!Plans, SessionIds, C!SessionIds
  <2>3. down' \in Down
    BY <1>m, <1>t, <2>1, <2>2
  <2> QED
    BY <1>0, <2>1, <2>2, <2>3 DEF Goal
<1>7. ASSUME NEW s \in SessionIds, NEW n \in Nodes, SendStopPlan(s, n) PROVE Goal
  BY <1>0, <1>7, <1>m, <1>t DEF SendStopPlan, C!Broadcast, Goal
<1>8. ASSUME NEW s \in SessionIds, StopReturns(s) \/ UserStops(s) PROVE Goal
  <2>1. Quiet
    BY <1>8 DEF Quiet, StopReturns, UserStops, C!FinishStop, C!StopSession, C!StoreEnd
  <2> QED  BY <2>1, <1>q
<1>9. ASSUME HeartbeatRound \/ UserClears PROVE Goal
  <2>1. Quiet
    BY <1>9 DEF Quiet, HeartbeatRound, UserClears, C!Heartbeat, C!ClearSessions, C!StoreClear
  <2> QED  BY <2>1, <1>q
<1>10. ASSUME Restart PROVE Goal
  BY <1>10 DEF Restart, Goal, Down
<1>11. ASSUME UNCHANGED vars PROVE Goal
  <2>1. Quiet
    BY <1>11 DEF Quiet, vars
  <2> QED  BY <2>1, <1>q
<1>12. Goal
  BY <1>1, <1>2, <1>3, <1>4, <1>5, <1>6, <1>7, <1>8, <1>9, <1>10, <1>11 DEF Next
<1> QED
  BY <1>12 DEF Goal, Down

LEMMA KnownStep ==
    ASSUME ~Overlap, Typed, A!AgentTypeOK, KnownInv, [Next]_vars
    PROVE  KnownInv'
<1>1. CASE UserCreates
  <2>1. /\ \A n \in Nodes : A!LoopIdle(n) /\ A!NoTask(n)
        /\ \A w \in Ws : down[w] = <<>>
        /\ \A s \in SessionIds : dispatch[s] = {}
        /\ created + 1 \in SessionIds
        /\ created' = created + 1
        /\ dispatch' = [dispatch EXCEPT ![created + 1] = C!IdleNodes]
        /\ UNCHANGED <<starting, executor, task, bound, stopSet, down>>
    BY <1>1, NetAssumption DEF UserCreates, Settled, Served, C!CreateSession, C!StoreCreate, agentVars, netVars,
                Typed, SessionIds, C!SessionIds
  <2>2. \A s \in SessionIds : dispatch'[s] # {} => s = created'
    BY <2>1 DEF Typed
  <2>3. down' \in [Ws -> Seq(CurrentMsgs')]
    <3>1. \A w \in Ws : down[w] \in Seq(CurrentMsgs')
      BY <2>1, EmptySeq
    <3> QED
      BY <2>1, <3>1 DEF Typed
  <2>4. AgentsCurrent'
    <3>1. \A n \in Nodes : /\ starting[n] = NoPlan
                           /\ \A p \in A!Plans : task[n][p] \in {"none", "done"}
      BY <2>1 DEF A!LoopIdle, A!NoTask, NoPlan
    <3>2. \A n \in Nodes : executor[n] = NoPlan
      BY <3>1 DEF KnownInv, AgentsCurrent, A!AgentTypeOK, NoPlan
    <3> QED
      BY <2>1, <3>1, <3>2 DEF AgentsCurrent, A!Active
  <2> QED
    BY <2>2, <2>3, <2>4 DEF KnownInv
<1>2. CASE ~UserCreates
  <2>1. /\ created' = created
        /\ down' \in [Ws -> Seq(CurrentMsgs)]
        /\ \A s \in SessionIds : dispatch'[s] # {} => s = created
    BY <1>2, MessagesStayCurrent
  <2>2. CurrentMsgs' = CurrentMsgs
    BY <2>1 DEF CurrentMsgs
  <2>3. AgentsCurrent'
    <3>1. CASE UNCHANGED agentVars
      BY <2>1, <3>1 DEF agentVars, AgentsCurrent, KnownInv, A!Active
    <3>2. ASSUME NEW n \in Nodes, AgentWorks(n) PROVE AgentsCurrent'
      <4>1. A!StartTask(n) \/ \E p \in A!Plans : A!TaskStep(n, p)
        BY <3>2 DEF AgentWorks, A!TaskStep
      <4> QED
        BY <2>1, <4>1, AgentsStayCurrent DEF KnownInv
    <3>3. ASSUME NEW n \in Nodes, AgentReceives(n), ~UNCHANGED agentVars PROVE AgentsCurrent'
      <4> DEFINE m == Head(down[link[n]])
      <4>1. /\ link[n] \in Ws /\ down[link[n]] # <<>>
            /\ \/ m.type = "RUN_PLAN" /\ A!OnRunPlan(n, m.arg)
               \/ A!OnStopPlan(n)
        BY <3>3 DEF AgentReceives, Typed
      <4>2. m \in CurrentMsgs
        BY <4>1 DEF KnownInv
      <4> HIDE DEF m
      <4>3. A!OnRunPlan(n, created) \/ A!OnStopPlan(n)
        BY <4>1, <4>2 DEF CurrentMsgs
      <4> QED
        BY <2>1, <4>3, AgentsStayCurrent DEF KnownInv
    <3>4. \/ UNCHANGED agentVars
          \/ \E n \in Nodes : AgentWorks(n) \/ AgentReceives(n)
      BY OtherSteps
    <3> QED
      BY <3>1, <3>2, <3>3, <3>4
  <2> QED
    BY <2>1, <2>2, <2>3 DEF KnownInv
<1> QED
  BY <1>1, <1>2

LEMMA KnownInit == ASSUME Init PROVE Typed /\ A!AgentTypeOK /\ KnownInv
<1> USE DEF Init, C!Init, C!StoreInit
<1>1. A!AgentTypeOK
  BY AgentInitTyped
<1>2. Typed
  <2>1. nodes \in NodeTables
    BY DEF NodeTables, C!NoNodeState, C!Seen, C!NodeStatus
  <2> QED
    BY <2>1, NetAssumption DEF Typed, SessionIds
<1>3. KnownInv
  BY DEF KnownInv, AgentsCurrent, A!AgentInit, A!Active, SessionIds, NoPlan
<1> QED
  BY <1>1, <1>2, <1>3

LEMMA TypedInvariant == Spec => [](Typed /\ A!AgentTypeOK)
<1>1. Init => Typed /\ A!AgentTypeOK
  BY KnownInit
<1>2. Typed /\ A!AgentTypeOK /\ [Next]_vars => (Typed /\ A!AgentTypeOK)'
  BY TypedStep, StepOfAgents, AgentStepTyped
<1> QED
  BY <1>1, <1>2, PTL DEF Spec

\* The agents of the network are agents as AgentLoop.tla has them, whatever
\* the controller, the user and the connections do: what holds of AgentLoop's
\* behaviours holds of them.
THEOREM AgentsAreAgentLoops == Spec => A!AgentInit /\ [][A!AgentNext]_(A!agentVars)
<1>1. Init => A!AgentInit
  BY DEF Init
<1>2. Typed /\ [Next]_vars => [A!AgentNext]_(A!agentVars)
  BY StepOfAgents
<1> QED
  BY <1>1, <1>2, TypedInvariant, PTL DEF Spec

\* Between two restarts the controller of the network is the controller as
\* Controller.tla has it, whatever its agents send: what holds of Controller's
\* behaviours holds of it.
THEOREM ControllerIsController ==
    Spec => C!Init /\ [][C!Next \/ Restart]_(C!vars)
<1>1. Init => C!Init
  BY DEF Init
<1>2. [Next]_vars => [C!Next \/ Restart]_(C!vars)
  BY StepOfController
<1> QED
  BY <1>1, <1>2, PTL DEF Spec

\* As long as no session is created while an agent is still busy with an older
\* one, an agent that generates traffic and was not told to stop has the executor
\* a STOP_PLAN has to stop, however its connections drop and whenever the
\* controller restarts (agent.py, "Responds to STOP_PLAN and tears down all
\* workers").
THEOREM ExecutorsAreKnown == ~Overlap => (Spec => []ExecutorKnown)
<1> SUFFICES ASSUME ~Overlap PROVE Spec => []ExecutorKnown
  OBVIOUS
<1>1. Init => KnownInv
  BY KnownInit
<1>2. Typed /\ A!AgentTypeOK /\ KnownInv /\ [Next]_vars => KnownInv'
  BY KnownStep
<1>3. A!AgentTypeOK /\ KnownInv => ExecutorKnown
  <2> SUFFICES ASSUME A!AgentTypeOK, KnownInv, NEW n \in Nodes, NEW p \in A!Plans,
                      A!Active(n, p), ~stopSet[n][bound[n][p]]
               PROVE  executor[n] # A!NoPlan
    BY DEF ExecutorKnown, A!ExecutorKnown
  <2>1. executor[n] = p
    BY DEF KnownInv, AgentsCurrent
  <2> QED
    BY <2>1 DEF A!Plans, A!NoPlan
<1> QED
  BY <1>1, <1>2, <1>3, TypedInvariant, PTL DEF Spec

\* Under the same condition an agent runs at most one plan at a time (agent.py:427,
\* "Already running a plan").
THEOREM PlansOneAtATime == ~Overlap => (Spec => []OnePlanAtATime)
<1> SUFFICES ASSUME ~Overlap PROVE Spec => []OnePlanAtATime
  OBVIOUS
<1>1. Init => KnownInv
  BY KnownInit
<1>2. Typed /\ A!AgentTypeOK /\ KnownInv /\ [Next]_vars => KnownInv'
  BY KnownStep
<1>3. KnownInv => OnePlanAtATime
  BY DEF KnownInv, AgentsCurrent, OnePlanAtATime, A!OnePlanAtATime, A!Active
<1> QED
  BY <1>1, <1>2, <1>3, TypedInvariant, PTL DEF Spec

-----------------------------------------------------------------------------
(* No ghosts *)

\* A REGISTER is the first message of its connection, and the handler of a
\* connection on which one is still to be read speaks for no node yet.
RegistersFirst(ms, k) ==
    \A i \in DOMAIN ms : ms[i].type = "REGISTER" => i = 1 /\ k = NoNode

\* Every entry of the registry is the node of the open handler it names.
OwnInv ==
    /\ \A w \in Ws : RegistersFirst(up[w], wsNode[w])
    /\ \A n \in Nodes : conns[n] # NoWs => conns[n] \in open /\ wsNode[conns[n]] = n

\* Reading a message, and sending another one behind it.
LEMMA FirstReads ==
    ASSUME NEW ms \in Seq(UpMsgs), ms # <<>>, NEW k, NEW l, RegistersFirst(ms, k)
    PROVE  RegistersFirst(Tail(ms), l)
<1>1. /\ DOMAIN Tail(ms) = 1 .. Len(ms) - 1 /\ DOMAIN ms = 1 .. Len(ms) /\ Len(ms) \in Nat
      /\ \A i \in 1 .. Len(ms) - 1 : Tail(ms)[i] = ms[i + 1]
  OBVIOUS
<1> QED
  BY <1>1 DEF RegistersFirst

LEMMA FirstSends ==
    ASSUME NEW ms \in Seq(UpMsgs), NEW m \in UpMsgs, m.type # "REGISTER", NEW k,
           RegistersFirst(ms, k)
    PROVE  RegistersFirst(Append(ms, m), k)
<1>1. /\ DOMAIN ms = 1 .. Len(ms) /\ DOMAIN Append(ms, m) = 1 .. Len(ms) + 1 /\ Len(ms) \in Nat
      /\ \A i \in 1 .. Len(ms) : Append(ms, m)[i] = ms[i]
      /\ Append(ms, m)[Len(ms) + 1] = m
  OBVIOUS
<1> QED
  BY <1>1 DEF RegistersFirst

\* What an agent does, when it sends something other than REGISTER or nothing.
LEMMA AgentOwn ==
    ASSUME Typed, OwnInv, NEW n \in Nodes, UNCHANGED <<conns, open, wsNode>>,
           \/ UNCHANGED up
           \/ \E m \in UpMsgs : m.type # "REGISTER" /\ AgentSends(n, m)
    PROVE  OwnInv'
<1>1. CASE UNCHANGED up
  BY <1>1 DEF OwnInv
<1>2. ASSUME NEW m \in UpMsgs, m.type # "REGISTER", AgentSends(n, m) PROVE OwnInv'
  <2>1. ASSUME NEW w \in Ws PROVE RegistersFirst(up'[w], wsNode'[w])
    <3>1. RegistersFirst(up[w], wsNode[w]) /\ up[w] \in Seq(UpMsgs)
      BY DEF OwnInv, Typed
    <3>2. up'[w] = up[w] \/ up'[w] = Append(up[w], m)
      BY <1>2 DEF AgentSends, Typed
    <3> QED
      BY <1>2, <3>1, <3>2, FirstSends
  <2> QED
    BY <2>1 DEF OwnInv
<1> QED
  BY <1>1, <1>2

\* A handler reads a message of w, and so may set the node it speaks for.
LEMMA ReadsFirst ==
    ASSUME Typed, OwnInv, NEW w \in Ws, up[w] # <<>>, up' = [up EXCEPT ![w] = Tail(@)],
           \A v \in Ws : v # w => wsNode'[v] = wsNode[v]
    PROVE  \A v \in Ws : RegistersFirst(up'[v], wsNode'[v])
<1> SUFFICES ASSUME NEW v \in Ws PROVE RegistersFirst(up'[v], wsNode'[v])
  OBVIOUS
<1>1. RegistersFirst(up[v], wsNode[v]) /\ up[v] \in Seq(UpMsgs)
  BY DEF OwnInv, Typed
<1>2. CASE v = w
  <2>1. up'[v] = Tail(up[v]) /\ up[v] # <<>>
    BY <1>2 DEF Typed
  <2> QED
    BY <1>1, <2>1, FirstReads
<1>3. CASE v # w
  BY <1>1, <1>3 DEF Typed
<1> QED
  BY <1>2, <1>3

LEMMA OwnStep ==
    ASSUME Typed, OwnInv, [Next]_vars PROVE OwnInv'
<1> USE DEF C!storeVars, C!sessionVars, C!ctlVars, C!restVars, ctlVars, agentVars, netVars
<1>0. NoNode \notin Nodes /\ NoWs \notin Ws
  BY NetAssumption
<1>1. ASSUME UNCHANGED <<conns, open, wsNode, up>> PROVE OwnInv'
  BY <1>1 DEF OwnInv
<1>2. ASSUME NEW n \in Nodes, NEW w \in Ws, Connect(n, w) PROVE OwnInv'
  <2>1. /\ \A k \in Nodes : conns[k] # w
        /\ open' = open \cup {w} /\ wsNode' = [wsNode EXCEPT ![w] = NoNode]
        /\ up' = [up EXCEPT ![w] = <<Msg("REGISTER", n)>>]
        /\ UNCHANGED conns
    BY <1>2 DEF Connect, C!Accept
  <2>2. ASSUME NEW v \in Ws PROVE RegistersFirst(up'[v], wsNode'[v])
    <3>1. CASE v = w
      <4>1. up'[v] = <<Msg("REGISTER", n)>> /\ wsNode'[v] = NoNode
        BY <2>1, <3>1 DEF Typed
      <4> QED
        BY <4>1 DEF RegistersFirst
    <3>2. CASE v # w
      BY <2>1, <3>2 DEF Typed, OwnInv
    <3> QED  BY <3>1, <3>2
  <2>3. ASSUME NEW k \in Nodes, conns'[k] # NoWs PROVE conns'[k] \in open' /\ wsNode'[conns'[k]] = k
    BY <2>1, <2>3 DEF Typed, OwnInv
  <2> QED
    BY <2>2, <2>3 DEF OwnInv
<1>3. ASSUME NEW n \in Nodes, Drop(n) PROVE OwnInv'
  BY <1>1, <1>3 DEF Drop
<1>4. ASSUME NEW n \in Nodes, AgentReceives(n) PROVE OwnInv'
  <2> DEFINE m == Head(down[link[n]])
  <2>1. /\ UNCHANGED <<conns, open, wsNode>>
        /\ \/ AgentSends(n, Msg("PONG", NoPlan))
           \/ m.type = "RUN_PLAN" /\ AgentSends(n, Msg("PLAN_STARTED", m.arg))
           \/ AgentSends(n, Msg("PLAN_STOPPED", NoPlan))
           \/ UNCHANGED up
    BY <1>4 DEF AgentReceives
  <2>2. m.type = "RUN_PLAN" => m.arg \in A!Plans
    <3>1. m \in DownMsgs
      BY <1>4 DEF AgentReceives, Typed
    <3> QED
      BY <3>1 DEF DownMsgs
  <2> HIDE DEF m
  <2>3. \A t \in {"PONG", "PLAN_STARTED", "PLAN_STOPPED"} : \A p \in A!Plans \cup {NoPlan} :
           Msg(t, p) \in UpMsgs /\ Msg(t, p).type # "REGISTER"
    BY MessagesTyped DEF Msg
  <2> QED
    BY <2>1, <2>2, <2>3, AgentOwn
<1>5. ASSUME NEW n \in Nodes, AgentWorks(n) \/ \E p \in A!Plans : Snapshot(n, p) PROVE OwnInv'
  <2>1. /\ UNCHANGED <<conns, open, wsNode>>
        /\ \/ UNCHANGED up
           \/ AgentSends(n, Msg("ERROR", NoPlan))
           \/ \E p \in A!Plans : AgentSends(n, Msg("PLAN_STOPPED", p))
           \/ \E p \in A!Plans : AgentSends(n, Msg("SNAPSHOT", p))
    BY <1>5 DEF AgentWorks, Snapshot
  <2>2. \A t \in {"ERROR", "PLAN_STOPPED", "SNAPSHOT"} : \A p \in A!Plans \cup {NoPlan} :
           Msg(t, p) \in UpMsgs /\ Msg(t, p).type # "REGISTER"
    BY MessagesTyped DEF Msg
  <2> QED
    BY <2>1, <2>2, AgentOwn
<1>6. ASSUME NEW w \in Ws, ControllerReceives(w) PROVE OwnInv'
  <2>1. /\ UNCHANGED <<conns, open, wsNode>>
        /\ up[w] # <<>> /\ up' = [up EXCEPT ![w] = Tail(@)]
    BY <1>6 DEF ControllerReceives, C!OnPong, C!OnPlanStarted, C!OnPlanStopped, C!OnError
  <2>2. \A v \in Ws : RegistersFirst(up'[v], wsNode'[v])
    BY <2>1, ReadsFirst
  <2> QED
    BY <2>1, <2>2 DEF OwnInv
<1>7. ASSUME NEW w \in Ws, NEW n \in Nodes, ControllerRegisters(w, n) PROVE OwnInv'
  <2>1. /\ w \in open /\ wsNode' = [wsNode EXCEPT ![w] = n] /\ conns' = [conns EXCEPT ![n] = w]
        /\ up[w] # <<>> /\ up' = [up EXCEPT ![w] = Tail(@)] /\ UNCHANGED open
        /\ Head(up[w]) = Msg("REGISTER", n)
    BY <1>7 DEF ControllerRegisters, C!OnRegister
  <2>2. \A v \in Ws : RegistersFirst(up'[v], wsNode'[v])
    <3>1. \A v \in Ws : v # w => wsNode'[v] = wsNode[v]
      BY <2>1 DEF Typed
    <3> QED
      BY <2>1, <3>1, ReadsFirst
  <2>3. wsNode[w] = NoNode
    <3>1. RegistersFirst(up[w], wsNode[w]) /\ up[w] \in Seq(UpMsgs)
      BY DEF OwnInv, Typed
    <3>2. 1 \in DOMAIN up[w] /\ up[w][1] = Msg("REGISTER", n)
      BY <2>1, <3>1
    <3>3. up[w][1].type = "REGISTER"
      BY <3>2 DEF Msg
    <3> QED
      BY <3>1, <3>2, <3>3 DEF RegistersFirst
  <2>4. ASSUME NEW k \in Nodes, conns'[k] # NoWs PROVE conns'[k] \in open' /\ wsNode'[conns'[k]] = k
    <3>1. CASE k = n
      BY <2>1, <3>1 DEF Typed
    <3>2. CASE k # n
      <4>1. conns'[k] = conns[k] /\ conns[k] \in Ws /\ conns[k] \in open /\ wsNode[conns[k]] = k
        BY <2>1, <2>4, <3>2 DEF Typed, OwnInv
      <4> QED
        BY <1>0, <2>1, <2>3, <4>1 DEF Typed
    <3> QED  BY <3>1, <3>2
  <2> QED
    BY <2>2, <2>4 DEF OwnInv
<1>8. ASSUME NEW w \in Ws, ControllerDisconnects(w) PROVE OwnInv'
  <2>1. /\ open' = open \ {w} /\ UNCHANGED wsNode /\ up' = [up EXCEPT ![w] = <<>>]
        /\ IF C!HasNode(w) /\ conns[wsNode[w]] = w
             THEN conns' = [conns EXCEPT ![wsNode[w]] = NoWs] ELSE UNCHANGED conns
        /\ w \in open
    BY <1>8 DEF ControllerDisconnects, C!OnDisconnect
  <2>2. \A v \in Ws : RegistersFirst(up'[v], wsNode'[v])
    BY <2>1 DEF OwnInv, Typed, RegistersFirst
  <2>3. ASSUME NEW k \in Nodes, conns'[k] # NoWs PROVE conns'[k] \in open' /\ wsNode'[conns'[k]] = k
    <3>1. conns'[k] = conns[k]
      BY <2>1, <2>3 DEF Typed
    <3>2. conns[k] \in open /\ wsNode[conns[k]] = k
      BY <2>3, <3>1 DEF OwnInv
    <3>3. conns[k] # w
      BY <1>0, <2>1, <2>3, <3>1, <3>2 DEF Typed, C!HasNode
    <3> QED
      BY <2>1, <3>1, <3>2, <3>3
  <2> QED
    BY <2>2, <2>3 DEF OwnInv
<1>9. CASE HeartbeatRound
  BY <1>1, <1>9 DEF HeartbeatRound, C!Heartbeat
<1>10. ASSUME NEW s \in SessionIds, \/ \E n \in Nodes : SendRunPlan(s, n) \/ SendStopPlan(s, n)
                                    \/ StopReturns(s)
                                    \/ UserStops(s)
       PROVE  OwnInv'
  BY <1>1, <1>10 DEF SendRunPlan, SendStopPlan, StopReturns, UserStops, C!Dispatch, C!Broadcast,
                     C!FinishStop, C!StopSession
<1>11. CASE UserCreates \/ UserClears \/ UNCHANGED vars
  BY <1>1, <1>11 DEF UserCreates, UserClears, vars, C!CreateSession, C!ClearSessions
<1>12. CASE Restart
  BY <1>12 DEF Restart, OwnInv, RegistersFirst
<1> QED
  BY <1>2, <1>3, <1>4, <1>5, <1>6, <1>7, <1>8, <1>9, <1>10, <1>11, <1>12 DEF Next

LEMMA OwnInvariant == Spec => []OwnInv
<1>1. Init => OwnInv
  BY DEF Init, C!Init, OwnInv, RegistersFirst
<1>2. Typed /\ OwnInv /\ [Next]_vars => OwnInv'
  BY OwnStep
<1> QED
  BY <1>1, <1>2, TypedInvariant, PTL DEF Spec

\* main.py:298-300: with agents that register once per connection, which is what
\* agent.py does, no order of lost connections, reconnects, late REGISTERs and
\* restarts leaves a node listed under a connection whose handler has ended.
THEOREM NoGhostNodes == Spec => []NoGhosts
<1>1. OwnInv => NoGhosts
  BY DEF OwnInv, NoGhosts, C!NoGhosts
<1> QED
  BY <1>1, OwnInvariant, PTL

-----------------------------------------------------------------------------
(* Statuses settle *)

\* An agent that still has a PLAN_STOPPED to send.
Busy(n) ==
    \/ starting[n] # NoPlan
    \/ \E p \in A!Plans : task[n][p] \notin {"none", "clearing", "done"}

\* Everything among the messages ms on their way, and the status st they will find,
\* that makes a node RUNNING or puts it in ERROR is followed by a PLAN_STOPPED.
Raising == {"PLAN_STARTED", "ERROR"}
Raised  == {"running", "error"}
Calms(ms, st) ==
    /\ \A i \in DOMAIN ms : ms[i].type \in Raising =>
          \E j \in DOMAIN ms : j > i /\ ms[j].type = "PLAN_STOPPED"
    /\ st \in Raised => \E j \in DOMAIN ms : ms[j].type = "PLAN_STOPPED"

\* As long as no connection is lost every handler is that of an agent's connection,
\* and has either read its REGISTER or finds it next.
Wired ==
    /\ \A n, m \in Nodes : link[n] = link[m] /\ link[n] # NoWs => n = m
    /\ \A w \in open : \E n \in Nodes : link[n] = w
    /\ \A n \in Nodes :
          \/ link[n] = NoWs /\ nodes[n].status = "absent"
          \/ link[n] # NoWs /\ wsNode[link[n]] = n
          \/ /\ link[n] # NoWs /\ wsNode[link[n]] = NoNode /\ nodes[n].status = "absent"
             /\ up[link[n]] # <<>> /\ Head(up[link[n]]) = Msg("REGISTER", n)

SettledInv ==
    /\ Wired
    /\ \A n \in Nodes : link[n] # NoWs => Busy(n) \/ Calms(up[link[n]], nodes[n].status)

\* Sending a message that raises nothing, or a PLAN_STOPPED.
LEMMA CalmSends ==
    ASSUME NEW ms \in Seq(UpMsgs), NEW m \in UpMsgs, NEW st
    PROVE  /\ m.type \notin Raising /\ Calms(ms, st) => Calms(Append(ms, m), st)
           /\ m.type = "PLAN_STOPPED" => Calms(Append(ms, m), st)
<1>1. /\ DOMAIN ms = 1 .. Len(ms) /\ DOMAIN Append(ms, m) = 1 .. Len(ms) + 1 /\ Len(ms) \in Nat
      /\ \A i \in 1 .. Len(ms) : Append(ms, m)[i] = ms[i]
      /\ Append(ms, m)[Len(ms) + 1] = m
  OBVIOUS
<1> DEFINE am == Append(ms, m)
<1> HIDE DEF am
<1>2. ASSUME m.type \notin Raising, Calms(ms, st) PROVE Calms(am, st)
  <2>1. ASSUME NEW i \in DOMAIN am, am[i].type \in Raising
        PROVE  \E j \in DOMAIN am : j > i /\ am[j].type = "PLAN_STOPPED"
    <3>1. i \in 1 .. Len(ms) /\ ms[i].type \in Raising
      BY <1>1, <1>2, <2>1 DEF am
    <3>2. PICK j \in DOMAIN ms : j > i /\ ms[j].type = "PLAN_STOPPED"
      BY <1>1, <1>2, <3>1 DEF Calms
    <3> QED
      BY <1>1, <3>1, <3>2 DEF am
  <2>2. ASSUME st \in Raised PROVE \E j \in DOMAIN am : am[j].type = "PLAN_STOPPED"
    <3>1. PICK j \in DOMAIN ms : ms[j].type = "PLAN_STOPPED"
      BY <1>2, <2>2 DEF Calms
    <3> QED
      BY <1>1, <3>1 DEF am
  <2> QED
    BY <2>1, <2>2 DEF Calms
<1>3. ASSUME m.type = "PLAN_STOPPED" PROVE Calms(am, st)
  <2>1. Len(ms) + 1 \in DOMAIN am /\ am[Len(ms) + 1].type = "PLAN_STOPPED"
    BY <1>1, <1>3 DEF am
  <2>2. ASSUME NEW i \in DOMAIN am, am[i].type \in Raising PROVE Len(ms) + 1 > i
    <3>1. i # Len(ms) + 1
      BY <2>1, <2>2 DEF Raising
    <3> QED
      BY <1>1, <2>2, <3>1 DEF am
  <2> QED
    BY <2>1, <2>2 DEF Calms
<1> QED
  BY <1>2, <1>3 DEF am

\* Reading a message, which leaves the status new.
LEMMA CalmReads ==
    ASSUME NEW ms \in Seq(UpMsgs), ms # <<>>, NEW st, NEW new, Calms(ms, st),
           \/ new \notin Raised
           \/ /\ Head(ms).type # "PLAN_STOPPED"
              /\ st \in Raised \/ Head(ms).type \in Raising
    PROVE  Calms(Tail(ms), new)
<1> DEFINE tl == Tail(ms)
<1>1. /\ DOMAIN ms = 1 .. Len(ms) /\ DOMAIN tl = 1 .. Len(ms) - 1 /\ Len(ms) \in Nat /\ Len(ms) > 0
      /\ \A i \in 1 .. Len(ms) - 1 : tl[i] = ms[i + 1]
      /\ Head(ms) = ms[1]
  BY HeadTailProperties
<1> HIDE DEF tl
<1>2. ASSUME NEW i \in DOMAIN tl, tl[i].type \in Raising
      PROVE  \E j \in DOMAIN tl : j > i /\ tl[j].type = "PLAN_STOPPED"
  <2>1. i + 1 \in DOMAIN ms /\ ms[i + 1].type \in Raising /\ i \in Nat
    BY <1>1, <1>2
  <2>2. PICK j \in DOMAIN ms : j > i + 1 /\ ms[j].type = "PLAN_STOPPED"
    BY <2>1 DEF Calms
  <2>3. j - 1 \in DOMAIN tl /\ j - 1 > i /\ tl[j - 1] = ms[j]
    BY <1>1, <2>1, <2>2
  <2> QED
    BY <2>2, <2>3
<1>3. ASSUME new \in Raised PROVE \E j \in DOMAIN tl : tl[j].type = "PLAN_STOPPED"
  <2>1. /\ ms[1].type # "PLAN_STOPPED"
        /\ \E j \in DOMAIN ms : ms[j].type = "PLAN_STOPPED"
    BY <1>1, <1>3 DEF Calms
  <2>2. PICK j \in DOMAIN ms : ms[j].type = "PLAN_STOPPED"
    BY <2>1
  <2>3. j - 1 \in DOMAIN tl /\ tl[j - 1] = ms[j]
    <3>1. j # 1 /\ j \in 1 .. Len(ms)
      BY <1>1, <2>1, <2>2
    <3>2. j - 1 \in 1 .. Len(ms) - 1 /\ (j - 1) + 1 = j
      BY <1>1, <3>1
    <3> QED
      BY <1>1, <3>2
  <2> QED
    BY <2>2, <2>3
<1> QED
  BY <1>2, <1>3 DEF Calms, tl

\* Steps that touch neither channels nor agents and raise no status.
LEMMA StatusesOnly ==
    ASSUME Typed, SettledInv, UNCHANGED <<link, up, wsNode, open, starting, task>>,
           \A n \in Nodes : /\ nodes'[n].status \in Raised => nodes[n].status \in Raised
                            /\ nodes[n].status = "absent" => nodes'[n].status = "absent"
    PROVE  SettledInv'
<1>1. Wired'
  BY DEF SettledInv, Wired
<1>2. \A n \in Nodes : Busy(n)' <=> Busy(n)
  BY DEF Busy
<1>3. \A n \in Nodes : Calms(up[link[n]], nodes[n].status) => Calms(up[link[n]], nodes'[n].status)
  BY DEF Calms
<1> QED
  BY <1>1, <1>2, <1>3 DEF SettledInv

\* What an agent does, when it sends m or nothing.
LEMMA AgentSettles ==
    ASSUME Typed, SettledInv, NEW n \in Nodes, UNCHANGED <<nodes, wsNode, open, link>>,
           \A k \in Nodes : k # n => starting'[k] = starting[k] /\ task'[k] = task[k],
           \/ UNCHANGED up /\ (Busy(n) => Busy(n)')
           \/ \E m \in UpMsgs : /\ AgentSends(n, m)
                                /\ \/ m.type = "PLAN_STOPPED"
                                   \/ m.type \notin Raising /\ (Busy(n) => Busy(n)')
                                   \/ Busy(n)'
    PROVE  SettledInv'
<1>0. /\ link \in [Nodes -> Ws \cup {NoWs}] /\ up \in [Ws -> Seq(UpMsgs)]
      /\ NoWs \notin Ws
  BY NetAssumption DEF Typed
<1>1. ASSUME NEW k \in Nodes, k # n, link[k] # NoWs PROVE up'[link[k]] = up[link[k]]
  BY <1>0, <1>1 DEF AgentSends, SettledInv, Wired
<1>2. \/ up' = up
      \/ \E m \in UpMsgs : up'[link[n]] = Append(up[link[n]], m)
      \/ link[n] = NoWs
  BY <1>0 DEF AgentSends
<1>3. ASSUME link[n] # NoWs, up[link[n]] # <<>>
      PROVE  up'[link[n]] # <<>> /\ Head(up'[link[n]]) = Head(up[link[n]])
  <2>1. up[link[n]] \in Seq(UpMsgs)
    BY <1>0, <1>3
  <2> QED
    BY <1>2, <1>3, <2>1, HeadTailAppend
<1>4. Wired'
  BY <1>1, <1>3 DEF SettledInv, Wired
<1>5. ASSUME NEW k \in Nodes, k # n PROVE Busy(k)' <=> Busy(k)
  BY <1>5 DEF Busy
<1>6. ASSUME link[n] # NoWs PROVE Busy(n)' \/ Calms(up'[link[n]], nodes[n].status)
  <2>1. up[link[n]] \in Seq(UpMsgs) /\ link[n] \in Ws
    BY <1>0, <1>6
  <2>2. Busy(n) \/ Calms(up[link[n]], nodes[n].status)
    BY <1>6 DEF SettledInv
  <2>3. CASE UNCHANGED up /\ (Busy(n) => Busy(n)')
    BY <2>2, <2>3
  <2>4. ASSUME NEW m \in UpMsgs, AgentSends(n, m),
               \/ m.type = "PLAN_STOPPED"
               \/ m.type \notin Raising /\ (Busy(n) => Busy(n)')
        PROVE  Busy(n)' \/ Calms(up'[link[n]], nodes[n].status)
    <3>1. up'[link[n]] = Append(up[link[n]], m)
      BY <1>0, <1>6, <2>1, <2>4 DEF AgentSends
    <3> QED
      BY <2>1, <2>2, <2>4, <3>1, CalmSends
  <2> QED
    BY <2>3, <2>4
<1> QED
  BY <1>0, <1>1, <1>4, <1>5, <1>6 DEF SettledInv

\* An agent that has not sent its PLAN_STOPPED stays busy.
LEMMA BusyStays ==
    ASSUME A!AgentTypeOK, NEW n \in Nodes,
           \/ A!OnStopPlan(n) \/ A!StartTask(n)
           \/ \E p \in A!Plans : \/ A!BeginRun(n, p) \/ A!SetupDone(n, p) \/ A!SetupFails(n, p)
                                 \/ A!Elapse(n, p) \/ A!TornDown(n, p) \/ A!ReportError(n, p)
                                 \/ A!ClearExecutor(n, p)
    PROVE  /\ Busy(n) => Busy(n)'
           /\ \A k \in Nodes : k # n => starting'[k] = starting[k] /\ task'[k] = task[k]
<1> USE DEF A!AgentTypeOK, Busy, NoPlan
<1>1. ASSUME NEW e, A!SetStop(n, e), UNCHANGED starting
      PROVE  /\ Busy(n) => Busy(n)'
             /\ \A k \in Nodes : k # n => starting'[k] = starting[k] /\ task'[k] = task[k]
  <2>1. task' = [task EXCEPT ![n] = [q \in A!Plans |->
                    IF task[n][q] = "waiting" /\ bound[n][q] = e THEN "teardown" ELSE task[n][q]]]
    BY <1>1 DEF A!SetStop
  <2>2. \A k \in Nodes : k # n => task'[k] = task[k]
    BY <2>1
  <2>3. \A q \in A!Plans : task'[n][q] = task[n][q] \/ task'[n][q] = "teardown"
    BY <2>1
  <2> QED
    BY <1>1, <2>2, <2>3
<1>2. ASSUME NEW p \in A!Plans, NEW from, NEW to, A!Move(n, p, from, to), UNCHANGED starting,
             to \notin {"none", "clearing", "done"} \/ from = "clearing"
      PROVE  /\ Busy(n) => Busy(n)'
             /\ \A k \in Nodes : k # n => starting'[k] = starting[k] /\ task'[k] = task[k]
  <2>1. task[n][p] = from /\ task' = [task EXCEPT ![n][p] = to]
    BY <1>2 DEF A!Move
  <2>2. \A k \in Nodes : k # n => task'[k] = task[k]
    BY <2>1
  <2>3. /\ task'[n][p] = to
        /\ \A q \in A!Plans : q # p => task'[n][q] = task[n][q]
    BY <2>1
  <2>4. Busy(n) => Busy(n)'
    <3>1. CASE starting[n] # NoPlan
      BY <1>2, <3>1
    <3>2. ASSUME NEW q \in A!Plans, task[n][q] \notin {"none", "clearing", "done"}
          PROVE  Busy(n)'
      BY <1>2, <2>1, <2>3, <3>2
    <3> QED
      BY <3>1, <3>2
  <2> QED
    BY <1>2, <2>2, <2>4
<1>3. CASE A!OnStopPlan(n)
  BY <1>1, <1>3 DEF A!OnStopPlan
<1>4. CASE A!StartTask(n)
  <2>1. starting[n] \in A!Plans
    BY <1>4 DEF A!StartTask, A!LoopIdle
  <2> QED
    BY <1>4, <2>1 DEF A!StartTask
<1>5. ASSUME NEW p \in A!Plans, A!BeginRun(n, p) \/ A!SetupDone(n, p) \/ A!SetupFails(n, p)
      PROVE  /\ Busy(n) => Busy(n)'
             /\ \A k \in Nodes : k # n => starting'[k] = starting[k] /\ task'[k] = task[k]
  <2>1. /\ \E from : \E to \in {"setup", "failed", "teardown", "waiting"} : A!Move(n, p, from, to)
        /\ UNCHANGED starting
    BY <1>5 DEF A!BeginRun, A!SetupDone, A!SetupFails
  <2>2. PICK from : \E to \in {"setup", "failed", "teardown", "waiting"} : A!Move(n, p, from, to)
    BY <2>1
  <2>3. PICK to \in {"setup", "failed", "teardown", "waiting"} : A!Move(n, p, from, to)
    BY <2>2
  <2> QED
    BY <2>1, <2>3, <1>2
<1>6. ASSUME NEW p \in A!Plans, A!TornDown(n, p) \/ A!ReportError(n, p) \/ A!ClearExecutor(n, p)
      PROVE  /\ Busy(n) => Busy(n)'
             /\ \A k \in Nodes : k # n => starting'[k] = starting[k] /\ task'[k] = task[k]
  <2>1. /\ UNCHANGED starting
        /\ \/ A!Move(n, p, "teardown", "closing")
           \/ A!Move(n, p, "failed", "closing")
           \/ A!Move(n, p, "clearing", "done")
    BY <1>6 DEF A!TornDown, A!ReportError, A!ClearExecutor
  <2> QED
    BY <2>1, <1>2
<1>7. ASSUME NEW p \in A!Plans, A!Elapse(n, p)
      PROVE  /\ Busy(n) => Busy(n)'
             /\ \A k \in Nodes : k # n => starting'[k] = starting[k] /\ task'[k] = task[k]
  BY <1>1, <1>7 DEF A!Elapse
<1> QED
  BY <1>3, <1>4, <1>5, <1>6, <1>7

\* What reading m, sent by n, may do to the statuses.
Reads(n, m) ==
    /\ \/ nodes'[n].status \notin Raised
       \/ /\ m.type # "PLAN_STOPPED"
          /\ nodes[n].status \in Raised \/ m.type \in Raising
    /\ \A k \in Nodes :
          /\ nodes[k].status = "absent" => nodes'[k].status = "absent"
          /\ k # n /\ nodes'[k].status \in Raised => nodes[k].status \in Raised

\* The handler of an agent's connection reads a message.
LEMMA HandlerSettles ==
    ASSUME Typed, SettledInv, NEW w \in Ws, w \in open, up[w] # <<>>,
           up' = [up EXCEPT ![w] = Tail(@)],
           UNCHANGED <<open, link, wsNode, starting, task>>,
           NEW n \in Nodes, link[n] = w, wsNode[w] = n, Reads(n, Head(up[w]))
    PROVE  SettledInv'
<1>0. /\ link \in [Nodes -> Ws \cup {NoWs}] /\ up \in [Ws -> Seq(UpMsgs)]
      /\ NoWs \notin Ws /\ NoNode \notin Nodes
  BY NetAssumption DEF Typed
<1>1. \A k \in Nodes : k # n => link[k] # w
  BY <1>0 DEF SettledInv, Wired
<1>2. up'[w] = Tail(up[w]) /\ \A v \in Ws : v # w => up'[v] = up[v]
  BY <1>0
<1>3. Wired'
  <2>1. \A k \in Nodes : k # n /\ link[k] # NoWs => up'[link[k]] = up[link[k]]
    BY <1>0, <1>1, <1>2
  <2> QED
    <3>1. ASSUME NEW k \in Nodes
          PROVE  \/ link'[k] = NoWs /\ nodes'[k].status = "absent"
                 \/ link'[k] # NoWs /\ wsNode'[link'[k]] = k
                 \/ /\ link'[k] # NoWs /\ wsNode'[link'[k]] = NoNode /\ nodes'[k].status = "absent"
                    /\ up'[link'[k]] # <<>> /\ Head(up'[link'[k]]) = Msg("REGISTER", k)
      <4>1. \/ link[k] = NoWs /\ nodes[k].status = "absent"
            \/ link[k] # NoWs /\ wsNode[link[k]] = k
            \/ /\ k # n /\ link[k] # NoWs /\ wsNode[link[k]] = NoNode /\ nodes[k].status = "absent"
               /\ up[link[k]] # <<>> /\ Head(up[link[k]]) = Msg("REGISTER", k)
        BY <1>0 DEF SettledInv, Wired
      <4> QED
        BY <2>1, <4>1 DEF Reads
    <3>2. /\ \A k, m \in Nodes : link'[k] = link'[m] /\ link'[k] # NoWs => k = m
          /\ \A v \in open' : \E k \in Nodes : link'[k] = v
      BY DEF SettledInv, Wired
    <3> QED
      BY <3>1, <3>2 DEF Wired
<1>4. \A k \in Nodes : Busy(k)' <=> Busy(k)
  BY DEF Busy
<1>5. Busy(n) \/ Calms(up'[w], nodes'[n].status)
  <2>1. Busy(n) \/ Calms(up[w], nodes[n].status)
    BY <1>0 DEF SettledInv
  <2>2. up[w] \in Seq(UpMsgs)
    BY <1>0
  <2> QED
    <3>1. \/ nodes'[n].status \notin Raised
          \/ /\ Head(up[w]).type # "PLAN_STOPPED"
             /\ nodes[n].status \in Raised \/ Head(up[w]).type \in Raising
      BY DEF Reads
    <3>2. Calms(up[w], nodes[n].status) => Calms(Tail(up[w]), nodes'[n].status)
      BY <2>2, <3>1, CalmReads
    <3> QED
      BY <1>2, <2>1, <3>2
<1>6. ASSUME NEW k \in Nodes, k # n, link[k] # NoWs
      PROVE  Busy(k) \/ Calms(up'[link[k]], nodes'[k].status)
  <2>1. Busy(k) \/ Calms(up[link[k]], nodes[k].status)
    BY <1>6 DEF SettledInv
  <2>2. up'[link[k]] = up[link[k]]
    BY <1>0, <1>1, <1>2, <1>6
  <2> QED
    BY <1>6, <2>1, <2>2 DEF Calms, Reads
<1> QED
  BY <1>3, <1>4, <1>5, <1>6 DEF SettledInv

\* What WithStatus makes of the statuses.
LEMMA WithStatusIs ==
    ASSUME NEW ns \in NodeTables, NEW N, NEW st
    PROVE  \A k \in Nodes : C!WithStatus(ns, N, st)[k].status =
              IF k \in N /\ ns[k].status # "absent" THEN st ELSE ns[k].status
  BY DEF NodeTables, C!WithStatus, C!Known, C!Seen

LEMMA ReceiveSettles ==
    ASSUME Typed, SettledInv, NEW w \in Ws, ControllerReceives(w)
    PROVE  SettledInv'
<1> DEFINE m == Head(up[w])
<1>0. /\ nodes \in NodeTables /\ NoNode \notin Nodes
      /\ up[w] # <<>> /\ up' = [up EXCEPT ![w] = Tail(@)]
      /\ UNCHANGED <<open, link, wsNode, starting, task>>
  BY NetAssumption DEF Typed, ControllerReceives, agentVars, ctlVars, C!OnPong, C!OnPlanStarted,
         C!OnPlanStopped, C!OnError, C!ctlVars
<1>1. C!HasNode(w)
  BY DEF ControllerReceives, C!OnPong, C!OnPlanStarted, C!OnPlanStopped, C!OnError
<1>2. PICK n \in Nodes : link[n] = w
  BY <1>1 DEF C!HasNode, SettledInv, Wired
<1>3. w \in open /\ wsNode[w] = n
  BY <1>1, <1>2, NetAssumption DEF C!HasNode, SettledInv, Wired
<1>4. \/ m.type = "PONG" /\ C!OnPong(w)
      \/ m.type = "PLAN_STARTED" /\ C!OnPlanStarted(w)
      \/ m.type = "PLAN_STOPPED" /\ C!OnPlanStopped(w)
      \/ m.type = "ERROR" /\ C!OnError(w)
      \/ m.type = "SNAPSHOT" /\ UNCHANGED nodes
  BY DEF ControllerReceives, ctlVars
<1> HIDE DEF m
<1>r. ASSUME Reads(n, m) PROVE SettledInv'
  BY <1>0, <1>2, <1>3, <1>r, HandlerSettles DEF m
<1>5. CASE m.type = "PONG" /\ C!OnPong(w)
  <2>1. \A k \in Nodes : nodes'[k].status = nodes[k].status
    BY <1>0, <1>3, <1>5 DEF C!OnPong, C!Touched, C!Known, C!Seen, NodeTables
  <2>2. Reads(n, m)
    BY <1>5, <2>1 DEF Reads
  <2> QED
    BY <1>r, <2>2
<1>6. CASE m.type \in {"PLAN_STARTED", "ERROR"} /\ (C!OnPlanStarted(w) \/ C!OnError(w))
  <2>1. \/ nodes' = C!WithStatus(nodes, {n}, "running")
        \/ nodes' = C!WithStatus(nodes, {n}, "error")
    BY <1>3, <1>6 DEF C!OnPlanStarted, C!OnError
  <2>2. Reads(n, m)
    BY <1>0, <1>6, <2>1, WithStatusIs DEF Raising, Reads
  <2> QED
    BY <1>r, <2>2
<1>7. CASE C!OnPlanStopped(w)
  <2> DEFINE ns == C!WithStatus(nodes, {n}, "connected")
  <2>1. ns \in NodeTables
    BY <1>0, StatusesAre, NodeTablesTyped
  <2>2. nodes' = ns \/ nodes' = C!WithStatus(ns, participants[C!ActiveSession], "connected")
    BY <1>3, <1>7 DEF C!OnPlanStopped, C!StoreEnd
  <2>3. \A k \in Nodes : ns[k].status =
           IF k = n /\ nodes[k].status # "absent" THEN "connected" ELSE nodes[k].status
    BY <1>0, WithStatusIs
  <2> HIDE DEF ns
  <2>4. \A k \in Nodes : nodes'[k].status \in {ns[k].status, "connected"}
                        /\ (ns[k].status = "absent" => nodes'[k].status = "absent")
    BY <2>1, <2>2, WithStatusIs
  <2>5. Reads(n, m)
    BY <2>3, <2>4 DEF Raised, Reads
  <2> QED
    BY <1>r, <2>5
<1>8. CASE m.type = "SNAPSHOT" /\ UNCHANGED nodes
  <2>1. Reads(n, m)
    BY <1>8 DEF Reads
  <2> QED
    BY <1>r, <2>1
<1> QED
  BY <1>4, <1>5, <1>6, <1>7, <1>8

\* The handler reads the REGISTER.
LEMMA RegisterSettles ==
    ASSUME Typed, OwnInv, SettledInv, NEW w \in Ws, NEW k \in Nodes, ControllerRegisters(w, k)
    PROVE  SettledInv'
<1>0. /\ nodes \in NodeTables /\ NoNode \notin Nodes /\ NoWs \notin Ws
      /\ link \in [Nodes -> Ws \cup {NoWs}] /\ up \in [Ws -> Seq(UpMsgs)]
      /\ wsNode \in [Ws -> Nodes \cup {NoNode}]
  BY NetAssumption DEF Typed
<1>a. /\ w \in open /\ wsNode' = [wsNode EXCEPT ![w] = k]
      /\ nodes' = C!Registered(nodes, k)
      /\ up[w] # <<>> /\ Head(up[w]) = Msg("REGISTER", k) /\ up' = [up EXCEPT ![w] = Tail(@)]
      /\ UNCHANGED <<open, link, starting, task>>
  BY DEF ControllerRegisters, C!OnRegister, agentVars
<1>b. wsNode[w] = NoNode
  <2>1. RegistersFirst(up[w], wsNode[w]) /\ 1 \in DOMAIN up[w]
    BY <1>0, <1>a DEF OwnInv
  <2>2. up[w][1].type = "REGISTER"
    BY <1>0, <1>a DEF Msg
  <2> QED
    BY <2>1, <2>2 DEF RegistersFirst
<1>1. /\ w \in open /\ wsNode[w] = NoNode /\ wsNode' = [wsNode EXCEPT ![w] = k]
      /\ nodes' = C!Registered(nodes, k)
      /\ up[w] # <<>> /\ Head(up[w]) = Msg("REGISTER", k) /\ up' = [up EXCEPT ![w] = Tail(@)]
      /\ UNCHANGED <<open, link, starting, task>>
  BY <1>a, <1>b
<1>2. PICK n \in Nodes : link[n] = w
  BY <1>1 DEF SettledInv, Wired
<1>3. n = k
  <2>1. Head(up[w]) = Msg("REGISTER", n)
    BY <1>0, <1>1, <1>2 DEF SettledInv, Wired
  <2>2. Msg("REGISTER", n).arg = n /\ Msg("REGISTER", k).arg = k
    BY DEF Msg
  <2> QED
    BY <1>1, <2>1, <2>2
<1>4. \A m \in Nodes : m # k => link[m] # w
  BY <1>0, <1>2, <1>3 DEF SettledInv, Wired
<1>5. /\ nodes'[k].status = "connected"
      /\ \A m \in Nodes : m # k => nodes'[m] = nodes[m]
  BY <1>0, <1>1 DEF C!Registered, C!Seen, NodeTables
<1>6. \A m \in Nodes : m # k /\ link[m] # NoWs =>
         up'[link[m]] = up[link[m]] /\ wsNode'[link[m]] = wsNode[link[m]]
  BY <1>0, <1>1, <1>4
<1>7. link'[k] = w /\ wsNode'[w] = k /\ w # NoWs /\ up'[w] = Tail(up[w])
  BY <1>0, <1>1, <1>2, <1>3
<1>8. Wired'
  <2>1. /\ \A m, l \in Nodes : link'[m] = link'[l] /\ link'[m] # NoWs => m = l
        /\ \A v \in open' : \E m \in Nodes : link'[m] = v
    BY <1>1 DEF SettledInv, Wired
  <2> QED
    BY <1>1, <1>5, <1>6, <1>7, <2>1 DEF SettledInv, Wired
<1>9. \A m \in Nodes : Busy(m)' <=> Busy(m)
  BY <1>1 DEF Busy
<1>10. Busy(k) \/ Calms(up'[w], nodes'[k].status)
  <2>1. Busy(k) \/ Calms(up[w], nodes[k].status)
    BY <1>2, <1>3, <1>7 DEF SettledInv
  <2>2. up[w] \in Seq(UpMsgs) /\ nodes'[k].status \notin Raised
    BY <1>0, <1>5 DEF Raised
  <2> QED
    BY <1>1, <1>7, <2>1, <2>2, CalmReads
<1> QED
  BY <1>1, <1>5, <1>6, <1>7, <1>8, <1>9, <1>10 DEF SettledInv

\* A lost connection is never taken back.
LEMMA DropsGrow ==
    ASSUME Typed, [Next]_vars, faults'["drops"] = 0
    PROVE  faults["drops"] = 0
<1> USE DEF netVars
<1>1. ASSUME NEW what \in {"drops", "restarts"}, Fault(what)
      PROVE  faults["drops"] = 0
  BY <1>1 DEF Fault, Typed
<1>2. CASE UNCHANGED faults
  BY <1>2
<1>3. ASSUME NEW n \in Nodes, Drop(n) PROVE faults["drops"] = 0
  BY <1>1, <1>3 DEF Drop
<1>4. CASE Restart
  BY <1>1, <1>4 DEF Restart
<1>5. ASSUME NEW n \in Nodes, \/ \E w \in Ws : Connect(n, w)
                              \/ AgentReceives(n)
                              \/ AgentWorks(n)
                              \/ \E p \in A!Plans : Snapshot(n, p)
      PROVE  UNCHANGED faults
  BY <1>5 DEF Connect, AgentReceives, AgentWorks, Snapshot
<1>6. ASSUME NEW w \in Ws, \/ ControllerReceives(w)
                           \/ \E n \in Nodes : ControllerRegisters(w, n)
                           \/ ControllerDisconnects(w)
      PROVE  UNCHANGED faults
  BY <1>6 DEF ControllerReceives, ControllerRegisters, ControllerDisconnects
<1>7. ASSUME NEW s \in SessionIds, \/ \E n \in Nodes : SendRunPlan(s, n) \/ SendStopPlan(s, n)
                                   \/ StopReturns(s)
                                   \/ UserStops(s)
      PROVE  UNCHANGED faults
  BY <1>7 DEF SendRunPlan, SendStopPlan, StopReturns, UserStops
<1>8. CASE HeartbeatRound \/ UserCreates \/ UserClears \/ UNCHANGED vars
  BY <1>8, <1>2 DEF HeartbeatRound, UserCreates, UserClears, vars
<1> QED
  BY <1>2, <1>3, <1>4, <1>5, <1>6, <1>7, <1>8 DEF Next

\* As long as no connection has been lost, every step keeps the invariant.
LEMMA SettledStep ==
    ASSUME Typed, OwnInv, A!AgentTypeOK, SettledInv, [Next]_vars,
           faults["drops"] = 0, faults'["drops"] = 0
    PROVE  SettledInv'
<1> USE DEF C!storeVars, C!sessionVars, C!ctlVars, C!restVars, ctlVars, agentVars, netVars
<1>0. /\ nodes \in NodeTables /\ link \in [Nodes -> Ws \cup {NoWs}] /\ up \in [Ws -> Seq(UpMsgs)]
      /\ wsNode \in [Ws -> Nodes \cup {NoNode}] /\ NoWs \notin Ws /\ NoNode \notin Nodes
  BY NetAssumption DEF Typed
<1>1. ASSUME NEW n \in Nodes, NEW w \in Ws, Connect(n, w) PROVE SettledInv'
  <2>1. /\ link[n] = NoWs /\ w \notin open /\ \A k \in Nodes : link[k] # w
        /\ open' = open \cup {w} /\ wsNode' = [wsNode EXCEPT ![w] = NoNode]
        /\ link' = [link EXCEPT ![n] = w]
        /\ up' = [up EXCEPT ![w] = <<Msg("REGISTER", n)>>]
        /\ UNCHANGED <<nodes, starting, task>>
    BY <1>1 DEF Connect, C!Accept
  <2>2. /\ link'[n] = w /\ up'[w] = <<Msg("REGISTER", n)>> /\ wsNode'[w] = NoNode
        /\ nodes'[n].status = "absent"
    BY <1>0, <2>1 DEF SettledInv, Wired
  <2>3. \A k \in Nodes : k # n =>
           /\ link'[k] = link[k]
           /\ link[k] # NoWs => up'[link[k]] = up[link[k]] /\ wsNode'[link[k]] = wsNode[link[k]]
    BY <1>0, <2>1
  <2>4. Wired'
    <3>1. \A k, m \in Nodes : link'[k] = link'[m] /\ link'[k] # NoWs => k = m
      BY <1>0, <2>1, <2>2, <2>3 DEF SettledInv, Wired
    <3>2. \A v \in open' : \E k \in Nodes : link'[k] = v
      <4>1. ASSUME NEW v \in open PROVE \E k \in Nodes : link'[k] = v
        <5>1. PICK k \in Nodes : link[k] = v
          BY <4>1 DEF SettledInv, Wired
        <5>2. k # n
          BY <1>0, <2>1, <4>1, <5>1 DEF Typed
        <5> QED
          BY <2>3, <5>1, <5>2
      <4> QED
        BY <2>1, <2>2, <4>1
    <3>3. <<Msg("REGISTER", n)>> # <<>> /\ Head(<<Msg("REGISTER", n)>>) = Msg("REGISTER", n)
      OBVIOUS
    <3> QED
      BY <1>0, <2>1, <2>2, <2>3, <3>1, <3>2, <3>3 DEF SettledInv, Wired
  <2>5. Calms(<<Msg("REGISTER", n)>>, "absent")
    BY DEF Calms, Raising, Raised, Msg
  <2>6. \A k \in Nodes : Busy(k)' <=> Busy(k)
    BY <2>1 DEF Busy
  <2> QED
    BY <2>1, <2>2, <2>3, <2>4, <2>5, <2>6 DEF SettledInv
<1>2. ASSUME NEW n \in Nodes, Drop(n) PROVE SettledInv'
  BY <1>2 DEF Drop, Fault, Typed
<1>3. ASSUME NEW n \in Nodes, AgentReceives(n) PROVE SettledInv'
  <2> DEFINE m == Head(down[link[n]])
  <2>1. /\ UNCHANGED <<nodes, wsNode, open, link>>
        /\ \/ UNCHANGED agentVars /\ AgentSends(n, Msg("PONG", NoPlan))
           \/ UNCHANGED agentVars /\ UNCHANGED up
           \/ /\ m.type = "RUN_PLAN" /\ A!OnRunPlan(n, m.arg)
              /\ AgentSends(n, Msg("PLAN_STARTED", m.arg))
           \/ A!OnStopPlan(n) /\ AgentSends(n, Msg("PLAN_STOPPED", NoPlan))
    BY <1>3 DEF AgentReceives
  <2>2. m \in DownMsgs
    BY <1>3 DEF AgentReceives, Typed
  <2> HIDE DEF m
  <2>3. CASE UNCHANGED agentVars /\ AgentSends(n, Msg("PONG", NoPlan))
    <3>1. Msg("PONG", NoPlan) \in UpMsgs /\ Msg("PONG", NoPlan).type \notin Raising
      BY MessagesTyped DEF Msg, Raising
    <3>2. Busy(n)' <=> Busy(n)
      BY <2>3 DEF Busy
    <3> QED
      BY <2>1, <2>3, <3>1, <3>2, AgentSettles
  <2>4. CASE UNCHANGED agentVars /\ UNCHANGED up
    <3>1. Busy(n)' <=> Busy(n)
      BY <2>4 DEF Busy
    <3> QED
      BY <2>1, <2>4, <3>1, AgentSettles
  <2>5. CASE /\ m.type = "RUN_PLAN" /\ A!OnRunPlan(n, m.arg)
             /\ AgentSends(n, Msg("PLAN_STARTED", m.arg))
    <3>1. m.arg \in A!Plans
      BY <2>2, <2>5 DEF DownMsgs
    <3>2. Msg("PLAN_STARTED", m.arg) \in UpMsgs
      BY <3>1, MessagesTyped
    <3>3. Busy(n)' /\ \A k \in Nodes : k # n => starting'[k] = starting[k] /\ task'[k] = task[k]
      BY <2>5, <3>1 DEF A!OnRunPlan, A!AgentTypeOK, Busy, NoPlan, A!NoPlan, A!Plans
    <3> QED
      BY <2>1, <2>5, <3>2, <3>3, AgentSettles
  <2>6. CASE A!OnStopPlan(n) /\ AgentSends(n, Msg("PLAN_STOPPED", NoPlan))
    <3>1. Msg("PLAN_STOPPED", NoPlan) \in UpMsgs /\ Msg("PLAN_STOPPED", NoPlan).type = "PLAN_STOPPED"
      BY MessagesTyped DEF Msg
    <3> QED
      BY <2>1, <2>6, <3>1, BusyStays, AgentSettles
  <2> QED
    BY <2>1, <2>3, <2>4, <2>5, <2>6
<1>4. ASSUME NEW n \in Nodes, AgentWorks(n) PROVE SettledInv'
  <2>1. UNCHANGED <<nodes, wsNode, open, link>>
    BY <1>4 DEF AgentWorks
  <2>2. CASE /\ \/ A!StartTask(n)
                \/ \E p \in A!Plans : \/ A!BeginRun(n, p) \/ A!SetupDone(n, p)
                                      \/ A!SetupFails(n, p) \/ A!Elapse(n, p)
                                      \/ A!TornDown(n, p) \/ A!ClearExecutor(n, p)
             /\ UNCHANGED up
    <3>1. /\ Busy(n) => Busy(n)'
          /\ \A k \in Nodes : k # n => starting'[k] = starting[k] /\ task'[k] = task[k]
      BY <2>2, BusyStays
    <3> QED
      BY <2>1, <2>2, <3>1, AgentSettles
  <2>3. ASSUME NEW p \in A!Plans, A!ReportError(n, p), AgentSends(n, Msg("ERROR", NoPlan))
        PROVE  SettledInv'
    <3>1. /\ \A k \in Nodes : k # n => starting'[k] = starting[k] /\ task'[k] = task[k]
          /\ task'[n][p] = "closing"
      BY <2>3 DEF A!ReportError, A!Move, A!AgentTypeOK
    <3>2. Busy(n)'
      BY <3>1 DEF Busy
    <3>3. Msg("ERROR", NoPlan) \in UpMsgs
      BY MessagesTyped
    <3> QED
      BY <2>1, <2>3, <3>1, <3>2, <3>3, AgentSettles
  <2>4. ASSUME NEW p \in A!Plans, A!ReportStopped(n, p), AgentSends(n, Msg("PLAN_STOPPED", p))
        PROVE  SettledInv'
    <3>1. \A k \in Nodes : k # n => starting'[k] = starting[k] /\ task'[k] = task[k]
      BY <2>4 DEF A!ReportStopped, A!Move, A!AgentTypeOK
    <3>2. Msg("PLAN_STOPPED", p) \in UpMsgs /\ Msg("PLAN_STOPPED", p).type = "PLAN_STOPPED"
      BY MessagesTyped DEF Msg
    <3> QED
      BY <2>1, <2>4, <3>1, <3>2, AgentSettles
  <2> QED
    BY <1>4, <2>2, <2>3, <2>4 DEF AgentWorks
<1>5. ASSUME NEW n \in Nodes, NEW p \in A!Plans, Snapshot(n, p) PROVE SettledInv'
  <2>1. Msg("SNAPSHOT", p) \in UpMsgs /\ Msg("SNAPSHOT", p).type \notin Raising
    BY MessagesTyped DEF Msg, Raising
  <2>2. Busy(n)' <=> Busy(n)
    BY <1>5 DEF Snapshot, Busy
  <2> QED
    BY <1>5, <2>1, <2>2, AgentSettles DEF Snapshot
<1>6. ASSUME NEW w \in Ws, ControllerReceives(w) PROVE SettledInv'
  BY <1>6, ReceiveSettles
<1>7. ASSUME NEW w \in Ws, NEW n \in Nodes, ControllerRegisters(w, n) PROVE SettledInv'
  BY <1>7, RegisterSettles
<1>8. ASSUME NEW w \in Ws, ControllerDisconnects(w) PROVE SettledInv'
  BY <1>8 DEF ControllerDisconnects, C!OnDisconnect, SettledInv, Wired
<1>9. CASE HeartbeatRound
  <2>1. \A k \in Nodes : nodes'[k].status \in {nodes[k].status, "offline"}
                        /\ (nodes[k].status = "absent" => nodes'[k].status = "absent")
    BY <1>0, <1>9 DEF HeartbeatRound, C!Heartbeat, C!Known, C!Seen
  <2> QED
    BY <1>9, <2>1, StatusesOnly DEF HeartbeatRound, C!Heartbeat, Raised
<1>10. ASSUME NEW s \in SessionIds, UserStops(s) PROVE SettledInv'
  <2>1. nodes' = C!WithStatus(nodes, participants[s], "connected")
    BY <1>10 DEF UserStops, C!StopSession, C!StoreEnd
  <2>2. \A k \in Nodes : nodes'[k].status \in {nodes[k].status, "connected"}
                        /\ (nodes[k].status = "absent" => nodes'[k].status = "absent")
    BY <1>0, <2>1, WithStatusIs
  <2> QED
    BY <1>10, <2>2, StatusesOnly DEF UserStops, C!StopSession, Raised
<1>11. ASSUME UNCHANGED <<nodes, link, up, wsNode, open, starting, task>> PROVE SettledInv'
  BY <1>11, StatusesOnly
<1>12. ASSUME NEW s \in SessionIds, NEW n \in Nodes, SendRunPlan(s, n) \/ SendStopPlan(s, n)
       PROVE  SettledInv'
  BY <1>11, <1>12 DEF SendRunPlan, SendStopPlan, C!Dispatch, C!Broadcast
<1>13. ASSUME NEW s \in SessionIds, StopReturns(s) PROVE SettledInv'
  BY <1>11, <1>13 DEF StopReturns, C!FinishStop
<1>14. CASE UserCreates \/ UserClears \/ UNCHANGED vars
  BY <1>11, <1>14 DEF UserCreates, UserClears, vars, C!CreateSession, C!ClearSessions
<1>15. CASE Restart
  BY <1>15 DEF Restart, SettledInv, Wired, C!NoNodeState, C!Seen
<1> QED
  BY <1>1, <1>2, <1>3, <1>4, <1>5, <1>6, <1>7, <1>8, <1>9, <1>10, <1>12, <1>13,
     <1>14, <1>15 DEF Next

\* As long as no connection has been lost, an agent that is connected, runs
\* nothing and has nothing on its way to the controller is not listed as RUNNING
\* or in ERROR, whatever plans, stops, failures and restarts of the controller
\* came before: its last PLAN_STOPPED is what the controller reads last.
THEOREM StatusesSettle == Spec => [](faults["drops"] = 0 => StatusSettles)
<1>1. Init => (faults["drops"] = 0 => SettledInv)
  BY NetAssumption DEF Init, C!Init, C!StoreInit, C!NoNodeState, C!Seen, SettledInv, Wired
<1>2. Typed /\ OwnInv /\ A!AgentTypeOK /\ (faults["drops"] = 0 => SettledInv) /\ [Next]_vars
      => (faults["drops"] = 0 => SettledInv)'
  <2> SUFFICES ASSUME Typed, OwnInv, A!AgentTypeOK, faults["drops"] = 0 => SettledInv, [Next]_vars,
                      faults'["drops"] = 0
               PROVE  SettledInv'
    OBVIOUS
  <2>1. faults["drops"] = 0
    BY DropsGrow
  <2> QED
    BY <2>1, SettledStep
<1>3. Typed /\ (faults["drops"] = 0 => SettledInv) => (faults["drops"] = 0 => StatusSettles)
  <2> SUFFICES ASSUME Typed, SettledInv, NEW n \in Nodes,
                      link[n] # NoWs, up[link[n]] = <<>>, A!LoopIdle(n), A!NoTask(n)
               PROVE  nodes[n].status \notin {"running", "error"}
    BY DEF StatusSettles
  <2>1. ~Busy(n)
    BY DEF Busy, A!LoopIdle, A!NoTask, NoPlan
  <2>2. Calms(<<>>, nodes[n].status)
    BY <2>1 DEF SettledInv
  <2> QED
    BY <2>2 DEF Calms, Raised
<1> QED
  BY <1>1, <1>2, <1>3, TypedInvariant, OwnInvariant, PTL DEF Spec
=============================================================================
