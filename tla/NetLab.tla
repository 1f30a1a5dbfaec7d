------------------------------- MODULE NetLab -------------------------------
(***************************************************************************)
(* The controller and its worker agents together: Controller's handlers    *)
(* and AgentLoop's message loops joined by one pair of FIFO channels per   *)
(* WebSocket.  Connections drop, agents reconnect, the controller restarts *)
(* (its store is in memory only), and the user creates, stops and clears   *)
(* sessions through the REST calls.                                        *)
(*                                                                         *)
(* A dropped connection is noticed by the agent at once and by the         *)
(* controller's handler later: until then it reads what had arrived, and   *)
(* it may miss any suffix of it.                                           *)
(***************************************************************************)
EXTENDS Naturals, Sequences, FiniteSets

CONSTANTS
    Nodes, Ws, NoWs, NoNode, MaxSessions, OfflineTicks, Timed,
    Overlap,                  \* may a session be created while agents are busy?
    LateRegister,             \* may a connection drop before its REGISTER is read?
    Telemetry,                \* are SNAPSHOT messages modelled?
    Beats,                    \* are heartbeat rounds modelled?
    MaxFaults                 \* bound: connections lost and controller restarts

ASSUME NetAssumption ==
    /\ {Overlap, LateRegister, Telemetry, Beats} \subseteq BOOLEAN
    /\ {MaxSessions, OfflineTicks, MaxFaults} \subseteq Nat
    /\ Timed \in BOOLEAN
    /\ NoWs \notin Ws /\ NoNode \notin Nodes

VARIABLES
    nodes, status, participants, created,                \* SessionStore
    conns, open, wsNode, dispatch, stopping, notify,     \* Controller
    internal, armed,
    starting, executor, task, bound, stopSet,            \* AgentLoop
    link,        \* node -> the agent's WebSocket, NoWs while it reconnects
    up, down,    \* WebSocket -> messages on their way to / from the controller
    stored,      \* session -> <<node, plan>> whose snapshots were added to it
    faults       \* drops and restarts so far

C == INSTANCE Controller WITH RadiusModes <- {FALSE}
A == INSTANCE AgentLoop

ctlVars == <<nodes, status, participants, created, conns, open, wsNode,
             dispatch, stopping, notify, internal, armed>>
agentVars == <<starting, executor, task, bound, stopSet>>
netVars == <<link, up, down, stored, faults>>
vars == <<ctlVars, agentVars, netVars>>

SessionIds == C!SessionIds
Msg(type, x) == [type |-> type, arg |-> x]     \* x: the plan, or the node of a REGISTER
NoPlan == A!NoPlan

Init ==
    /\ C!Init
    /\ A!AgentInit
    /\ link = [n \in Nodes |-> NoWs]
    /\ up = [w \in Ws |-> <<>>]
    /\ down = [w \in Ws |-> <<>>]
    /\ stored = [s \in SessionIds |-> {}]
    /\ faults = [drops |-> 0, restarts |-> 0]

Fault(what) ==
    /\ faults["drops"] + faults["restarts"] < MaxFaults
    /\ faults' = [faults EXCEPT ![what] = @ + 1]

\* Agent._send: nothing is sent, and nothing is reported, without a connection.
AgentSends(n, m) ==
    up' = IF link[n] = NoWs THEN up ELSE [up EXCEPT ![link[n]] = Append(@, m)]

\* AgentConnections.send: to the node's current connection, if it still lives.
Reaches(n) == conns[n] # NoWs /\ link[n] = conns[n]
ToAgent(n, m) ==
    IF Reaches(n) THEN [down EXCEPT ![conns[n]] = Append(@, m)] ELSE down

-----------------------------------------------------------------------------
(* Agents *)

\* Connect and send REGISTER.  self._ws is set just before, so that nothing
\* the running tasks send gets in front of it.
Connect(n, w) ==
    /\ link[n] = NoWs /\ A!LoopIdle(n)
    /\ \A m \in Nodes : link[m] # w
    /\ C!Accept(w)
    /\ link' = [link EXCEPT ![n] = w]
    /\ up' = [up EXCEPT ![w] = <<Msg("REGISTER", n)>>]
    /\ UNCHANGED <<agentVars, down, stored, faults>>

Drop(n) ==
    /\ link[n] # NoWs
    /\ LateRegister \/ wsNode[link[n]] = n
    /\ Fault("drops")
    /\ link' = [link EXCEPT ![n] = NoWs]
    /\ UNCHANGED <<ctlVars, agentVars, up, down, stored>>

\* The agent's loop takes the next message.
AgentReceives(n) ==
    LET w == link[n]
        m == Head(down[w])
    IN  /\ w # NoWs /\ A!LoopIdle(n) /\ down[w] # <<>>
        /\ down' = [down EXCEPT ![w] = Tail(@)]
        /\ \/ /\ m.type = "PING"
              /\ AgentSends(n, Msg("PONG", NoPlan))
              /\ UNCHANGED agentVars
           \/ /\ m.type = "RUN_PLAN" /\ executor[n] = NoPlan
              /\ A!OnRunPlan(n, m.arg)
              /\ AgentSends(n, Msg("PLAN_STARTED", m.arg))
           \/ /\ m.type = "STOP_PLAN" /\ executor[n] # NoPlan
              /\ A!OnStopPlan(n)
              /\ AgentSends(n, Msg("PLAN_STOPPED", NoPlan))
           \/ /\ \/ m.type = "RUN_PLAN" /\ executor[n] # NoPlan
                 \/ m.type = "STOP_PLAN" /\ executor[n] = NoPlan
              /\ UNCHANGED <<agentVars, up>>
        /\ UNCHANGED <<ctlVars, link, stored, faults>>

\* A step of one of the agent's tasks; two of them send a message.
AgentWorks(n) ==
    /\ \/ /\ \/ A!StartTask(n)
             \/ \E p \in A!Plans : \/ A!BeginRun(n, p) \/ A!SetupDone(n, p)
                                   \/ A!SetupFails(n, p) \/ A!Elapse(n, p)
                                   \/ A!TornDown(n, p) \/ A!ClearExecutor(n, p)
          /\ UNCHANGED up
       \/ \E p \in A!Plans : /\ A!ReportError(n, p)
                             /\ AgentSends(n, Msg("ERROR", NoPlan))
       \/ \E p \in A!Plans : /\ A!ReportStopped(n, p)
                             /\ AgentSends(n, Msg("PLAN_STOPPED", p))
    /\ UNCHANGED <<ctlVars, link, down, stored, faults>>

\* A worker of plan p reports; at most one report per connection is on its way.
Snapshot(n, p) ==
    /\ Telemetry
    /\ task[n][p] = "waiting"
    /\ link[n] # NoWs
    /\ \A i \in DOMAIN up[link[n]] : up[link[n]][i].type # "SNAPSHOT"
    /\ AgentSends(n, Msg("SNAPSHOT", p))
    /\ UNCHANGED <<ctlVars, agentVars, link, down, stored, faults>>

-----------------------------------------------------------------------------
(* Controller *)

\* The handler of w reads its next message.
ControllerReceives(w) ==
    LET m == Head(up[w])
    IN  /\ up[w] # <<>>
        /\ up' = [up EXCEPT ![w] = Tail(@)]
        /\ \/ /\ m.type = "PONG" /\ C!OnPong(w)
              /\ UNCHANGED <<down, stored>>
           \/ /\ m.type = "PLAN_STARTED" /\ C!OnPlanStarted(w)
              /\ UNCHANGED <<down, stored>>
           \/ /\ m.type = "PLAN_STOPPED" /\ C!OnPlanStopped(w)
              /\ UNCHANGED <<down, stored>>
           \/ /\ m.type = "ERROR" /\ C!OnError(w)
              /\ UNCHANGED <<down, stored>>
           \/ /\ m.type = "SNAPSHOT" /\ C!HasNode(w)
              /\ stored' = [s \in SessionIds |->
                    IF s = C!ActiveSession THEN stored[s] \cup {<<wsNode[w], m.arg>>}
                    ELSE stored[s]]
              /\ UNCHANGED <<ctlVars, down>>
        /\ UNCHANGED <<agentVars, link, faults>>

\* REGISTER names the node; the handler answers with the only PING ever sent.
ControllerRegisters(w, n) ==
    /\ up[w] # <<>> /\ Head(up[w]) = Msg("REGISTER", n)
    /\ C!OnRegister(w, n)
    /\ up' = [up EXCEPT ![w] = Tail(@)]
    /\ down' = IF link[n] = w THEN [down EXCEPT ![w] = Append(@, Msg("PING", NoPlan))]
               ELSE down
    /\ UNCHANGED <<agentVars, link, stored, faults>>

\* The handler notices that the connection is gone.
ControllerDisconnects(w) ==
    /\ \A n \in Nodes : link[n] # w
    /\ C!OnDisconnect(w)
    /\ up' = [up EXCEPT ![w] = <<>>]
    /\ down' = [down EXCEPT ![w] = <<>>]
    /\ UNCHANGED <<agentVars, link, stored, faults>>

HeartbeatRound ==
    /\ Beats
    /\ C!Heartbeat
    /\ UNCHANGED <<agentVars, netVars>>

SendRunPlan(s, n) ==
    /\ C!Dispatch(s, n)
    /\ down' = ToAgent(n, Msg("RUN_PLAN", s))
    /\ UNCHANGED <<agentVars, link, up, stored, faults>>

SendStopPlan(s, n) ==
    /\ C!Broadcast(s, n)
    /\ down' = ToAgent(n, Msg("STOP_PLAN", NoPlan))
    /\ UNCHANGED <<agentVars, link, up, stored, faults>>

StopReturns(s) ==
    /\ C!FinishStop(s)
    /\ UNCHANGED <<agentVars, netVars>>

\* The process is restarted: store, registry and requests are gone (session
\* ids are random, so none is used again) and every connection is lost.
Restart ==
    /\ Fault("restarts")
    /\ nodes' = [n \in Nodes |-> C!NoNodeState]
    /\ status' = [s \in SessionIds |-> "absent"]
    /\ participants' = [s \in SessionIds |-> {}]
    /\ conns' = [n \in Nodes |-> NoWs]
    /\ open' = {}
    /\ dispatch' = [s \in SessionIds |-> {}]
    /\ stopping' = {}
    /\ notify' = [s \in SessionIds |-> {}]
    /\ armed' = C!NoSession
    /\ link' = [n \in Nodes |-> NoWs]
    /\ up' = [w \in Ws |-> <<>>]
    /\ down' = [w \in Ws |-> <<>>]
    /\ stored' = [s \in SessionIds |-> {}]
    /\ UNCHANGED <<created, wsNode, internal, agentVars>>

-----------------------------------------------------------------------------
(* The user *)

\* One user, who creates a session when all earlier requests have been answered
\* (in Controller.tla any requests overlap).
Served == \A s \in SessionIds : dispatch[s] = {} /\ s \notin stopping

\* No plan is running or being torn down and no message is on its way.
Settled ==
    /\ \A n \in Nodes : A!LoopIdle(n) /\ A!NoTask(n)
    /\ \A w \in Ws : up[w] = <<>> /\ down[w] = <<>>

UserCreates ==
    /\ Served
    /\ Overlap \/ Settled
    /\ C!CreateSession(FALSE)
    /\ UNCHANGED <<agentVars, netVars>>

\* A stop may come while the create request is still sending RUN_PLANs.
UserStops(s) ==
    /\ C!StopSession(s)
    /\ UNCHANGED <<agentVars, netVars>>

UserClears ==
    /\ C!ClearSessions
    /\ stored' = [s \in SessionIds |-> IF status'[s] = "absent" THEN {} ELSE stored[s]]
    /\ UNCHANGED <<agentVars, link, up, down, faults>>

-----------------------------------------------------------------------------

Next ==
    \/ \E n \in Nodes : \/ \E w \in Ws : Connect(n, w)
                        \/ Drop(n)
                        \/ AgentReceives(n)
                        \/ AgentWorks(n)
                        \/ \E p \in A!Plans : Snapshot(n, p)
    \/ \E w \in Ws : \/ ControllerReceives(w)
                     \/ \E n \in Nodes : ControllerRegisters(w, n)
                     \/ ControllerDisconnects(w)
    \/ HeartbeatRound
    \/ \E s \in SessionIds : \/ \E n \in Nodes : SendRunPlan(s, n) \/ SendStopPlan(s, n)
                             \/ StopReturns(s)
                             \/ UserStops(s)
    \/ UserCreates
    \/ UserClears
    \/ Restart

\* The coroutines: an agent's message loop, the handler of a WebSocket, a create
\* request and a stop request.
AgentLoops(n) ==
    \/ \E w \in Ws : Connect(n, w)
    \/ AgentReceives(n)
    \/ A!StartTask(n) /\ AgentWorks(n)
Handles(w) ==
    \/ ControllerReceives(w)
    \/ \E n \in Nodes : ControllerRegisters(w, n)
    \/ ControllerDisconnects(w)
Creates(s) == \E n \in Nodes : SendRunPlan(s, n)
Stops(s) == (\E n \in Nodes : SendStopPlan(s, n)) \/ StopReturns(s)

\* Both event loops run every coroutine that can run, channels deliver, and an
\* agent without a connection tries again until it gets one.  Heartbeat rounds need
\* not come: the controller does not start the task (see Heartbeat of Controller).
Fairness ==
    /\ \A n \in Nodes :
         /\ WF_vars(AgentLoops(n))
         /\ \A p \in A!Plans : WF_vars(A!FairStep(n, p) /\ AgentWorks(n))
    /\ \A w \in Ws : WF_vars(Handles(w))
    /\ \A s \in SessionIds : WF_vars(Creates(s)) /\ WF_vars(Stops(s))

Spec == Init /\ [][Next]_vars /\ Fairness

-----------------------------------------------------------------------------
(* Properties *)

TypeOK ==
    /\ C!TypeOK
    /\ A!AgentTypeOK
    /\ link \in [Nodes -> Ws \cup {NoWs}]
    /\ \A w \in Ws :
         /\ \A i \in DOMAIN up[w] : up[w][i].type \in
              {"REGISTER", "PONG", "PLAN_STARTED", "PLAN_STOPPED", "ERROR", "SNAPSHOT"}
         /\ \A i \in DOMAIN down[w] : down[w][i].type \in {"PING", "RUN_PLAN", "STOP_PLAN"}
    /\ stored \in [SessionIds -> SUBSET (Nodes \X A!Plans)]

\* AgentLoop's property, of agents that are only sent what the controller sends.
OnePlanAtATime == A!OnePlanAtATime

\* agent.py:17, "Responds to STOP_PLAN and tears down all workers": an agent
\* that generates traffic and was not told to stop has the executor a STOP_PLAN
\* has to stop; without one it ignores STOP_PLAN and the traffic goes on.
ExecutorKnown == A!ExecutorKnown

\* The plan of session s is still ahead of node n, or its task there has not been
\* told to end.  How a teardown goes on from there is PlanWorkers' affair.
OutstandingOn(s, n) ==
    \/ n \in dispatch[s]
    \/ link[n] # NoWs /\ \E i \in DOMAIN down[link[n]] : down[link[n]][i] = Msg("RUN_PLAN", s)
    \/ starting[n] = s
    \/ task[n][s] \in {"ready", "setup", "waiting"}

\* A node to which RUN_PLAN was sent before its STOP_PLAN does not go on with the
\* plan, wherever the stop meets it: the RUN_PLAN still on its way, PLAN_STARTED
\* being sent, the task created, in setup or waiting, and the create request
\* still sending RUN_PLANs to other nodes.  The task is told to end, for good;
\* StopTearsDown of PlanWorkers.tla is about the workers that may then go on.
StopHeeded ==
    \A s \in SessionIds : \A n \in Nodes :
        n \in notify[s] /\ n \notin dispatch[s] ~> []~OutstandingOn(s, n)

\* agent.py:17, "Responds to STOP_PLAN and tears down all workers": a stopped
\* session leaves no node with its plan, a node that got STOP_PLAN first included.
StopEndsPlans ==
    \A s \in SessionIds : \A n \in Nodes :
        status[s] = "stopped" ~> []~OutstandingOn(s, n)

\* A session whose plans have a duration does not stay active for ever.
SessionsEnd ==
    \A s \in SessionIds :
        status[s] \in {"pending", "running"} ~> status[s] \notin {"pending", "running"}

\* main.py:265, "If all nodes running -> mark session as running": a session
\* starts when the last of its nodes does.
StartsWhenAllRunning ==
    [][\A s \in SessionIds :
         status[s] = "pending" /\ status'[s] = "running" =>
           \A n \in participants[s] : nodes'[n].status = "running"]_vars

\* main.py:276, "If all nodes in the active session are now idle, mark it
\* complete": when a session completes, its plan is over on all its nodes.
CompleteWhenNodesIdle ==
    [][\A s \in SessionIds :
         status[s] \in {"pending", "running"} /\ status'[s] = "complete" =>
           \A n \in participants[s] : ~OutstandingOn(s, n)]_vars

\* Once nothing is running on a connected agent and nothing it sent is still
\* on its way, the controller does not list it as RUNNING or in ERROR, so it
\* can be given the next plan.
StatusSettles ==
    \A n \in Nodes :
        /\ link[n] # NoWs /\ conns[n] = link[n] /\ up[link[n]] = <<>>
        /\ A!LoopIdle(n) /\ A!NoTask(n)
        => nodes[n].status \notin {"running", "error"}

\* main.py:252: the session a snapshot is added to is the one the reporting
\* node runs; a session holds no measurement of another session's plan.
SnapshotsOfOwnPlan ==
    \A s \in SessionIds : \A np \in stored[s] : np[2] = s

\* main.py:341, "ping all agents every 15 s": an agent that is connected and
\* has answered every PING it was sent is not listed as OFFLINE.  A heartbeat
\* round, which sends nothing, would list it so when it has had nothing to say.
AnsweringNodesAreOnline ==
    \A n \in Nodes :
        /\ link[n] # NoWs /\ conns[n] = link[n]
        /\ up[link[n]] = <<>> /\ down[link[n]] = <<>>
        => nodes[n].status # "offline"

\* Controller's property, of the agents that really send the messages, which
\* register once per connection: no order of drops, reconnects, late REGISTERs and
\* restarts leaves a node listed under a connection whose handler has ended.
NoGhosts == C!NoGhosts

\* NetLab-Validation-Tests.md, 11.3: "After 45 s, dashboard marks that node as
\* OFFLINE".
SilentNodesGoOffline == C!SilentNodesGoOffline

\* NetLab-Validation-Tests.md, 11.1 and 11.2: once connections have stopped
\* dropping, every agent is and stays listed by the controller, under the very
\* connection it uses.  The end of an older connection of the node does not
\* evict it (main.py:298-300).
NodesReappear ==
    \A n \in Nodes : <>[](link[n] # NoWs /\ conns[n] = link[n] /\ C!Known(nodes, n))

\* NetLab-Validation-Tests.md, 11.4: after a controller restart the telemetry
\* of an agent that has registered again reaches a session of the dashboard.
TelemetryResumes ==
    [][\A w \in Ws :
         up[w] # <<>> /\ Head(up[w]).type = "SNAPSHOT" /\ up'[w] = Tail(up[w]) =>
           \E s \in SessionIds : <<wsNode[w], Head(up[w]).arg>> \in stored'[s]]_vars
=============================================================================
