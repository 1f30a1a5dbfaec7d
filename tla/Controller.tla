----------------------------- MODULE Controller -----------------------------
(***************************************************************************)
(* controller/main.py: the agent WebSocket handlers, the agent connection  *)
(* registry (agent_bus), the heartbeat task and the REST calls that create,*)
(* stop and clear sessions.  Everything runs on one asyncio loop, so what  *)
(* a handler does between two awaits is one step here; create (which sends *)
(* RUN_PLAN to one node after another) and stop (which sends STOP_PLAN to  *)
(* every connected agent and then disarms RADIUS) await inside and are     *)
(* several steps, between which anything else may happen.                  *)
(*                                                                         *)
(* The agents are this module's environment: any open WebSocket may        *)
(* deliver any message, any number of REGISTERs included, at any time.     *)
(* NetLab.tla joins it with the agents, which send one per connection.     *)
(***************************************************************************)
EXTENDS SessionStore

CONSTANTS
    Ws,                       \* WebSocket connections that can be open at once
    NoWs, NoNode,             \* "None"
    RadiusModes               \* may plans use the built-in RADIUS server?

ASSUME NoneAssumption == NoWs \notin Ws /\ NoNode \notin Nodes
ASSUME ModesAssumption == RadiusModes \subseteq BOOLEAN

VARIABLES
    conns,       \* agent_bus._connections: node -> its current WebSocket
    open,        \* WebSockets whose agent_ws handler is running
    wsNode,      \* the local variable node_id of each handler
    dispatch,    \* session -> nodes its create request has still to send RUN_PLAN
    stopping,    \* sessions whose stop request is still running
    notify,      \* session -> nodes its stop request has still to send STOP_PLAN
    internal,    \* sessions whose plan uses the built-in RADIUS server
    armed        \* session whose users the built-in RADIUS server has

restVars == <<dispatch, stopping, notify, internal, armed>>
ctlVars == <<conns, open, wsNode, restVars>>
vars == <<storeVars, ctlVars>>

TypeOK ==
    /\ StoreTypeOK
    /\ conns \in [Nodes -> Ws \cup {NoWs}]
    /\ open \in SUBSET Ws
    /\ wsNode \in [Ws -> Nodes \cup {NoNode}]
    /\ dispatch \in [SessionIds -> SUBSET Nodes]
    /\ stopping \in SUBSET SessionIds
    /\ notify \in [SessionIds -> SUBSET Nodes]
    /\ internal \in SUBSET SessionIds
    /\ armed \in SessionIds \cup {NoSession}

Init ==
    /\ StoreInit
    /\ conns = [n \in Nodes |-> NoWs]
    /\ open = {}
    /\ wsNode = [w \in Ws |-> NoNode]
    /\ dispatch = [s \in SessionIds |-> {}]
    /\ stopping = {}
    /\ notify = [s \in SessionIds |-> {}]
    /\ internal = {}
    /\ armed = NoSession

-----------------------------------------------------------------------------
(* The agent WebSocket handler (agent_ws) *)

\* ws.accept().  A Ws stands for one connection until its handler has ended and
\* the registry has no entry of it left, and for a new connection after that.
Accept(w) ==
    /\ w \notin open
    /\ \A n \in Nodes : conns[n] # w
    /\ open' = open \cup {w}
    /\ wsNode' = [wsNode EXCEPT ![w] = NoNode]
    /\ UNCHANGED <<storeVars, conns, restVars>>

\* Mutant: takes a node that is still listed for one its handler knows already.
OnRegisterAgain(w, n) ==
    /\ w \in open
    /\ wsNode' = IF Known(nodes, n) THEN wsNode ELSE [wsNode EXCEPT ![w] = n]
    /\ nodes' = Registered(nodes, n)
    /\ conns' = [conns EXCEPT ![n] = w]
    /\ UNCHANGED <<sessionVars, open, restVars>>

\* REGISTER.  From now on the handler speaks for node n, whichever node the
\* connection has registered before; the entries of that one stay.
OnRegister(w, n) ==
    /\ w \in open
    /\ wsNode' = [wsNode EXCEPT ![w] = n]
    /\ nodes' = Registered(nodes, n)
    /\ conns' = [conns EXCEPT ![n] = w]
    /\ UNCHANGED <<sessionVars, open, restVars>>

\* The handlers of the other messages do nothing before REGISTER.
HasNode(w) == w \in open /\ wsNode[w] # NoNode

OnPong(w) ==
    /\ HasNode(w)
    /\ nodes' = Touched(nodes, wsNode[w])
    /\ UNCHANGED <<sessionVars, ctlVars>>

\* Mutant: starts the newest session, whatever has become of it.
OnPlanStartedNewest(w) ==
    /\ HasNode(w)
    /\ nodes' = WithStatus(nodes, {wsNode[w]}, "running")
    /\ IF created > 0 THEN StoreStart(created) ELSE UNCHANGED sessionVars
    /\ UNCHANGED ctlVars

\* The first node to report starts the session; the plan_id is not looked at.
OnPlanStarted(w) ==
    /\ HasNode(w)
    /\ nodes' = WithStatus(nodes, {wsNode[w]}, "running")
    /\ LET s == ActiveSession IN
         IF s # NoSession /\ status[s] = "pending"
           THEN StoreStart(s)
           ELSE UNCHANGED sessionVars
    /\ UNCHANGED ctlVars

\* Mutant: looks for running nodes before it updates the reporting one.
OnPlanStoppedEarlyCheck(w) ==
    LET ns == WithStatus(nodes, {wsNode[w]}, "connected")
        s  == ActiveSession
        quiet == \A n \in participants[s] : nodes[n].status # "running"
    IN  /\ HasNode(w)
        /\ IF s # NoSession /\ quiet
             THEN StoreEnd(ns, s, "complete")
             ELSE nodes' = ns /\ UNCHANGED sessionVars
        /\ UNCHANGED ctlVars

\* Mutant: ignores the report when there is no active session.
OnPlanStoppedActiveOnly(w) ==
    LET ns == WithStatus(nodes, {wsNode[w]}, "connected")
        s  == ActiveSession
        quiet == \A n \in participants[s] : ns[n].status # "running"
    IN  /\ HasNode(w)
        /\ IF s = NoSession
             THEN UNCHANGED storeVars
             ELSE IF quiet THEN StoreEnd(ns, s, "complete")
             ELSE nodes' = ns /\ UNCHANGED sessionVars
        /\ UNCHANGED ctlVars

\* The active session completes when none of its nodes is RUNNING; again the
\* plan_id is not looked at.
OnPlanStopped(w) ==
    LET ns == WithStatus(nodes, {wsNode[w]}, "connected")
        s  == ActiveSession
        quiet == \A n \in participants[s] : ns[n].status # "running"
    IN  /\ HasNode(w)
        /\ IF s # NoSession /\ quiet
             THEN StoreEnd(ns, s, "complete")
             ELSE nodes' = ns /\ UNCHANGED sessionVars
        /\ UNCHANGED ctlVars

OnError(w) ==
    /\ HasNode(w)
    /\ nodes' = WithStatus(nodes, {wsNode[w]}, "error")
    /\ UNCHANGED <<sessionVars, ctlVars>>

\* Mutant: evicts the node whichever connection it has by now.
OnDisconnectAnyWs(w) ==
    /\ w \in open
    /\ open' = open \ {w}
    /\ IF HasNode(w)
         THEN /\ nodes' = Removed(nodes, wsNode[w])
              /\ conns' = [conns EXCEPT ![wsNode[w]] = NoWs]
         ELSE UNCHANGED <<nodes, conns>>
    /\ UNCHANGED <<sessionVars, wsNode, restVars>>

\* Mutant: forgets agent_bus.remove().
OnDisconnectKeepsConn(w) ==
    /\ w \in open
    /\ open' = open \ {w}
    /\ nodes' = IF HasNode(w) /\ conns[wsNode[w]] = w
                  THEN Removed(nodes, wsNode[w]) ELSE nodes
    /\ UNCHANGED <<sessionVars, conns, wsNode, restVars>>

\* The finally block: the node is evicted only by the handler that is current
\* for it.  Its sessions are left as they are.
OnDisconnect(w) ==
    /\ w \in open
    /\ open' = open \ {w}
    /\ IF HasNode(w) /\ conns[wsNode[w]] = w
         THEN /\ nodes' = Removed(nodes, wsNode[w])
              /\ conns' = [conns EXCEPT ![wsNode[w]] = NoWs]
         ELSE UNCHANGED <<nodes, conns>>
    /\ UNCHANGED <<sessionVars, wsNode, restVars>>

\* Mutant: lets a node be silent for one tick more.
HeartbeatLate ==
    /\ nodes' = [n \in Nodes |->
                   IF ~Known(nodes, n) THEN nodes[n]
                   ELSE IF nodes[n].age > OfflineTicks THEN Seen("offline")
                   ELSE [status |-> nodes[n].status, age |-> nodes[n].age + 1]]
    /\ UNCHANGED <<sessionVars, ctlVars>>

\* One round of _heartbeat_loop over all nodes.  Marking a node OFFLINE goes
\* through update_node_status, which resets its last_seen.  Nothing says that a
\* round ever comes: the task is created by an on_event("startup") handler
\* (main.py:355), and an application that is given a lifespan (main.py:192)
\* calls none.  What is proved with rounds that may come holds without them.
Heartbeat ==
    /\ nodes' = [n \in Nodes |->
                   IF ~Known(nodes, n) THEN nodes[n]
                   ELSE IF nodes[n].age = OfflineTicks THEN Seen("offline")
                   ELSE [status |-> nodes[n].status, age |-> nodes[n].age + 1]]
    /\ UNCHANGED <<sessionVars, ctlVars>>

-----------------------------------------------------------------------------
(* The REST calls *)

IdleNodes == {n \in Nodes : nodes[n].status = "connected"}

\* Mutant: the 409 check looks for RUNNING sessions only.
CreateSessionBesidePending(useInternal) ==
    /\ \A s \in SessionIds : status[s] # "running"
    /\ IdleNodes # {}
    /\ created < MaxSessions
    /\ StoreCreate(IdleNodes)
    /\ dispatch' = [dispatch EXCEPT ![created + 1] = IdleNodes]
    /\ internal' = IF useInternal THEN internal \cup {created + 1} ELSE internal
    /\ armed' = IF useInternal THEN created + 1 ELSE armed
    /\ UNCHANGED <<nodes, conns, open, wsNode, stopping, notify>>

\* POST /api/sessions up to its first await: the 409 and 503 checks, the
\* distribution (a plan for every idle node), arming RADIUS in internal mode
\* and creating the session.
CreateSession(useInternal) ==
    /\ LiveSessions = {}
    /\ IdleNodes # {}
    /\ created < MaxSessions
    /\ StoreCreate(IdleNodes)
    /\ dispatch' = [dispatch EXCEPT ![created + 1] = IdleNodes]
    /\ internal' = IF useInternal THEN internal \cup {created + 1} ELSE internal
    /\ armed' = IF useInternal THEN created + 1 ELSE armed
    /\ UNCHANGED <<nodes, conns, open, wsNode, stopping, notify>>

\* ... and its loop: RUN_PLAN to the next node, if it is still connected.
Dispatch(s, n) ==
    /\ n \in dispatch[s]
    /\ dispatch' = [dispatch EXCEPT ![s] = @ \ {n}]
    /\ UNCHANGED <<storeVars, conns, open, wsNode, stopping, notify, internal, armed>>

\* Mutant: without the 409 check.
StopSessionTwice(s) ==
    /\ status[s] # "absent"
    /\ StoreEnd(nodes, s, "stopped")
    /\ stopping' = stopping \cup {s}
    /\ notify' = [notify EXCEPT ![s] = {n \in Nodes : conns[n] # NoWs}]
    /\ UNCHANGED <<conns, open, wsNode, dispatch, internal, armed>>

\* POST .../stop up to its first await: the 404 and 409 checks, the store
\* call, and the list of connections the broadcast will go through.
StopSession(s) ==
    /\ s \in LiveSessions
    /\ StoreEnd(nodes, s, "stopped")
    /\ stopping' = stopping \cup {s}
    /\ notify' = [notify EXCEPT ![s] = {n \in Nodes : conns[n] # NoWs}]
    /\ UNCHANGED <<conns, open, wsNode, dispatch, internal, armed>>

\* ... its broadcast: STOP_PLAN to the next agent on the list.
Broadcast(s, n) ==
    /\ n \in notify[s]
    /\ notify' = [notify EXCEPT ![s] = @ \ {n}]
    /\ UNCHANGED <<storeVars, conns, open, wsNode, dispatch, stopping, internal, armed>>

\* ... and what follows the broadcasts: radius_server.clear_session().
FinishStop(s) ==
    /\ s \in stopping
    /\ notify[s] = {}
    /\ stopping' = stopping \ {s}
    /\ armed' = NoSession
    /\ UNCHANGED <<storeVars, conns, open, wsNode, dispatch, notify, internal>>

\* DELETE /api/sessions.
ClearSessions ==
    /\ StoreClear
    /\ internal' = {s \in internal : status[s] \notin EndStatus}
    /\ UNCHANGED <<nodes, conns, open, wsNode, dispatch, stopping, notify, armed>>

-----------------------------------------------------------------------------

Handler(w) ==
    \/ Accept(w)
    \/ \E n \in Nodes : OnRegister(w, n)
    \/ OnPong(w)
    \/ OnPlanStarted(w)
    \/ OnPlanStopped(w)
    \/ OnError(w)
    \/ OnDisconnect(w)

Request(s) ==
    \/ \E n \in Nodes : Dispatch(s, n)
    \/ StopSession(s)
    \/ \E n \in Nodes : Broadcast(s, n)
    \/ FinishStop(s)

Next ==
    \/ \E w \in Ws : Handler(w)
    \/ Heartbeat
    \/ \E useInternal \in RadiusModes : CreateSession(useInternal)
    \/ \E s \in SessionIds : Request(s)
    \/ ClearSessions

Spec == Init /\ [][Next]_vars

-----------------------------------------------------------------------------
(* Properties *)

\* At most one session is PENDING or RUNNING, however create requests, stop
\* requests and agent messages interleave: the 409 check of create and the
\* insertion of the session are not separated by an await.
OneLiveSession == \A s, t \in LiveSessions : s = t

\* Seen through its active session, the controller is the one-slot machine of
\* TestSlot: no handler starts a session twice, brings an ended one back, or
\* ends one that a later session has replaced.
Slot == INSTANCE TestSlot WITH
    holder <- ActiveSession,
    phase  <- IF LiveSessions = {} THEN "free" ELSE status[ActiveSession],
    issued <- created
ImplementsTestSlot == Slot!SlotSpec

\* A session that was stopped or completed keeps that outcome until it is
\* cleared from the history, and a cleared one does not come back: a late
\* PLAN_STOPPED does not turn a STOPPED session into a COMPLETE one.
OutcomeIsFinal ==
    [][\A s \in SessionIds :
         /\ status[s] \in EndStatus => status'[s] \in {status[s], "absent"}
         /\ status[s] = "absent" /\ s <= created => status'[s] = "absent"]_vars

\* The store and the connection registry list the same nodes; and the entry of a
\* node is its own open connection, whose handler will evict it at its end -
\* unless that connection went on to register another node.  No order of
\* connects, registrations and disconnects leaves a ghost in any other way.
RegistryAgrees ==
    \A n \in Nodes :
        /\ Known(nodes, n) <=> conns[n] # NoWs
        /\ conns[n] # NoWs => \/ conns[n] \in open /\ wsNode[conns[n]] = n
                              \/ wsNode[conns[n]] \in Nodes \ {n}

\* main.py:298-300, evicting the node of a connection that ends: no node stays
\* listed under a connection whose handler has ended.
NoGhosts == \A n \in Nodes : conns[n] # NoWs => conns[n] \in open

\* A node loses its connection only when the handler of that very connection
\* ends: the end of an older connection of the node does not evict it.
OnlyOwnHandlerEvicts ==
    [][\A n \in Nodes :
         conns[n] # NoWs /\ conns'[n] = NoWs => conns[n] \notin open']_vars

\* NetLab-Validation-Tests.md, 11.3, "After 45 s, dashboard marks that node as
\* OFFLINE": a node nothing is heard from any more is eventually listed as OFFLINE
\* (or not listed), whatever its status was when it fell silent, and stays so.
Unheard(n) ==
    nodes'[n] # nodes[n] =>
        \/ nodes'[n].status \in {"absent", "offline"}
        \/ nodes'[n].age = nodes[n].age + 1
SilentNodesGoOffline ==
    \A n \in Nodes :
        <>[][Unheard(n)]_vars => <>[](nodes[n].status \in {"absent", "offline"})

\* main.py:429: an active session in internal mode finds the built-in RADIUS
\* server armed with its users.
ArmedForActiveSession ==
    \A s \in LiveSessions \cap internal : armed = s

\* main.py:524: the credentials of a session do not outlive it; they are there
\* only while it is active or while its stop request is still running.
NoLingeringCredentials ==
    armed # NoSession => armed \in LiveSessions \/ armed \in stopping
=============================================================================
