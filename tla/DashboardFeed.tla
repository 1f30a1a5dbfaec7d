--------------------------- MODULE DashboardFeed ---------------------------
(***************************************************************************)
(* How a dashboard learns what the controller does: the events that the    *)
(* methods of SessionStore emit, DashboardConnections and dashboard_ws of  *)
(* controller/main.py, and the hook useControllerWS of the dashboard.      *)
(*                                                                         *)
(* Every event is broadcast by a task of its own.  A task copies the set   *)
(* of clients when it first runs and sends to one client after another.    *)
(* The module follows one dashboard, with one other client that is served  *)
(* before it: while that one is slow, broadcasts are held up behind it,    *)
(* and when it is gone, those go on one by one while later ones pass.      *)
(*                                                                         *)
(* The actions of Controller are kept, with the events they emit.  ERROR,  *)
(* which emits as PLAN_STARTED does, and the events of alerts, snapshots   *)
(* and pings are left out.                                                 *)
(*                                                                         *)
(* What a connection has accepted counts as shown: it delivers in order,   *)
(* and what is lost with it the state sent to the next one makes good.     *)
(***************************************************************************)
EXTENDS Controller, SequencesExt

CONSTANTS
    MaxQueued,                \* bound: events on their way
    MaxDrops                  \* bound: connections the dashboard loses

ASSUME FeedAssumption ==
    MaxQueued \in Nat /\ MaxDrops \in Nat /\ IsFiniteSet(Nodes)

VARIABLES
    tasks,        \* events whose broadcast task has not run yet
    held,         \* events whose task is suspended behind the other client
    peer,         \* the other client: "quick", "slow" or "gone"
    up,           \* is the dashboard's WebSocket open, and in _clients?
    shownNodes,   \* the hook's nodes: node -> status
    shown,        \* the hook's sessions: session -> status
    refresh,      \* has refreshSessions an answer that it has not shown yet?
    answer,       \* the sessions in that answer
    drops,        \* connections lost
    astray        \* what older news has overwritten and no event has set right

viewVars == <<shownNodes, shown>>
pathVars == <<tasks, held>>
feedVars == <<pathVars, peer, up, viewVars, refresh, answer, drops, astray>>
allVars == <<vars, feedVars>>

\* What an event is about.
NodeKey(n) == <<"node", n>>
SessionKey(s) == <<"session", s>>

Node(n, st) == [of |-> NodeKey(n), status |-> st]
Session(s, st) == [of |-> SessionKey(s), status |-> st]

NodeKeys == {NodeKey(n) : n \in Nodes}
SessionKeys == {SessionKey(s) : s \in SessionIds}
Keys == NodeKeys \cup SessionKeys
Events == [of : NodeKeys, status : NodeStatus \cup {"idle"}]
          \cup [of : SessionKeys, status : SessionStatus]

FeedTypeOK ==
    /\ TypeOK
    /\ tasks \in Seq(Events) /\ held \in Seq(Events)
    /\ peer \in {"quick", "slow", "gone"} /\ up \in BOOLEAN
    /\ shownNodes \in [Nodes -> NodeStatus \cup {"idle"}]
    /\ shown \in [SessionIds -> SessionStatus]
    /\ answer \in [SessionIds -> SessionStatus]
    /\ refresh \in BOOLEAN /\ drops \in 0 .. MaxDrops
    /\ astray \subseteq Keys

FeedInit ==
    /\ Init
    /\ tasks = <<>> /\ held = <<>>
    /\ peer = "quick" /\ up = FALSE
    /\ shownNodes = [n \in Nodes |-> "absent"]
    /\ shown = [s \in SessionIds |-> "absent"]
    /\ refresh = FALSE /\ answer = shown
    /\ drops = 0 /\ astray = {}

-----------------------------------------------------------------------------
(* What the controller's steps emit *)

\* _emit: a task for every event.
Emit(events) ==
    /\ Len(tasks \o held) + Len(events) <= MaxQueued
    /\ tasks' = tasks \o events
    /\ UNCHANGED <<held, peer, up, viewVars, refresh, answer, drops, astray>>

\* update_node_status for every node of N that is known.
NodeEvents(N, st) ==
    LET known == SetToSeq({n \in N : Known(nodes, n)})
    IN  [i \in DOMAIN known |-> Node(known[i], st)]

\* stop_session and complete_session.
EndEvents(s, outcome) ==
    <<Session(s, outcome)>> \o NodeEvents(participants[s], "connected")

\* register_node announces the status of a new NodeState before the handler
\* sets it to CONNECTED.
EmitRegister(w, n) ==
    OnRegister(w, n) /\ Emit(<<Node(n, "idle"), Node(n, "connected")>>)

EmitPlanStarted(w) ==
    LET s == ActiveSession IN
    /\ OnPlanStarted(w)
    /\ Emit(NodeEvents({wsNode[w]}, "running") \o
            IF s # NoSession /\ status[s] = "pending"
              THEN <<Session(s, "running")>> ELSE <<>>)

EmitPlanStopped(w) ==
    LET s == ActiveSession IN
    /\ OnPlanStopped(w)
    /\ Emit(NodeEvents({wsNode[w]}, "connected") \o
            IF s # NoSession /\ status'[s] = "complete"
              THEN EndEvents(s, "complete") ELSE <<>>)

\* Mutant: remove_node tells nobody.
EmitDisconnectSilently(w) ==
    OnDisconnect(w) /\ Emit(<<>>)

\* remove_node, if the handler evicts its node.
EmitDisconnect(w) ==
    /\ OnDisconnect(w)
    /\ Emit(NodeEvents({n \in Nodes : nodes'[n] = NoNodeState}, "offline"))

EmitHeartbeat ==
    /\ Heartbeat
    /\ Emit(NodeEvents({n \in Nodes : nodes[n].age = OfflineTicks}, "offline"))

\* Both RADIUS modes emit the same.
EmitCreate ==
    /\ \E useInternal \in RadiusModes : CreateSession(useInternal)
    /\ Emit(<<Session(created + 1, "pending")>>)

EmitStop(s) ==
    StopSession(s) /\ Emit(EndEvents(s, "stopped"))

\* Steps that emit nothing: a new connection, and clear_sessions for another
\* dashboard.  What create and stop do after their first await is left out, since
\* neither an event nor a guard of a step that emits one depends on it.
Silent ==
    /\ (\E w \in Ws : Accept(w)) \/ ClearSessions
    /\ UNCHANGED feedVars

-----------------------------------------------------------------------------
(* Broadcast tasks and the clients *)

Queued(seq, x) == \E i \in DOMAIN seq : seq[i].of = x

\* ws.onmessage: an update changes one entry, and a node that is offline is
\* taken off.
Receive(e) ==
    \/ \E n \in Nodes :
         /\ e.of = NodeKey(n)
         /\ shownNodes' = [shownNodes EXCEPT ![n] =
               IF e.status = "offline" THEN "absent" ELSE e.status]
         /\ UNCHANGED shown
    \/ \E s \in SessionIds :
         /\ e.of = SessionKey(s)
         /\ shown' = [shown EXCEPT ![s] = e.status]
         /\ UNCHANGED shownNodes

\* The next task runs.  Without a client there is nothing to do; with the other
\* client in the way it is suspended there; otherwise its event passes the held
\* ones, which then arrive after it although they are older.
RunTask ==
    LET e == Head(tasks)
        waits == up /\ peer = "slow"
        arrives == up /\ peer # "slow"
    IN  /\ tasks # <<>>
        /\ tasks' = Tail(tasks)
        /\ held' = IF waits THEN Append(held, e) ELSE held
        /\ IF arrives THEN Receive(e) ELSE UNCHANGED viewVars
        /\ astray' = IF arrives /\ Queued(held, e.of)
                       THEN astray \cup {e.of} ELSE astray \ {e.of}
        /\ UNCHANGED <<vars, peer, up, refresh, answer, drops>>

\* The send to the other client returns or fails, for one task after another.
Resume ==
    /\ held # <<>> /\ peer # "slow"
    /\ held' = Tail(held)
    /\ Receive(Head(held))
    /\ UNCHANGED <<vars, tasks, peer, up, refresh, answer, drops, astray>>

\* The other client slows down, and later it is gone.  (If it keeps up again
\* instead, the broadcasts go on in their order: one of the orders of Resume.)
Peer ==
    /\ \/ peer = "quick" /\ peer' = "slow"
       \/ peer = "slow" /\ peer' = "gone"
    /\ UNCHANGED <<vars, pathVars, up, viewVars, refresh, answer, drops, astray>>

\* dashboard_ws: the client is added and sent the state without an await in
\* between.  Tasks that have not run yet will send it older events after that.
Connect ==
    /\ ~up
    /\ up' = TRUE
    /\ shownNodes' = [n \in Nodes |-> nodes[n].status]
    /\ shown' = status
    /\ astray' = {}
    /\ UNCHANGED <<vars, pathVars, peer, refresh, answer, drops>>

\* The connection is lost with the sends that wait for it; the hook connects again
\* after three seconds and keeps showing what it has.
Drop ==
    /\ up /\ drops < MaxDrops
    /\ up' = FALSE
    /\ held' = <<>>
    /\ drops' = drops + 1
    /\ astray' = {}
    /\ UNCHANGED <<vars, tasks, peer, viewVars, refresh, answer>>

-----------------------------------------------------------------------------
(* "Clear history": handleClear *)

\* refreshSessions: after its DELETE, which is one of the ClearSessions, GET
\* /api/sessions is answered ...
GetSessions ==
    /\ ~refresh
    /\ refresh' = TRUE
    /\ answer' = status
    /\ UNCHANGED <<vars, pathVars, peer, up, viewVars, drops, astray>>

\* The dashboard shows a session as it is; ended ones need not be forgotten.
Shows(v, s) == IF status[s] = "absent" THEN v \notin LiveStatus ELSE v = status[s]

\* An event about x is on its way.
Pending(x) == Queued(tasks, x) \/ Queued(held, x)

\* ... and the answer, which comes by another connection than the events and may
\* be older than what they said, replaces the sessions.
Refreshed ==
    LET known == {s \in SessionIds : ~Pending(SessionKey(s))} IN
    /\ refresh
    /\ refresh' = FALSE
    /\ shown' = answer
    /\ answer' = [s \in SessionIds |-> "absent"]
    /\ astray' = {k \in astray : \A s \in known : k # SessionKey(s)}
                 \cup {SessionKey(s) : s \in {t \in known : ~Shows(answer[t], t)}}
    /\ UNCHANGED <<vars, pathVars, peer, up, shownNodes, drops>>

-----------------------------------------------------------------------------

Emitting ==
    \/ \E w \in Ws :
         \/ \E n \in Nodes : EmitRegister(w, n)
         \/ EmitPlanStarted(w) \/ EmitPlanStopped(w) \/ EmitDisconnect(w)
    \/ EmitHeartbeat
    \/ EmitCreate
    \/ \E s \in SessionIds : EmitStop(s)

FeedNext ==
    \/ Emitting
    \/ Silent
    \/ RunTask \/ Resume \/ Peer
    \/ Connect \/ Drop
    \/ GetSessions \/ Refreshed

FeedSpec == FeedInit /\ [][FeedNext]_allVars

-----------------------------------------------------------------------------
(* Properties *)

\* A dashboard shows every node and every session as the store has it, or an
\* event about it is on its way, whatever connects, reconnects, ends, is cleared
\* and is handled meanwhile.  The exception is what an older event or an older
\* answer has overwritten (astray), and that only until the next event about it or
\* the next connection.  So no ended session is shown as the active one for ever,
\* which would keep the user from starting the next test.
DashboardConverges ==
    up =>
        /\ \A n \in Nodes :
             \/ NodeKey(n) \in astray
             \/ Pending(NodeKey(n))
             \/ shownNodes[n] = nodes[n].status
             \/ {shownNodes[n], nodes[n].status} = {"absent", "offline"}
        /\ \A s \in SessionIds :
             \/ SessionKey(s) \in astray
             \/ Pending(SessionKey(s))
             \/ Shows(shown[s], s)

\* What a user expects of a dashboard without exceptions.  The program does not
\* keep it: events can overtake each other (main.py:97), and the answer of
\* refreshSessions (useController.js:121) can be older than what is shown.
NothingAstray == up => astray = {}
=============================================================================
