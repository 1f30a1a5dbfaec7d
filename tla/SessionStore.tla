---------------------------- MODULE SessionStore ----------------------------
(***************************************************************************)
(* controller/session_store.py: the controller's in-memory store of worker *)
(* nodes and test sessions.  The store has no control flow of its own; its *)
(* methods are called by the handlers of controller/main.py, several in a  *)
(* row between two awaits.  A method is therefore an operator on the value *)
(* of the store, and Controller.tla composes them into actions.            *)
(*                                                                         *)
(* Time: last_seen is kept as the number of heartbeat ticks (one per 15 s) *)
(* since it was set; a node is over the 45 s limit at the tick after its   *)
(* OfflineTicks-th, so the code is OfflineTicks = 3.                       *)
(***************************************************************************)
EXTENDS Naturals, FiniteSets

CONSTANTS
    Nodes,                    \* node ids of the worker agents
    MaxSessions,              \* bound: sessions ever created
    OfflineTicks              \* heartbeat ticks a node may be silent

ASSUME StoreAssumption == MaxSessions \in Nat /\ OfflineTicks \in Nat

VARIABLES
    nodes,                    \* _nodes: node id -> status and age of last_seen
    status,                   \* _sessions: session id -> SessionStatus
    participants,             \* session id -> node_ids of the session
    created                   \* sessions ever created

storeVars == <<nodes, status, participants, created>>
sessionVars == <<status, participants, created>>

\* Session ids are random in the code; the dict keeps insertion order, which
\* is what numbering them by creation stands for.
SessionIds == 1 .. MaxSessions
NoSession  == 0

\* IDLE, the default of a new NodeState, never survives the REGISTER handler.
NodeStatus    == {"absent", "connected", "running", "error", "offline"}
SessionStatus == {"absent", "pending", "running", "stopped", "complete"}
LiveStatus    == {"pending", "running"}
EndStatus     == {"stopped", "complete"}

NodeState == [status : NodeStatus, age : 0 .. OfflineTicks]
Seen(st)  == [status |-> st, age |-> 0]
NoNodeState == Seen("absent")

StoreTypeOK ==
    /\ nodes \in [Nodes -> NodeState]
    /\ status \in [SessionIds -> SessionStatus]
    /\ participants \in [SessionIds -> SUBSET Nodes]
    /\ created \in 0 .. MaxSessions

StoreInit ==
    /\ nodes = [n \in Nodes |-> NoNodeState]
    /\ status = [s \in SessionIds |-> "absent"]
    /\ participants = [s \in SessionIds |-> {}]
    /\ created = 0

-----------------------------------------------------------------------------
(* Nodes *)

Known(ns, n) == ns[n].status # "absent"

\* register_node, then update_node_status(CONNECTED) in the same handler step.
Registered(ns, n) == [ns EXCEPT ![n] = Seen("connected")]

\* update_node_status of every node of N: unknown nodes are left alone, and
\* every status change also refreshes last_seen.
WithStatus(ns, N, st) ==
    [n \in Nodes |-> IF n \in N /\ Known(ns, n) THEN Seen(st) ELSE ns[n]]

\* touch_node: last_seen only, the status is not revived.
Touched(ns, n) ==
    [ns EXCEPT ![n] = IF Known(ns, n) THEN Seen(ns[n].status) ELSE @]

\* remove_node.
Removed(ns, n) == [ns EXCEPT ![n] = NoNodeState]

-----------------------------------------------------------------------------
(* Sessions *)

LiveSessions == {s \in SessionIds : status[s] \in LiveStatus}

\* get_active_session: the first live session in insertion order.
ActiveSession ==
    IF LiveSessions = {} THEN NoSession
    ELSE CHOOSE s \in LiveSessions : \A t \in LiveSessions : s <= t

\* create_session.
StoreCreate(N) ==
    /\ created' = created + 1
    /\ status' = [status EXCEPT ![created + 1] = "pending"]
    /\ participants' = [participants EXCEPT ![created + 1] = N]

\* start_session.
StoreStart(s) ==
    /\ status' = [status EXCEPT ![s] = "running"]
    /\ UNCHANGED <<participants, created>>

\* stop_session and complete_session: the session ends and every node of it
\* that is still known goes back to CONNECTED, whatever its status was.
StoreEnd(ns, s, outcome) ==
    /\ status' = [status EXCEPT ![s] = outcome]
    /\ nodes' = WithStatus(ns, participants[s], "connected")
    /\ UNCHANGED <<participants, created>>

\* clear_sessions: deletes the sessions that have ended.
StoreClear ==
    /\ status' = [s \in SessionIds |->
                    IF status[s] \in EndStatus THEN "absent" ELSE status[s]]
    /\ participants' = [s \in SessionIds |->
                    IF status[s] \in EndStatus THEN {} ELSE participants[s]]
    /\ UNCHANGED created
=============================================================================
