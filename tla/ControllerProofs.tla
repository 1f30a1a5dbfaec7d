-------------------------- MODULE ControllerProofs --------------------------
(***************************************************************************)
(* Theorems about Controller, for any number of nodes, connections,        *)
(* sessions and any silence limit.                                         *)
(*                                                                         *)
(* The session theorems rest on the inductive invariant SessionInv: session*)
(* ids beyond "created" are unused, so that the session CreateSession adds *)
(* is a new one, and at most one session is live, which is what the guard  *)
(* of CreateSession preserves.                                             *)
(*                                                                         *)
(* The feed theorems are about DashboardFeed, the same handlers with the   *)
(* event bus and a dashboard.  DashboardConverges rests on FeedInv: of     *)
(* everything on its way about a node or a session, the event that will be *)
(* handled last says what the store holds.                                 *)
(***************************************************************************)
EXTENDS DashboardFeed, FiniteSetTheorems, SequenceTheorems, TLAPS

USE StoreAssumption, NoneAssumption

LEMMA TypeInit == Init => TypeOK
BY DEF Init, StoreInit, TypeOK, StoreTypeOK, SessionIds, NoSession, NodeState,
       NodeStatus, SessionStatus, NoNodeState, Seen

\* The store methods return well-typed node tables.
LEMMA WithStatusType ==
    ASSUME NEW ns \in [Nodes -> NodeState], NEW N, NEW st \in NodeStatus
    PROVE  WithStatus(ns, N, st) \in [Nodes -> NodeState]
BY DEF NodeState, WithStatus, Seen

LEMMA TouchedType ==
    ASSUME NEW ns \in [Nodes -> NodeState], NEW n \in Nodes
    PROVE  Touched(ns, n) \in [Nodes -> NodeState]
BY DEF NodeState, Touched, Seen

LEMMA RemovedType ==
    ASSUME NEW ns \in [Nodes -> NodeState], NEW n \in Nodes
    PROVE  Removed(ns, n) \in [Nodes -> NodeState]
BY DEF NodeState, NodeStatus, Removed, NoNodeState, Seen

\* The active session, when there is one, is one of the live sessions.
LEMMA ActiveIsLive ==
    ASSUME TypeOK, OneLiveSession
    PROVE  /\ LiveSessions = {} => ActiveSession = NoSession
           /\ LiveSessions # {} => ActiveSession \in LiveSessions
<1>1. CASE LiveSessions = {}
  BY <1>1 DEF ActiveSession
<1>2. CASE LiveSessions # {}
  <2>1. PICK s \in LiveSessions : \A t \in LiveSessions : s = t
    BY <1>2 DEF OneLiveSession
  <2>2. s \in Nat
    BY <2>1 DEF LiveSessions, SessionIds
  <2>3. \A t \in LiveSessions : s <= t
    BY <2>1, <2>2
  <2>. QED
    BY <1>2, <2>1, <2>3 DEF ActiveSession
<1>. QED  BY <1>1, <1>2

-----------------------------------------------------------------------------
(* Type correctness *)

LEMMA TypeStep == TypeOK /\ [Next]_vars => TypeOK'
<1> SUFFICES ASSUME TypeOK, [Next]_vars PROVE TypeOK'
  OBVIOUS
<1> USE DEF TypeOK, StoreTypeOK, ctlVars, restVars, storeVars, sessionVars
<1>1. ASSUME NEW w \in Ws, Accept(w) PROVE TypeOK'
  BY <1>1 DEF Accept
<1>2. ASSUME NEW w \in Ws, NEW n \in Nodes, OnRegister(w, n) PROVE TypeOK'
  <2>1. nodes' \in [Nodes -> NodeState]
    BY <1>2 DEF OnRegister, Registered, NodeState, NodeStatus, Seen
  <2>. QED  BY <1>2, <2>1 DEF OnRegister
<1>3. ASSUME NEW w \in Ws, OnPong(w) PROVE TypeOK'
  <2>1. nodes' \in [Nodes -> NodeState]
    BY <1>3, TouchedType DEF OnPong, HasNode
  <2>. QED  BY <1>3, <2>1 DEF OnPong
<1>4. ASSUME NEW w \in Ws, OnPlanStarted(w) PROVE TypeOK'
  <2>1. nodes' \in [Nodes -> NodeState]
    BY <1>4, WithStatusType DEF OnPlanStarted, NodeStatus
  <2>2. status' \in [SessionIds -> SessionStatus] /\ UNCHANGED <<participants, created>>
    BY <1>4 DEF OnPlanStarted, StoreStart, SessionStatus
  <2>. QED  BY <1>4, <2>1, <2>2 DEF OnPlanStarted
<1>5. ASSUME NEW w \in Ws, OnPlanStopped(w) PROVE TypeOK'
  <2> DEFINE ns == WithStatus(nodes, {wsNode[w]}, "connected")
  <2>1. ns \in [Nodes -> NodeState]
    BY <1>5, WithStatusType DEF NodeStatus
  <2>2. UNCHANGED ctlVars
    BY <1>5 DEF OnPlanStopped
  <2>3. CASE nodes' = ns /\ UNCHANGED sessionVars
    BY <2>1, <2>2, <2>3
  <2>4. CASE ActiveSession # NoSession /\ StoreEnd(ns, ActiveSession, "complete")
    <3>1. nodes' \in [Nodes -> NodeState]
      BY <2>1, <2>4, WithStatusType DEF StoreEnd, NodeStatus
    <3>. QED  BY <2>2, <2>4, <3>1 DEF StoreEnd, SessionStatus
  <2>. QED  BY <1>5, <2>3, <2>4 DEF OnPlanStopped
<1>6. ASSUME NEW w \in Ws, OnError(w) PROVE TypeOK'
  <2>1. nodes' \in [Nodes -> NodeState]
    BY <1>6, WithStatusType DEF OnError, NodeStatus
  <2>. QED  BY <1>6, <2>1 DEF OnError
<1>7. ASSUME NEW w \in Ws, OnDisconnect(w) PROVE TypeOK'
  <2>1. CASE HasNode(w) /\ conns[wsNode[w]] = w
    <3>1. wsNode[w] \in Nodes
      BY <2>1 DEF HasNode
    <3>2. nodes' \in [Nodes -> NodeState]
      BY <1>7, <2>1, <3>1, RemovedType DEF OnDisconnect
    <3>. QED  BY <1>7, <2>1, <3>1, <3>2 DEF OnDisconnect
  <2>2. CASE ~(HasNode(w) /\ conns[wsNode[w]] = w)
    BY <1>7, <2>2 DEF OnDisconnect
  <2>. QED  BY <2>1, <2>2
<1>8. CASE Heartbeat
  <2>1. nodes' \in [Nodes -> NodeState]
    <3> SUFFICES ASSUME NEW n \in Nodes
                 PROVE  nodes'[n] \in NodeState
      BY <1>8 DEF Heartbeat
    <3>1. nodes[n] \in NodeState
      OBVIOUS
    <3>2. \/ nodes'[n] = nodes[n]
          \/ nodes'[n] = Seen("offline")
          \/ /\ nodes[n].age # OfflineTicks
             /\ nodes'[n] = [status |-> nodes[n].status, age |-> nodes[n].age + 1]
      BY <1>8, Zenon DEF Heartbeat
    <3>3. CASE nodes'[n] = Seen("offline")
      BY <3>3 DEF NodeState, NodeStatus, Seen
    <3>4. CASE /\ nodes[n].age # OfflineTicks
               /\ nodes'[n] = [status |-> nodes[n].status, age |-> nodes[n].age + 1]
      <4>1. nodes[n].status \in NodeStatus /\ nodes[n].age \in 0 .. OfflineTicks
        BY <3>1 DEF NodeState
      <4>2. nodes[n].age + 1 \in 0 .. OfflineTicks
        BY <3>4, <4>1
      <4>. QED  BY <3>4, <4>1, <4>2 DEF NodeState
    <3>. QED  BY <3>1, <3>2, <3>3, <3>4
  <2>. QED  BY <1>8, <2>1 DEF Heartbeat
<1>9. ASSUME NEW u \in RadiusModes, CreateSession(u) PROVE TypeOK'
  <2>1. created + 1 \in SessionIds /\ created' \in 0 .. MaxSessions
    BY <1>9 DEF CreateSession, StoreCreate, SessionIds
  <2>. QED
    BY <1>9, <2>1 DEF CreateSession, StoreCreate, SessionStatus, IdleNodes
<1>10. ASSUME NEW s \in SessionIds, NEW n \in Nodes, Dispatch(s, n) PROVE TypeOK'
  BY <1>10 DEF Dispatch
<1>11. ASSUME NEW s \in SessionIds, StopSession(s) PROVE TypeOK'
  <2>1. nodes' \in [Nodes -> NodeState]
    BY <1>11, WithStatusType DEF StopSession, StoreEnd, NodeStatus
  <2>. QED  BY <1>11, <2>1 DEF StopSession, StoreEnd, SessionStatus
<1>12. ASSUME NEW s \in SessionIds, NEW n \in Nodes, Broadcast(s, n) PROVE TypeOK'
  BY <1>12 DEF Broadcast
<1>13. ASSUME NEW s \in SessionIds, FinishStop(s) PROVE TypeOK'
  BY <1>13 DEF FinishStop
<1>14. CASE ClearSessions
  BY <1>14 DEF ClearSessions, StoreClear, SessionStatus
<1>15. CASE UNCHANGED vars
  BY <1>15 DEF vars
<1>. QED
  BY <1>1, <1>2, <1>3, <1>4, <1>5, <1>6, <1>7, <1>8, <1>9, <1>10, <1>11, <1>12,
     <1>13, <1>14, <1>15 DEF Next, Handler, Request

\* Every reachable state of the controller is well typed: in particular the
\* age of a node never passes the silence limit.
THEOREM TypeCorrect == Spec => []TypeOK
BY TypeInit, TypeStep, PTL DEF Spec

-----------------------------------------------------------------------------
(* The session slot *)

\* Sessions are created in the order of their ids.
UnusedIds == \A s \in SessionIds : s > created => status[s] = "absent"

SessionInv == UnusedIds /\ OneLiveSession

LEMMA SessionInit == Init => SessionInv
BY DEF Init, StoreInit, SessionInv, UnusedIds, OneLiveSession, LiveSessions,
       LiveStatus

\* No session becomes live, and none is created.
NoNewLive ==
    /\ created' = created
    /\ \A s \in SessionIds :
         /\ status'[s] \in LiveStatus => status[s] \in LiveStatus
         /\ status[s] = "absent" => status'[s] = "absent"

LEMMA NoNewLiveKeepsInv ==
    ASSUME TypeOK, SessionInv, NoNewLive
    PROVE  SessionInv'
BY DEF SessionInv, UnusedIds, OneLiveSession, LiveSessions, NoNewLive,
       TypeOK, StoreTypeOK, SessionIds

LEMMA SessionStep == TypeOK /\ SessionInv /\ [Next]_vars => SessionInv'
<1> SUFFICES ASSUME TypeOK, SessionInv, [Next]_vars PROVE SessionInv'
  OBVIOUS
<1>0. ASSUME UNCHANGED sessionVars PROVE SessionInv'
  BY <1>0 DEF sessionVars, SessionInv, UnusedIds, OneLiveSession, LiveSessions
<1>1. ASSUME NEW w \in Ws, Accept(w) PROVE SessionInv'
  BY <1>0, <1>1 DEF Accept, storeVars, sessionVars
<1>2. ASSUME NEW w \in Ws, NEW n \in Nodes, OnRegister(w, n) PROVE SessionInv'
  BY <1>0, <1>2 DEF OnRegister
<1>3. ASSUME NEW w \in Ws, OnPong(w) PROVE SessionInv'
  BY <1>0, <1>3 DEF OnPong
<1>4. ASSUME NEW w \in Ws, OnPlanStarted(w) PROVE SessionInv'
  <2> DEFINE s == ActiveSession
  <2>1. CASE s # NoSession /\ status[s] = "pending"
    <3>1. s \in LiveSessions
      BY <2>1, ActiveIsLive DEF SessionInv
    <3>2. NoNewLive
      BY <1>4, <2>1, <3>1 DEF OnPlanStarted, StoreStart, NoNewLive, TypeOK,
         StoreTypeOK, LiveStatus, LiveSessions
    <3>. QED  BY <3>2, NoNewLiveKeepsInv
  <2>2. CASE ~(s # NoSession /\ status[s] = "pending")
    BY <1>0, <1>4, <2>2 DEF OnPlanStarted
  <2>. QED  BY <2>1, <2>2
<1>5. ASSUME NEW w \in Ws, OnPlanStopped(w) PROVE SessionInv'
  <2> DEFINE ns == WithStatus(nodes, {wsNode[w]}, "connected")
             s == ActiveSession
  <2>1. CASE UNCHANGED sessionVars
    BY <1>0, <2>1
  <2>2. CASE s # NoSession /\ StoreEnd(ns, s, "complete")
    <3>1. s \in LiveSessions
      BY <2>2, ActiveIsLive DEF SessionInv
    <3>2. NoNewLive
      BY <2>2, <3>1 DEF StoreEnd, NoNewLive, TypeOK, StoreTypeOK, LiveStatus,
         LiveSessions
    <3>. QED  BY <3>2, NoNewLiveKeepsInv
  <2>. QED  BY <1>5, <2>1, <2>2 DEF OnPlanStopped
<1>6. ASSUME NEW w \in Ws, OnError(w) PROVE SessionInv'
  BY <1>0, <1>6 DEF OnError
<1>7. ASSUME NEW w \in Ws, OnDisconnect(w) PROVE SessionInv'
  BY <1>0, <1>7 DEF OnDisconnect
<1>8. CASE Heartbeat
  BY <1>0, <1>8 DEF Heartbeat
<1>9. ASSUME NEW u \in RadiusModes, CreateSession(u) PROVE SessionInv'
  <2>1. /\ LiveSessions = {} /\ created < MaxSessions
        /\ created' = created + 1
        /\ status' = [status EXCEPT ![created + 1] = "pending"]
    BY <1>9 DEF CreateSession, StoreCreate
  <2>2. UnusedIds'
    BY <2>1 DEF SessionInv, UnusedIds, TypeOK, StoreTypeOK, SessionIds
  <2>3. LiveSessions' \subseteq {created + 1}
    BY <2>1 DEF LiveSessions, TypeOK, StoreTypeOK
  <2>. QED  BY <2>2, <2>3 DEF SessionInv, OneLiveSession
<1>10. ASSUME NEW s \in SessionIds, NEW n \in Nodes, Dispatch(s, n) PROVE SessionInv'
  BY <1>0, <1>10 DEF Dispatch, storeVars, sessionVars
<1>11. ASSUME NEW s \in SessionIds, StopSession(s) PROVE SessionInv'
  <2>1. NoNewLive
    BY <1>11 DEF StopSession, StoreEnd, NoNewLive, TypeOK, StoreTypeOK,
       LiveStatus, LiveSessions
  <2>. QED  BY <2>1, NoNewLiveKeepsInv
<1>12. ASSUME NEW s \in SessionIds, NEW n \in Nodes, Broadcast(s, n) PROVE SessionInv'
  BY <1>0, <1>12 DEF Broadcast, storeVars, sessionVars
<1>13. ASSUME NEW s \in SessionIds, FinishStop(s) PROVE SessionInv'
  BY <1>0, <1>13 DEF FinishStop, storeVars, sessionVars
<1>14. CASE ClearSessions
  <2>1. NoNewLive
    BY <1>14 DEF ClearSessions, StoreClear, NoNewLive, LiveStatus, EndStatus
  <2>. QED  BY <2>1, NoNewLiveKeepsInv
<1>15. CASE UNCHANGED vars
  BY <1>0, <1>15 DEF vars, storeVars, sessionVars
<1>. QED
  BY <1>1, <1>2, <1>3, <1>4, <1>5, <1>6, <1>7, <1>8, <1>9, <1>10, <1>11, <1>12,
     <1>13, <1>14, <1>15 DEF Next, Handler, Request

LEMMA SessionInvariant == Spec => []SessionInv
BY SessionInit, SessionStep, TypeCorrect, PTL DEF Spec

\* At most one session is ever PENDING or RUNNING, for any number of nodes and
\* connections and any interleaving of their messages with the REST calls.
THEOREM AtMostOneLiveSession == Spec => []OneLiveSession
BY SessionInvariant, PTL DEF SessionInv

-----------------------------------------------------------------------------
(* The controller implements TestSlot *)

\* A live session is the only one, and the active one.
LEMMA LiveIsActive ==
    TypeOK /\ OneLiveSession =>
      \A s \in LiveSessions : LiveSessions = {s} /\ ActiveSession = s
BY ActiveIsLive DEF OneLiveSession

LEMMA LiveIsActiveNext ==
    (TypeOK /\ OneLiveSession =>
      \A s \in LiveSessions : LiveSessions = {s} /\ ActiveSession = s)'
BY LiveIsActive, PTL

LEMMA SlotInitMaps == Init => Slot!SlotInit
BY DEF Init, StoreInit, Slot!SlotInit, ActiveSession, LiveSessions, LiveStatus,
       NoSession

\* A live session that stops being live frees the slot.
LEMMA EndFreesSlot ==
    ASSUME TypeOK, SessionInv, NEW s \in LiveSessions,
           created' = created, status'[s] \notin LiveStatus,
           \A t \in SessionIds \ {s} : status'[t] = status[t]
    PROVE  Slot!Release
<1>1. LiveSessions = {s} /\ ActiveSession = s
  BY LiveIsActive DEF SessionInv
<1>2. LiveSessions' = {}
  BY <1>1 DEF LiveSessions
<1>3. ActiveSession' = 0
  BY <1>2 DEF ActiveSession, NoSession
<1>4. status[s] # "free"
  BY DEF LiveSessions, LiveStatus
<1>. QED  BY <1>1, <1>2, <1>3, <1>4 DEF Slot!Release

LEMMA SlotStep ==
    TypeOK /\ SessionInv /\ TypeOK' /\ SessionInv' /\ [Next]_vars
      => [Slot!SlotNext]_(Slot!slotVars)
<1> SUFFICES ASSUME TypeOK, SessionInv, TypeOK', SessionInv', [Next]_vars
             PROVE  [Slot!SlotNext]_(Slot!slotVars)
  OBVIOUS
<1>0. ASSUME UNCHANGED <<status, created>> PROVE UNCHANGED Slot!slotVars
  BY <1>0 DEF Slot!slotVars, ActiveSession, LiveSessions
<1>1. ASSUME NEW s \in LiveSessions, status[s] = "pending", StoreStart(s)
      PROVE  Slot!Launch
  <2>1. LiveSessions = {s} /\ ActiveSession = s
    BY <1>1, LiveIsActive DEF SessionInv
  <2>2. status'[s] = "running" /\ s \in LiveSessions'
    BY <1>1 DEF StoreStart, TypeOK, StoreTypeOK, LiveSessions, LiveStatus
  <2>3. LiveSessions' = {s} /\ ActiveSession' = s
    BY <2>2, LiveIsActiveNext DEF SessionInv
  <2>. QED  BY <1>1, <2>1, <2>2, <2>3 DEF Slot!Launch, StoreStart
<1>2. ASSUME NEW w \in Ws, OnPlanStarted(w) PROVE Slot!Launch \/ UNCHANGED <<status, created>>
  BY <1>1, <1>2, ActiveIsLive DEF OnPlanStarted, sessionVars, SessionInv,
     ActiveSession
<1>3. ASSUME NEW ns, NEW s \in LiveSessions, NEW o \in EndStatus, StoreEnd(ns, s, o)
      PROVE  Slot!Release
  <2>1. s \in SessionIds
    BY DEF LiveSessions
  <2>2. status'[s] = o /\ created' = created
        /\ \A t \in SessionIds \ {s} : status'[t] = status[t]
    BY <1>3, <2>1 DEF StoreEnd, TypeOK, StoreTypeOK
  <2>3. status'[s] \notin LiveStatus
    BY <2>2 DEF EndStatus, LiveStatus
  <2>. QED  BY <2>2, <2>3, EndFreesSlot
<1>4. ASSUME NEW w \in Ws, OnPlanStopped(w) PROVE Slot!Release \/ UNCHANGED <<status, created>>
  <2> DEFINE ns == WithStatus(nodes, {wsNode[w]}, "connected")
  <2>1. CASE ActiveSession # NoSession /\ StoreEnd(ns, ActiveSession, "complete")
    <3>1. ActiveSession \in LiveSessions
      BY <2>1, ActiveIsLive DEF SessionInv
    <3>. QED  BY <1>3, <2>1, <3>1 DEF EndStatus
  <2>2. CASE UNCHANGED sessionVars
    BY <2>2 DEF sessionVars
  <2>. QED  BY <1>4, <2>1, <2>2 DEF OnPlanStopped
<1>5. ASSUME NEW u \in RadiusModes, CreateSession(u) PROVE Slot!Take
  <2>1. /\ LiveSessions = {} /\ created < MaxSessions
        /\ created' = created + 1
        /\ status' = [status EXCEPT ![created + 1] = "pending"]
    BY <1>5 DEF CreateSession, StoreCreate
  <2>2. created + 1 \in SessionIds
    BY <2>1 DEF TypeOK, StoreTypeOK, SessionIds
  <2>3. status'[created + 1] = "pending" /\ created + 1 \in LiveSessions'
    BY <2>1, <2>2 DEF TypeOK, StoreTypeOK, LiveSessions, LiveStatus
  <2>4. LiveSessions' = {created + 1} /\ ActiveSession' = created + 1
    BY <2>3, LiveIsActiveNext DEF SessionInv
  <2>. QED  BY <2>1, <2>3, <2>4 DEF Slot!Take
<1>6. ASSUME NEW s \in SessionIds, StopSession(s) PROVE Slot!Release
  BY <1>3, <1>6 DEF StopSession, EndStatus
<1>7. CASE ClearSessions
  <2>1. LiveSessions' = LiveSessions
    BY <1>7 DEF ClearSessions, StoreClear, LiveSessions, LiveStatus, EndStatus
  <2>2. \A s \in LiveSessions : status'[s] = status[s]
    BY <1>7 DEF ClearSessions, StoreClear, LiveSessions, LiveStatus, EndStatus
  <2>3. ActiveSession' = ActiveSession
    BY <2>1 DEF ActiveSession
  <2>4. LiveSessions # {} => status'[ActiveSession] = status[ActiveSession]
    BY <2>2, ActiveIsLive DEF SessionInv
  <2>5. created' = created
    BY <1>7 DEF ClearSessions, StoreClear
  <2>. QED  BY <2>1, <2>3, <2>4, <2>5 DEF Slot!slotVars
<1>8. CASE UNCHANGED <<status, created>>
  BY <1>0, <1>8
<1>9. \/ \E w \in Ws : OnPlanStarted(w) \/ OnPlanStopped(w)
      \/ \E u \in RadiusModes : CreateSession(u)
      \/ \E s \in SessionIds : StopSession(s)
      \/ ClearSessions
      \/ UNCHANGED <<status, created>>
  BY DEF Next, Handler, Request, Accept, OnRegister, OnPong, OnError,
     OnDisconnect, Heartbeat, Dispatch, Broadcast, FinishStop, vars, storeVars,
     sessionVars
<1>. QED
  BY <1>2, <1>4, <1>5, <1>6, <1>7, <1>8, <1>9, <1>0 DEF Slot!SlotNext

\* The controller implements the one-slot machine.
THEOREM ControllerImplementsTestSlot == Spec => ImplementsTestSlot
<1>1. TypeOK /\ SessionInv /\ TypeOK' /\ SessionInv' /\ [Next]_vars
        => [Slot!SlotNext]_(Slot!slotVars)
  BY SlotStep
<1>. QED
  BY <1>1, SlotInitMaps, TypeCorrect, SessionInvariant, PTL
  DEF Spec, ImplementsTestSlot, Slot!SlotSpec

-----------------------------------------------------------------------------
(* The connection registry *)

\* Setting a status neither lists nor unlists a node.
LEMMA WithStatusKnown ==
    ASSUME NEW ns, NEW N, NEW st \in NodeStatus \ {"absent"}, NEW n \in Nodes
    PROVE  Known(WithStatus(ns, N, st), n) <=> Known(ns, n)
BY DEF WithStatus, Known, Seen

\* A step that keeps the connections keeps the agreement when it keeps the
\* set of listed nodes.
LEMMA KeptRegistry ==
    ASSUME RegistryAgrees, UNCHANGED <<conns, open, wsNode>>,
           \A n \in Nodes : Known(nodes', n) <=> Known(nodes, n)
    PROVE  RegistryAgrees'
BY DEF RegistryAgrees, Known

LEMMA RegistryInit == Init => RegistryAgrees
BY DEF Init, StoreInit, RegistryAgrees, Known, NoNodeState, Seen

LEMMA RegistryStep == TypeOK /\ RegistryAgrees /\ [Next]_vars => RegistryAgrees'
<1> SUFFICES ASSUME TypeOK, RegistryAgrees, [Next]_vars PROVE RegistryAgrees'
  OBVIOUS
<1> USE DEF ctlVars, restVars, storeVars, sessionVars
<1>0. ASSUME UNCHANGED <<nodes, conns, open, wsNode>> PROVE RegistryAgrees'
  BY <1>0, KeptRegistry
<1>1. ASSUME NEW w \in Ws, Accept(w) PROVE RegistryAgrees'
  BY <1>1 DEF Accept, RegistryAgrees, Known, TypeOK
<1>2. ASSUME NEW w \in Ws, NEW n \in Nodes, OnRegister(w, n) PROVE RegistryAgrees'
  <2>1. /\ w \in open /\ open' = open
        /\ wsNode' = [wsNode EXCEPT ![w] = n]
        /\ conns' = [conns EXCEPT ![n] = w]
        /\ nodes' = [nodes EXCEPT ![n] = Seen("connected")]
    BY <1>2 DEF OnRegister, Registered
  <2> SUFFICES ASSUME NEW m \in Nodes
               PROVE  /\ Known(nodes', m) <=> conns'[m] # NoWs
                      /\ conns'[m] # NoWs =>
                           \/ conns'[m] \in open' /\ wsNode'[conns'[m]] = m
                           \/ wsNode'[conns'[m]] \in Nodes \ {m}
    BY DEF RegistryAgrees, Known
  <2>2. CASE m = n
    BY <2>1, <2>2 DEF Known, Seen, TypeOK, StoreTypeOK
  <2>3. CASE m # n
    <3>1. conns'[m] = conns[m] /\ nodes'[m] = nodes[m]
      BY <2>1, <2>3 DEF TypeOK, StoreTypeOK
    <3>2. CASE conns[m] = w
      BY <2>1, <2>3, <3>1, <3>2 DEF RegistryAgrees, Known, TypeOK
    <3>3. CASE conns[m] # w
      BY <2>1, <3>1, <3>3 DEF RegistryAgrees, Known, TypeOK
    <3>. QED  BY <3>2, <3>3
  <2>. QED  BY <2>2, <2>3
<1>3. ASSUME NEW w \in Ws, OnPong(w) PROVE RegistryAgrees'
  <2>1. \A n \in Nodes : Known(nodes', n) <=> Known(nodes, n)
    BY <1>3 DEF OnPong, HasNode, Touched, Known, Seen, TypeOK, StoreTypeOK
  <2>. QED  BY <1>3, <2>1, KeptRegistry DEF OnPong
<1>4. ASSUME NEW w \in Ws, OnPlanStarted(w) PROVE RegistryAgrees'
  <2>1. \A n \in Nodes : Known(nodes', n) <=> Known(nodes, n)
    BY <1>4, WithStatusKnown DEF OnPlanStarted, NodeStatus
  <2>. QED  BY <1>4, <2>1, KeptRegistry DEF OnPlanStarted
<1>5. ASSUME NEW w \in Ws, OnPlanStopped(w) PROVE RegistryAgrees'
  <2> DEFINE ns == WithStatus(nodes, {wsNode[w]}, "connected")
  <2>1. \A n \in Nodes : Known(ns, n) <=> Known(nodes, n)
    BY WithStatusKnown DEF NodeStatus
  <2>2. nodes' = ns \/ nodes' = WithStatus(ns, participants[ActiveSession], "connected")
    BY <1>5 DEF OnPlanStopped, StoreEnd
  <2>3. \A n \in Nodes : Known(nodes', n) <=> Known(nodes, n)
    <3> HIDE DEF ns
    <3>. QED  BY <2>1, <2>2, WithStatusKnown DEF NodeStatus
  <2>. QED  BY <1>5, <2>3, KeptRegistry DEF OnPlanStopped
<1>6. ASSUME NEW w \in Ws, OnError(w) PROVE RegistryAgrees'
  <2>1. \A n \in Nodes : Known(nodes', n) <=> Known(nodes, n)
    BY <1>6, WithStatusKnown DEF OnError, NodeStatus
  <2>. QED  BY <1>6, <2>1, KeptRegistry DEF OnError
<1>7. ASSUME NEW w \in Ws, OnDisconnect(w) PROVE RegistryAgrees'
  <2>1. CASE HasNode(w) /\ conns[wsNode[w]] = w
    <3> DEFINE k == wsNode[w]
    <3>1. /\ k \in Nodes /\ open' = open \ {w} /\ wsNode' = wsNode
          /\ conns' = [conns EXCEPT ![k] = NoWs]
          /\ nodes' = [nodes EXCEPT ![k] = NoNodeState]
      BY <1>7, <2>1 DEF OnDisconnect, HasNode, Removed, TypeOK
    <3>2. \A m \in Nodes \ {k} : conns[m] = w => wsNode[conns[m]] \in Nodes \ {m}
      BY <3>1
    <3>3. ~Known(nodes', k) /\ conns'[k] = NoWs
      BY <3>1 DEF Known, NoNodeState, Seen, TypeOK, StoreTypeOK
    <3>4. \A m \in Nodes \ {k} : conns'[m] = conns[m] /\ nodes'[m] = nodes[m]
      BY <3>1 DEF TypeOK, StoreTypeOK
    <3>. QED  BY <3>1, <3>2, <3>3, <3>4 DEF RegistryAgrees, Known
  <2>2. CASE ~(HasNode(w) /\ conns[wsNode[w]] = w)
    <3>1. open' = open \ {w} /\ UNCHANGED <<wsNode, conns, nodes>>
      BY <1>7, <2>2 DEF OnDisconnect
    <3>2. \A m \in Nodes : conns[m] = w => wsNode[conns[m]] \in Nodes \ {m}
      BY <2>2, <1>7, NoneAssumption DEF HasNode, RegistryAgrees, OnDisconnect
    <3>. QED  BY <3>1, <3>2 DEF RegistryAgrees, Known
  <2>. QED  BY <2>1, <2>2
<1>8. CASE Heartbeat
  <2>1. \A n \in Nodes : Known(nodes', n) <=> Known(nodes, n)
    BY <1>8 DEF Heartbeat, Known, Seen
  <2>. QED  BY <1>8, <2>1, KeptRegistry DEF Heartbeat
<1>9. ASSUME NEW u \in RadiusModes, CreateSession(u) PROVE RegistryAgrees'
  BY <1>0, <1>9 DEF CreateSession
<1>10. ASSUME NEW s \in SessionIds, NEW n \in Nodes, Dispatch(s, n) PROVE RegistryAgrees'
  BY <1>0, <1>10 DEF Dispatch
<1>11. ASSUME NEW s \in SessionIds, StopSession(s) PROVE RegistryAgrees'
  <2>1. \A n \in Nodes : Known(nodes', n) <=> Known(nodes, n)
    BY <1>11, WithStatusKnown DEF StopSession, StoreEnd, NodeStatus
  <2>. QED  BY <1>11, <2>1, KeptRegistry DEF StopSession
<1>12. ASSUME NEW s \in SessionIds, NEW n \in Nodes, Broadcast(s, n) PROVE RegistryAgrees'
  BY <1>0, <1>12 DEF Broadcast
<1>13. ASSUME NEW s \in SessionIds, FinishStop(s) PROVE RegistryAgrees'
  BY <1>0, <1>13 DEF FinishStop
<1>14. CASE ClearSessions
  BY <1>0, <1>14 DEF ClearSessions
<1>15. CASE UNCHANGED vars
  BY <1>0, <1>15 DEF vars
<1>. QED
  BY <1>1, <1>2, <1>3, <1>4, <1>5, <1>6, <1>7, <1>8, <1>9, <1>10, <1>11, <1>12,
     <1>13, <1>14, <1>15 DEF Next, Handler, Request

\* The node table and the connection registry never disagree, whatever is
\* registered by which connection in whatever order, and a node is left behind
\* only by a connection that went on to register another.
THEOREM RegistriesAgree == Spec => []RegistryAgrees
BY RegistryInit, RegistryStep, TypeCorrect, PTL DEF Spec

-----------------------------------------------------------------------------
(* Outcomes *)

LEMMA OutcomeStep ==
    TypeOK /\ SessionInv /\ [Next]_vars =>
      [\A s \in SessionIds :
         /\ status[s] \in EndStatus => status'[s] \in {status[s], "absent"}
         /\ status[s] = "absent" /\ s <= created => status'[s] = "absent"]_vars
<1> SUFFICES ASSUME TypeOK, SessionInv, [Next]_vars, NEW s \in SessionIds
             PROVE  /\ status[s] \in EndStatus => status'[s] \in {status[s], "absent"}
                    /\ status[s] = "absent" /\ s <= created => status'[s] = "absent"
  OBVIOUS
<1>1. ASSUME NEW t \in LiveSessions, NEW st, status' = [status EXCEPT ![t] = st], s = t
      PROVE  status[s] \notin EndStatus /\ status[s] # "absent"
  BY <1>1 DEF LiveSessions, LiveStatus, EndStatus
<1>2. ASSUME NEW t \in SessionIds, NEW st, status' = [status EXCEPT ![t] = st], s # t
      PROVE  status'[s] = status[s]
  BY <1>2 DEF TypeOK, StoreTypeOK
<1>3. \/ status' = status
      \/ \E t \in LiveSessions, st \in SessionStatus : status' = [status EXCEPT ![t] = st]
      \/ created < MaxSessions /\ status' = [status EXCEPT ![created + 1] = "pending"]
      \/ ClearSessions
  <2>1. ASSUME NEW w \in Ws, OnPlanStarted(w)
        PROVE  \/ status' = status
               \/ \E t \in LiveSessions : status' = [status EXCEPT ![t] = "running"]
    BY <2>1, ActiveIsLive DEF OnPlanStarted, StoreStart, sessionVars, SessionInv
  <2>2. ASSUME NEW w \in Ws, OnPlanStopped(w)
        PROVE  \/ status' = status
               \/ \E t \in LiveSessions : status' = [status EXCEPT ![t] = "complete"]
    BY <2>2, ActiveIsLive DEF OnPlanStopped, StoreEnd, sessionVars, SessionInv
  <2>3. ASSUME NEW t \in SessionIds, StopSession(t)
        PROVE  t \in LiveSessions /\ status' = [status EXCEPT ![t] = "stopped"]
    BY <2>3 DEF StopSession, StoreEnd
  <2>4. ASSUME NEW u \in RadiusModes, CreateSession(u)
        PROVE  created < MaxSessions /\ status' = [status EXCEPT ![created + 1] = "pending"]
    BY <2>4 DEF CreateSession, StoreCreate
  <2>5. \/ \E w \in Ws : OnPlanStarted(w) \/ OnPlanStopped(w)
        \/ \E u \in RadiusModes : CreateSession(u)
        \/ \E t \in SessionIds : StopSession(t)
        \/ ClearSessions
        \/ status' = status
    BY DEF Next, Handler, Request, Accept, OnRegister, OnPong, OnError,
       OnDisconnect, Heartbeat, Dispatch, Broadcast, FinishStop, vars,
       storeVars, sessionVars
  <2>. QED  BY <2>1, <2>2, <2>3, <2>4, <2>5 DEF SessionStatus
<1>4. CASE \E t \in LiveSessions, st \in SessionStatus : status' = [status EXCEPT ![t] = st]
  BY <1>1, <1>2, <1>4 DEF LiveSessions
<1>5. CASE created < MaxSessions /\ status' = [status EXCEPT ![created + 1] = "pending"]
  <2>1. created + 1 \in SessionIds /\ status[created + 1] = "absent"
    BY <1>5 DEF SessionInv, UnusedIds, TypeOK, StoreTypeOK, SessionIds
  <2>2. s <= created => s # created + 1
    BY DEF TypeOK, StoreTypeOK, SessionIds
  <2>. QED  BY <1>2, <1>5, <2>1, <2>2 DEF EndStatus
<1>6. CASE ClearSessions
  BY <1>6 DEF ClearSessions, StoreClear
<1>. QED  BY <1>3, <1>4, <1>5, <1>6

\* The outcome of a session is final, and ids are not used twice.
THEOREM OutcomesAreFinal == Spec => OutcomeIsFinal
BY OutcomeStep, TypeCorrect, SessionInvariant, PTL DEF Spec, OutcomeIsFinal

\* A node loses its connection only to the end of that connection's handler.
THEOREM OnlyOwnEvicts == Spec => OnlyOwnHandlerEvicts
<1>1. TypeOK /\ [Next]_vars =>
        [\A n \in Nodes :
           conns[n] # NoWs /\ conns'[n] = NoWs => conns[n] \notin open']_vars
  <2> SUFFICES ASSUME TypeOK, [Next]_vars, NEW n \in Nodes,
                      conns[n] # NoWs, conns'[n] = NoWs
               PROVE  conns[n] \notin open'
    OBVIOUS
  <2>1. \/ UNCHANGED conns
        \/ \E w \in Ws, m \in Nodes : OnRegister(w, m)
        \/ \E w \in Ws : OnDisconnect(w)
    BY DEF Next, Handler, Request, Accept, OnPong, OnError, OnPlanStarted,
       OnPlanStopped, Heartbeat, Dispatch, Broadcast, FinishStop, CreateSession,
       StopSession, ClearSessions, vars, ctlVars
  <2>2. ASSUME NEW w \in Ws, NEW m \in Nodes, OnRegister(w, m) PROVE FALSE
    BY <2>2, NoneAssumption DEF OnRegister, TypeOK
  <2>3. ASSUME NEW w \in Ws, OnDisconnect(w) PROVE conns[n] \notin open'
    <3>1. HasNode(w) /\ conns[wsNode[w]] = w /\ conns' = [conns EXCEPT ![wsNode[w]] = NoWs]
      BY <2>3 DEF OnDisconnect
    <3>2. n = wsNode[w]
      BY <3>1 DEF HasNode, TypeOK
    <3>. QED  BY <2>3, <3>1, <3>2 DEF OnDisconnect
  <2>. QED  BY <2>1, <2>2, <2>3
<1>. QED  BY <1>1, TypeCorrect, PTL DEF Spec, OnlyOwnHandlerEvicts

-----------------------------------------------------------------------------
(* The dashboard feed *)

\* e is the last event about x in seq.
LastIn(seq, x, e) ==
    \E i \in DOMAIN seq :
        seq[i] = e /\ e.of = x /\ \A j \in DOMAIN seq : j > i => seq[j].of # x

\* What the hook shows of a node, v, fits its state.
NodeShown(v, n) == v = nodes[n].status \/ {v, nodes[n].status} = {"absent", "offline"}

\* What event e says is so.
Tells(e) ==
    /\ \A n \in Nodes : e.of = NodeKey(n) =>
          NodeShown(IF e.status = "offline" THEN "absent" ELSE e.status, n)
    /\ \A s \in SessionIds : e.of = SessionKey(s) => Shows(e.status, s)

\* What the dashboard shows of x is so.
Viewed(x) ==
    /\ \A n \in Nodes : x = NodeKey(n) => NodeShown(shownNodes[n], n)
    /\ \A s \in SessionIds : x = SessionKey(s) => Shows(shown[s], s)

\* The news that will arrive last about x is right: the last event among the tasks
\* that have not run or else, unless x is astray, the last one held; and where
\* nothing is on its way the dashboard shows x as it is.
Newest(x) ==
    /\ \A e \in Events : LastIn(tasks, x, e) => Tells(e)
    /\ x \notin astray /\ ~Queued(tasks, x) =>
         \A e \in Events : LastIn(held, x, e) => Tells(e)
    /\ up /\ x \notin astray /\ ~Pending(x) => Viewed(x)

LastNews == \A x \in Keys : Newest(x)

\* Nothing is held for a dashboard that is not connected.
HeldWhileUp == ~up => held = <<>>

FeedInv == FeedTypeOK /\ SessionInv /\ LastNews /\ HeldWhileUp

\* Nodes and sessions are told apart.
LEMMA KeysDiffer ==
  /\ \A x, y : NodeKey(x) = NodeKey(y) <=> x = y
  /\ \A x, y : SessionKey(x) = SessionKey(y) <=> x = y
  /\ \A x, y : NodeKey(x) # SessionKey(y)
  BY DEF NodeKey, SessionKey

\* Sequences of events.
LEMMA QueuedIn ==
  ASSUME NEW a \in Seq(Events), NEW b \in Seq(Events), NEW x
  PROVE  Queued(a \o b, x) <=> Queued(a, x) \/ Queued(b, x)
<1>1. /\ a \o b \in Seq(Events) /\ Len(a \o b) = Len(a) + Len(b)
      /\ \A i \in 1 .. Len(a) : (a \o b)[i] = a[i]
      /\ \A i \in 1 .. Len(b) : (a \o b)[Len(a) + i] = b[i]
      /\ Len(a) \in Nat /\ Len(b) \in Nat
      /\ DOMAIN a = 1 .. Len(a) /\ DOMAIN b = 1 .. Len(b)
      /\ DOMAIN (a \o b) = 1 .. Len(a) + Len(b)
  BY ConcatProperties
<1>2. ASSUME Queued(a \o b, x) PROVE Queued(a, x) \/ Queued(b, x)
  <2>1. PICK i \in 1 .. Len(a) + Len(b) : (a \o b)[i].of = x
    BY <1>1, <1>2 DEF Queued
  <2>2. CASE i <= Len(a)
    BY <1>1, <2>1, <2>2 DEF Queued
  <2>3. CASE i > Len(a)
    <3>1. i - Len(a) \in 1 .. Len(b) /\ Len(a) + (i - Len(a)) = i
      BY <1>1, <2>1, <2>3
    <3>2. b[i - Len(a)] = (a \o b)[i]
      BY <1>1, <3>1
    <3> QED
      BY <1>1, <2>1, <3>1, <3>2 DEF Queued
  <2> QED
    BY <1>1, <2>1, <2>2, <2>3
<1>3. ASSUME Queued(a, x) PROVE Queued(a \o b, x)
  BY <1>1, <1>3 DEF Queued
<1>4. ASSUME Queued(b, x) PROVE Queued(a \o b, x)
  <2>1. PICK i \in 1 .. Len(b) : b[i].of = x
    BY <1>1, <1>4 DEF Queued
  <2>2. Len(a) + i \in 1 .. Len(a) + Len(b)
    BY <1>1, <2>1
  <2> QED
    BY <1>1, <2>1, <2>2 DEF Queued
<1> QED
  BY <1>2, <1>3, <1>4

\* The last event about x of two runs of events is that of the second run that has one.
LEMMA LastInConcat ==
  ASSUME NEW a \in Seq(Events), NEW b \in Seq(Events), NEW x, NEW e,
         LastIn(a \o b, x, e)
  PROVE  LastIn(b, x, e) \/ (~Queued(b, x) /\ LastIn(a, x, e))
<1>1. /\ a \o b \in Seq(Events) /\ Len(a \o b) = Len(a) + Len(b)
      /\ \A i \in 1 .. Len(a) : (a \o b)[i] = a[i]
      /\ \A i \in 1 .. Len(b) : (a \o b)[Len(a) + i] = b[i]
      /\ Len(a) \in Nat /\ Len(b) \in Nat
      /\ DOMAIN a = 1 .. Len(a) /\ DOMAIN b = 1 .. Len(b)
      /\ DOMAIN (a \o b) = 1 .. Len(a) + Len(b)
  BY ConcatProperties
<1>2. PICK i \in 1 .. Len(a) + Len(b) :
         /\ (a \o b)[i] = e /\ e.of = x
         /\ \A j \in 1 .. Len(a) + Len(b) : j > i => (a \o b)[j].of # x
  BY <1>1 DEF LastIn
<1>3. ASSUME NEW k \in 1 .. Len(b), Len(a) + k > i PROVE b[k].of # x
  BY <1>1, <1>2, <1>3
<1>4. CASE i <= Len(a)
  <2>1. ~Queued(b, x)
    BY <1>1, <1>2, <1>3, <1>4 DEF Queued
  <2>2. a[i] = e /\ \A j \in 1 .. Len(a) : j > i => a[j].of # x
    <3>1. ASSUME NEW j \in 1 .. Len(a), j > i PROVE a[j].of # x
      BY <1>1, <1>2, <3>1
    <3> QED
      BY <1>1, <1>2, <1>4, <3>1
  <2> QED
    BY <1>1, <1>2, <1>4, <2>1, <2>2 DEF LastIn
<1>5. CASE i > Len(a)
  <2> DEFINE k == i - Len(a)
  <2>1. k \in 1 .. Len(b) /\ Len(a) + k = i
    BY <1>1, <1>2, <1>5
  <2>2. b[k] = e
    BY <1>1, <1>2, <2>1
  <2>3. \A j \in 1 .. Len(b) : j > k => b[j].of # x
    BY <1>1, <1>3, <2>1
  <2> QED
    BY <1>1, <1>2, <2>1, <2>2, <2>3 DEF LastIn
<1> QED
  BY <1>1, <1>2, <1>4, <1>5

\* Of a single event, it is the last.
LEMMA LastInOne ==
  ASSUME NEW f, NEW x, NEW e
  PROVE  /\ LastIn(<<f>>, x, e) => e = f /\ f.of = x
         /\ Queued(<<f>>, x) <=> f.of = x
  BY DEF LastIn, Queued

\* The first event taken away: what it was about, and what stays the last word.
LEMMA InTail ==
  ASSUME NEW a \in Seq(Events), a # <<>>
  PROVE  /\ Head(a) \in Events /\ Tail(a) \in Seq(Events)
         /\ \A x : Queued(a, x) <=> Queued(Tail(a), x) \/ Head(a).of = x
         /\ \A x, e : LastIn(Tail(a), x, e) => LastIn(a, x, e)
         /\ ~Queued(Tail(a), Head(a).of) => LastIn(a, Head(a).of, Head(a))
<1>1. /\ Head(a) \in Events /\ Tail(a) \in Seq(Events) /\ Len(Tail(a)) = Len(a) - 1
      /\ Head(a) = a[1] /\ \A i \in 1 .. Len(a) - 1 : Tail(a)[i] = a[i + 1]
      /\ Len(a) \in Nat /\ Len(a) > 0
      /\ DOMAIN a = 1 .. Len(a) /\ DOMAIN Tail(a) = 1 .. Len(a) - 1
  BY HeadTailProperties, LenProperties, EmptySeq
<1>2. ASSUME NEW j \in 1 .. Len(a), j > 1 PROVE j - 1 \in 1 .. Len(a) - 1 /\ a[j] = Tail(a)[j - 1]
  BY <1>1, <1>2
<1>3. ASSUME NEW x PROVE Queued(a, x) <=> Queued(Tail(a), x) \/ Head(a).of = x
  <2>1. ASSUME Queued(a, x) PROVE Queued(Tail(a), x) \/ Head(a).of = x
    <3>1. PICK i \in 1 .. Len(a) : a[i].of = x
      BY <1>1, <2>1 DEF Queued
    <3>2. CASE i = 1
      BY <1>1, <3>1, <3>2
    <3>3. CASE i > 1
      <4>1. i - 1 \in 1 .. Len(a) - 1 /\ Tail(a)[i - 1].of = x
        BY <1>2, <3>1, <3>3
      <4> QED
        BY <1>1, <4>1 DEF Queued
    <3> QED
      BY <1>1, <3>1, <3>2, <3>3
  <2>2. ASSUME Queued(Tail(a), x) PROVE Queued(a, x)
    <3>1. PICK i \in 1 .. Len(a) - 1 : Tail(a)[i].of = x
      BY <1>1, <2>2 DEF Queued
    <3>2. i + 1 \in 1 .. Len(a) /\ a[i + 1].of = x
      BY <1>1, <3>1
    <3> QED
      BY <1>1, <3>2 DEF Queued
  <2>3. ASSUME Head(a).of = x PROVE Queued(a, x)
    BY <1>1, <2>3 DEF Queued
  <2> QED
    BY <2>1, <2>2, <2>3
<1>4. ASSUME NEW x, NEW e, LastIn(Tail(a), x, e) PROVE LastIn(a, x, e)
  <2>1. PICK i \in 1 .. Len(a) - 1 :
           /\ Tail(a)[i] = e /\ e.of = x
           /\ \A j \in 1 .. Len(a) - 1 : j > i => Tail(a)[j].of # x
    BY <1>1, <1>4 DEF LastIn
  <2>2. i + 1 \in 1 .. Len(a) /\ a[i + 1] = e
    BY <1>1, <2>1
  <2>3. ASSUME NEW j \in 1 .. Len(a), j > i + 1 PROVE a[j].of # x
    <3>1. j > 1 /\ j - 1 > i
      BY <2>1, <2>3
    <3> QED
      BY <1>2, <2>1, <3>1
  <2> QED
    BY <1>1, <2>1, <2>2, <2>3 DEF LastIn
<1>5. ASSUME ~Queued(Tail(a), Head(a).of) PROVE LastIn(a, Head(a).of, Head(a))
  <2>1. ASSUME NEW j \in 1 .. Len(a), j > 1 PROVE a[j].of # Head(a).of
    BY <1>1, <1>2, <1>5, <2>1 DEF Queued
  <2>2. 1 \in 1 .. Len(a) /\ a[1] = Head(a)
    BY <1>1
  <2> QED
    BY <1>1, <2>1, <2>2 DEF LastIn
<1> QED
  BY <1>1, <1>3, <1>4, <1>5

\* NodeEvents has one event for every node of N that is listed.
LEMMA NodeEventsAre ==
  ASSUME NEW N \in SUBSET Nodes, NEW st \in NodeStatus
  PROVE  /\ NodeEvents(N, st) \in Seq(Events)
         /\ \A x : Queued(NodeEvents(N, st), x) <=>
                     \E n \in N : Known(nodes, n) /\ x = NodeKey(n)
         /\ \A x, e : LastIn(NodeEvents(N, st), x, e) =>
                        \E n \in N : Known(nodes, n) /\ e = Node(n, st) /\ x = NodeKey(n)
<1> DEFINE S == {n \in N : Known(nodes, n)}
           q == SetToSeq(S)
           ev == [i \in DOMAIN q |-> Node(q[i], st)]
<1>1. IsFiniteSet(S)
  BY FeedAssumption, FS_Subset
<1>2. PICK c \in Nat : c = Cardinality(S) /\ ExistsBijection(1 .. c, S)
  BY <1>1, FS_CardinalityType
<1>3. \E f \in [1 .. Cardinality(S) -> S] : IsInjective(f)
  <2>1. PICK f : f \in Bijection(1 .. c, S)
    BY <1>2 DEF ExistsBijection
  <2>2. f \in [1 .. c -> S] /\ IsInjective(f)
    BY <2>1 DEF Bijection, Injection, IsInjective
  <2> QED
    BY <1>2, <2>2
<1>4. q \in [1 .. c -> S] /\ IsInjective(q)
  BY <1>2, <1>3 DEF SetToSeq
<1>5. \A n \in S : \E i \in 1 .. c : q[i] = n
  <2>1. IsFiniteSet(1 .. c) /\ Cardinality(1 .. c) = c
    BY FS_Interval, <1>2
  <2>2. q \in Injection(1 .. c, S)
    BY <1>4 DEF Injection, IsInjective
  <2>3. q \in Surjection(1 .. c, S)
    BY <1>1, <1>2, <2>1, <2>2, FS_Injection
  <2> QED
    BY <2>3 DEF Surjection
<1> HIDE DEF q
<1>6. /\ DOMAIN ev = 1 .. c
      /\ \A i \in 1 .. c : ev[i] = Node(q[i], st) /\ q[i] \in S
  BY <1>4
<1>7. NodeEvents(N, st) = ev
  BY DEF NodeEvents, q
<1>8. \A n \in S : Node(n, st) \in Events
  BY DEF Node, Events, NodeKeys
<1>9. ev \in Seq(Events)
  <2>1. ev \in [1 .. c -> Events]
    BY <1>4, <1>8
  <2> HIDE DEF ev
  <2> QED
    BY <1>2, <2>1, SeqDef
<1> HIDE DEF ev
<1>10. ASSUME NEW x PROVE Queued(ev, x) <=> \E n \in N : Known(nodes, n) /\ x = NodeKey(n)
  BY <1>5, <1>6 DEF Queued, Node
<1>11. ASSUME NEW x, NEW e, LastIn(ev, x, e)
       PROVE  \E n \in N : Known(nodes, n) /\ e = Node(n, st) /\ x = NodeKey(n)
  BY <1>6, <1>11 DEF LastIn, Node
<1> QED
  BY <1>7, <1>9, <1>10, <1>11

-----------------------------------------------------------------------------
(* Steps that emit *)

\* What an event says stays so while the state of what it is about does.
LEMMA TellsStable ==
  ASSUME NEW e,
         \A n \in Nodes : e.of = NodeKey(n) => nodes'[n].status = nodes[n].status,
         \A s \in SessionIds : e.of = SessionKey(s) => status'[s] = status[s],
         Tells(e)
  PROVE  Tells(e)'
  BY DEF Tells, NodeShown, Shows

\* A view stays right of what keeps its status and is shown the same.
LEMMA ViewedStable ==
  ASSUME NEW x, UNCHANGED viewVars,
         \A n \in Nodes : x = NodeKey(n) => nodes'[n].status = nodes[n].status,
         \A s \in SessionIds : x = SessionKey(s) => status'[s] = status[s],
         Viewed(x)
  PROVE  Viewed(x)'
  BY DEF Viewed, NodeShown, Shows, viewVars

\* A step that announces everything it changes, last of all the outcome, keeps
\* the newest news right.
LEMMA EmitKeeps ==
  ASSUME FeedInv, TypeOK', SessionInv', NEW events \in Seq(Events), Emit(events),
         \A n \in Nodes : Queued(events, NodeKey(n)) \/ nodes'[n].status = nodes[n].status,
         \A s \in SessionIds : Queued(events, SessionKey(s)) \/ status'[s] = status[s],
         \A x \in Keys : \A e \in Events : LastIn(events, x, e) => Tells(e)'
  PROVE  FeedInv'
<1> USE DEF Emit
<1>1. tasks \in Seq(Events) /\ held \in Seq(Events)
  BY DEF FeedInv, FeedTypeOK
<1>2. FeedTypeOK'
  <2>1. tasks' \in Seq(Events)
    BY <1>1, ConcatProperties
  <2> QED
    BY <2>1 DEF FeedInv, FeedTypeOK, viewVars
<1>3. HeldWhileUp'
  BY DEF FeedInv, HeldWhileUp
<1>4. ASSUME NEW x \in Keys PROVE Newest(x)'
  <2>1. Newest(x)
    BY DEF FeedInv, LastNews
  <2>2. Queued(tasks', x) <=> Queued(tasks, x) \/ Queued(events, x)
    BY <1>1, QueuedIn
  <2>3. ~Queued(events, x) =>
           /\ \A n \in Nodes : x = NodeKey(n) => nodes'[n].status = nodes[n].status
           /\ \A s \in SessionIds : x = SessionKey(s) => status'[s] = status[s]
    OBVIOUS
  <2>4. ASSUME NEW e \in Events, e.of = x, ~Queued(events, x), Tells(e) PROVE Tells(e)'
    BY <2>3, <2>4, TellsStable
  <2>5. ASSUME NEW e \in Events, LastIn(tasks', x, e) PROVE Tells(e)'
    <3>1. CASE LastIn(events, x, e)
      BY <3>1
    <3>2. CASE ~Queued(events, x) /\ LastIn(tasks, x, e)
      <4>1. Tells(e) /\ e.of = x
        BY <2>1, <3>2 DEF Newest, LastIn
      <4> QED
        BY <2>4, <3>2, <4>1
    <3> QED
      BY <1>1, <2>5, <3>1, <3>2, LastInConcat
  <2>6. ASSUME x \notin astray, ~Queued(tasks', x), NEW e \in Events, LastIn(held, x, e)
        PROVE  Tells(e)'
    <3>1. Tells(e) /\ e.of = x
      BY <2>1, <2>2, <2>6 DEF Newest, LastIn
    <3> QED
      BY <2>2, <2>4, <2>6, <3>1
  <2>7. ASSUME up, x \notin astray, ~Pending(x)' PROVE Viewed(x)'
    <3>1. ~Queued(events, x) /\ Viewed(x)
      BY <2>1, <2>2, <2>7 DEF Newest, Pending
    <3> QED
      BY <2>3, <3>1, ViewedStable
  <2> QED
    BY <2>5, <2>6, <2>7 DEF Newest
<1> QED
  BY <1>2, <1>3, <1>4 DEF FeedInv, LastNews

\* The events about the nodes of N, all of which come to have the status they
\* announce.
LEMMA NodesTold ==
  ASSUME NEW N \in SUBSET Nodes, NEW st \in NodeStatus,
         \A n \in N : Known(nodes, n) =>
             IF st = "offline" THEN nodes'[n].status \in {"absent", "offline"}
             ELSE nodes'[n].status = st
  PROVE  /\ NodeEvents(N, st) \in Seq(Events)
         /\ \A n \in Nodes : Queued(NodeEvents(N, st), NodeKey(n)) <=> n \in N /\ Known(nodes, n)
         /\ \A x : \A e : LastIn(NodeEvents(N, st), x, e) => Tells(e)'
<1>1. \A n \in Nodes : Queued(NodeEvents(N, st), NodeKey(n)) <=> n \in N /\ Known(nodes, n)
  <2>1. \A x : Queued(NodeEvents(N, st), x) <=> \E n \in N : Known(nodes, n) /\ x = NodeKey(n)
    BY NodeEventsAre
  <2>2. \A n \in Nodes : Queued(NodeEvents(N, st), NodeKey(n)) <=>
                         \E m \in N : Known(nodes, m) /\ NodeKey(n) = NodeKey(m)
    BY <2>1, Zenon
  <2> QED
    BY <2>2, KeysDiffer
<1>2. ASSUME NEW x, NEW e, LastIn(NodeEvents(N, st), x, e) PROVE Tells(e)'
  <2>1. \A y, f : LastIn(NodeEvents(N, st), y, f) =>
                    \E n \in N : Known(nodes, n) /\ f = Node(n, st) /\ y = NodeKey(n)
    BY NodeEventsAre
  <2>2. PICK n \in N : Known(nodes, n) /\ e = Node(n, st)
    BY <1>2, <2>1, Zenon
  <2>3. e.of = NodeKey(n) /\ e.status = st
    BY <2>2 DEF Node
  <2>4. CASE st = "offline"
    BY <2>2, <2>3, <2>4, KeysDiffer DEF Tells, NodeShown
  <2>5. CASE st # "offline"
    BY <2>2, <2>3, <2>5, KeysDiffer DEF Tells, NodeShown
  <2> QED
    BY <2>4, <2>5
<1> QED
  BY <1>1, <1>2, NodeEventsAre

\* Events one after the other.
LEMMA BothTold ==
  ASSUME NEW a \in Seq(Events), NEW b \in Seq(Events),
         \A x : \A e : LastIn(a, x, e) => Tells(e)',
         \A x : \A e : LastIn(b, x, e) => Tells(e)'
  PROVE  /\ a \o b \in Seq(Events)
         /\ \A x : Queued(a \o b, x) <=> Queued(a, x) \/ Queued(b, x)
         /\ \A x : \A e : LastIn(a \o b, x, e) => Tells(e)'
<1>1. a \o b \in Seq(Events)
  BY ConcatProperties
<1>2. \A x : Queued(a \o b, x) <=> Queued(a, x) \/ Queued(b, x)
  BY QueuedIn
<1>3. ASSUME NEW x, NEW e, LastIn(a \o b, x, e) PROVE Tells(e)'
  BY <1>3, LastInConcat
<1> QED
  BY <1>1, <1>2, <1>3

\* A session's event is an event.
LEMMA SessionEvent ==
  ASSUME NEW s \in SessionIds, NEW st \in SessionStatus
  PROVE  Session(s, st) \in Events /\ <<Session(s, st)>> \in Seq(Events)
  BY DEF Session, Events, SessionKeys

LEMMA SessionStatusTold ==
  ASSUME NEW a \in SessionIds, status'[a] \in SessionStatus \ {"absent"},
         \A t \in SessionIds : t # a => status'[t] = status[t]
  PROVE  /\ <<Session(a, status'[a])>> \in Seq(Events)
         /\ \A t \in SessionIds : Queued(<<Session(a, status'[a])>>, SessionKey(t))
                                  \/ status'[t] = status[t]
         /\ \A x : \A e : LastIn(<<Session(a, status'[a])>>, x, e) => Tells(e)'
<1> DEFINE f == Session(a, status'[a])
<1>1. f.of = SessionKey(a) /\ f.status = status'[a]
  BY DEF Session
<1>2. <<f>> \in Seq(Events)
  BY SessionEvent
<1> HIDE DEF f
<1>3. \A t \in SessionIds : Queued(<<f>>, SessionKey(t)) \/ status'[t] = status[t]
  BY <1>1, LastInOne
<1>4. ASSUME NEW x, NEW e, LastIn(<<f>>, x, e) PROVE Tells(e)'
  <2>1. e = f
    BY <1>4, LastInOne
  <2>2. e.of = SessionKey(a) /\ e.status = status'[a]
    BY <1>1, <2>1
  <2> QED
    BY <2>2, KeysDiffer DEF Tells, Shows
<1> QED
  BY <1>2, <1>3, <1>4 DEF f

\* Every handler, with the events it emits, keeps the feed's invariant.
LEMMA RegisterKeeps ==
  ASSUME FeedInv, TypeOK', SessionInv', NEW w \in Ws, NEW n \in Nodes, EmitRegister(w, n) PROVE FeedInv'
<1> DEFINE idle == Node(n, "idle")
           conn == Node(n, "connected")
           ev == <<idle, conn>>
<1>1. ev \in Seq(Events) /\ Emit(ev) /\ OnRegister(w, n)
  BY DEF EmitRegister, Node, Events, NodeKeys, NodeStatus
<1>2. nodes' = [nodes EXCEPT ![n] = Seen("connected")] /\ status' = status
  BY <1>1 DEF OnRegister, Registered, sessionVars
<1>3. nodes \in [Nodes -> NodeState]
  BY DEF FeedInv, FeedTypeOK, TypeOK, StoreTypeOK
<1>4. idle.of = NodeKey(n) /\ conn.of = NodeKey(n) /\ conn.status = "connected"
  BY DEF Node
<1> HIDE DEF idle, conn
<1>5. Queued(ev, NodeKey(n))
  BY <1>4 DEF Queued
<1>6. \A x, e : LastIn(ev, x, e) => e = conn
  BY <1>4 DEF LastIn
<1>7. Tells(conn)'
  BY <1>2, <1>3, <1>4, KeysDiffer DEF Tells, NodeShown, Seen
<1>8. \A m \in Nodes : m # n => nodes'[m] = nodes[m]
  BY <1>2, <1>3
<1> HIDE DEF ev
<1> QED
  BY <1>1, <1>2, <1>5, <1>6, <1>7, <1>8, EmitKeeps

LEMMA StartedKeeps ==
  ASSUME FeedInv, TypeOK', SessionInv', NEW w \in Ws, EmitPlanStarted(w) PROVE FeedInv'
<1> DEFINE s == ActiveSession
           N == {wsNode[w]}
           ne == NodeEvents(N, "running")
           se == IF s # NoSession /\ status[s] = "pending"
                   THEN <<Session(s, "running")>> ELSE <<>>
<1>1. TypeOK /\ N \in SUBSET Nodes
  BY DEF EmitPlanStarted, OnPlanStarted, HasNode, FeedInv, FeedTypeOK, TypeOK
<1>2. nodes' = WithStatus(nodes, N, "running") /\ Emit(ne \o se)
  BY DEF EmitPlanStarted, OnPlanStarted
<1>3. /\ ne \in Seq(Events)
      /\ \A n \in Nodes : Queued(ne, NodeKey(n)) \/ nodes'[n].status = nodes[n].status
      /\ \A x : \A e : LastIn(ne, x, e) => Tells(e)'
  <2>1. \A n \in N : Known(nodes, n) => nodes'[n].status = "running"
    BY <1>1, <1>2 DEF WithStatus, Seen
  <2>2. \A n \in Nodes : ~(n \in N /\ Known(nodes, n)) => nodes'[n].status = nodes[n].status
    BY <1>2 DEF WithStatus
  <2> QED
    BY <1>1, <2>1, <2>2, NodesTold DEF NodeStatus
<1>4. /\ se \in Seq(Events)
      /\ \A t \in SessionIds : Queued(se, SessionKey(t)) \/ status'[t] = status[t]
      /\ \A x, e : LastIn(se, x, e) => Tells(e)'
  <2>1. status \in [SessionIds -> SessionStatus]
    BY <1>1 DEF TypeOK, StoreTypeOK
  <2>2. CASE s # NoSession /\ status[s] = "pending"
    <3>1. s \in SessionIds
      BY <1>1, <2>2, ActiveIsLive DEF FeedInv, SessionInv, LiveSessions, ActiveSession
    <3>2. status' = [status EXCEPT ![s] = "running"]
      BY <2>2 DEF EmitPlanStarted, OnPlanStarted, StoreStart
    <3>3. se = <<Session(s, "running")>>
      BY <2>2
    <3> HIDE DEF s, se
    <3>4. PICK a \in SessionIds : a = s
      BY <3>1
    <3>5. status'[a] = "running" /\ \A t \in SessionIds : t # a => status'[t] = status[t]
      BY <2>1, <3>2, <3>4
    <3>6. se = <<Session(a, status'[a])>>
      BY <3>3, <3>4, <3>5
    <3> QED
      BY <3>5, <3>6, SessionStatusTold, Zenon DEF SessionStatus
  <2>3. CASE ~(s # NoSession /\ status[s] = "pending")
    <3>1. se = <<>> /\ status' = status
      BY <2>3 DEF EmitPlanStarted, OnPlanStarted, sessionVars
    <3> QED
      BY <3>1 DEF LastIn
  <2> QED
    BY <2>2, <2>3
<1> HIDE DEF ne, se, N
<1>5. /\ ne \o se \in Seq(Events)
      /\ \A x : Queued(ne \o se, x) <=> Queued(ne, x) \/ Queued(se, x)
      /\ \A x : \A e : LastIn(ne \o se, x, e) => Tells(e)'
  BY <1>3, <1>4, BothTold
<1> QED
  BY <1>2, <1>3, <1>4, <1>5, EmitKeeps

\* stop_session and complete_session announce the session and all its nodes.
LEMMA EndTold ==
  ASSUME TypeOK, NEW a \in SessionIds, NEW st \in EndStatus,
         status' = [status EXCEPT ![a] = st],
         \A n \in participants[a] : Known(nodes, n) => nodes'[n].status = "connected"
  PROVE  /\ EndEvents(a, st) \in Seq(Events)
         /\ \A t \in SessionIds : Queued(EndEvents(a, st), SessionKey(t)) \/ status'[t] = status[t]
         /\ \A n \in participants[a] : Known(nodes, n) => Queued(EndEvents(a, st), NodeKey(n))
         /\ \A x : \A e : LastIn(EndEvents(a, st), x, e) => Tells(e)'
<1> DEFINE se == <<Session(a, status'[a])>>
           ne == NodeEvents(participants[a], "connected")
<1>1. /\ status \in [SessionIds -> SessionStatus] /\ participants[a] \in SUBSET Nodes
      /\ st \in SessionStatus \ {"absent"}
  BY DEF TypeOK, StoreTypeOK, EndStatus, SessionStatus
<1>2. status'[a] = st /\ \A t \in SessionIds : t # a => status'[t] = status[t]
  BY <1>1
<1>3. EndEvents(a, st) = se \o ne
  BY <1>2 DEF EndEvents
<1>4. /\ se \in Seq(Events)
      /\ \A t \in SessionIds : Queued(se, SessionKey(t)) \/ status'[t] = status[t]
      /\ \A x : \A e : LastIn(se, x, e) => Tells(e)'
  BY <1>1, <1>2, SessionStatusTold
<1>5. /\ ne \in Seq(Events)
      /\ \A n \in Nodes : Queued(ne, NodeKey(n)) <=> n \in participants[a] /\ Known(nodes, n)
      /\ \A x : \A e : LastIn(ne, x, e) => Tells(e)'
  BY <1>1, NodesTold DEF NodeStatus
<1> HIDE DEF se, ne
<1>6. /\ se \o ne \in Seq(Events)
      /\ \A x : Queued(se \o ne, x) <=> Queued(se, x) \/ Queued(ne, x)
      /\ \A x : \A e : LastIn(se \o ne, x, e) => Tells(e)'
  BY <1>4, <1>5, BothTold
<1> QED
  BY <1>1, <1>3, <1>4, <1>5, <1>6

LEMMA StopKeeps ==
  ASSUME FeedInv, TypeOK', SessionInv', NEW a \in SessionIds, EmitStop(a) PROVE FeedInv'
<1> DEFINE ev == EndEvents(a, "stopped")
<1>1. TypeOK /\ nodes \in [Nodes -> NodeState]
  BY DEF FeedInv, FeedTypeOK, TypeOK, StoreTypeOK
<1>2. /\ status' = [status EXCEPT ![a] = "stopped"]
      /\ nodes' = WithStatus(nodes, participants[a], "connected")
      /\ Emit(ev)
  BY DEF EmitStop, StopSession, StoreEnd
<1>3. \A n \in participants[a] : Known(nodes, n) => nodes'[n].status = "connected"
  BY <1>1, <1>2 DEF WithStatus, Seen, TypeOK, StoreTypeOK
<1>4. \A n \in Nodes : ~(n \in participants[a] /\ Known(nodes, n)) => nodes'[n].status = nodes[n].status
  BY <1>2 DEF WithStatus
<1>5. /\ ev \in Seq(Events)
      /\ \A t \in SessionIds : Queued(ev, SessionKey(t)) \/ status'[t] = status[t]
      /\ \A n \in participants[a] : Known(nodes, n) => Queued(ev, NodeKey(n))
      /\ \A x : \A e : LastIn(ev, x, e) => Tells(e)'
  BY <1>1, <1>2, <1>3, EndTold DEF EndStatus
<1> HIDE DEF ev
<1> QED
  BY <1>2, <1>4, <1>5, EmitKeeps

LEMMA CreateKeeps ==
  ASSUME FeedInv, TypeOK', SessionInv', EmitCreate PROVE FeedInv'
<1>1. /\ created + 1 \in SessionIds /\ status \in [SessionIds -> SessionStatus]
  BY DEF FeedInv, FeedTypeOK, TypeOK, StoreTypeOK, EmitCreate, CreateSession, SessionIds
<1>2. PICK a \in SessionIds : a = created + 1
  BY <1>1
<1>3. status'[a] = "pending" /\ \A t \in SessionIds : t # a => status'[t] = status[t]
  BY <1>1, <1>2 DEF EmitCreate, CreateSession, StoreCreate
<1>4. Emit(<<Session(a, status'[a])>>) /\ nodes' = nodes
  BY <1>2, <1>3 DEF EmitCreate, CreateSession
<1> DEFINE ev == <<Session(a, status'[a])>>
<1>5. /\ ev \in Seq(Events)
      /\ \A t \in SessionIds : Queued(ev, SessionKey(t)) \/ status'[t] = status[t]
      /\ \A x : \A e : LastIn(ev, x, e) => Tells(e)'
  BY <1>3, SessionStatusTold DEF SessionStatus
<1> HIDE DEF ev
<1> QED
  BY <1>4, <1>5, EmitKeeps DEF ev

LEMMA StoppedKeeps ==
  ASSUME FeedInv, TypeOK', SessionInv', NEW w \in Ws, EmitPlanStopped(w) PROVE FeedInv'
<1> DEFINE s == ActiveSession
           N == {wsNode[w]}
           ns == WithStatus(nodes, N, "connected")
           ne == NodeEvents(N, "connected")
<1>1. TypeOK /\ N \in SUBSET Nodes /\ nodes \in [Nodes -> NodeState]
  BY DEF EmitPlanStopped, OnPlanStopped, HasNode, FeedInv, FeedTypeOK, TypeOK, StoreTypeOK
<1>2. /\ \A n \in Nodes : Known(ns, n) <=> Known(nodes, n)
      /\ \A n \in N : Known(nodes, n) => ns[n].status = "connected"
      /\ \A n \in Nodes : ~(n \in N /\ Known(nodes, n)) => ns[n] = nodes[n]
  BY <1>1, WithStatusKnown DEF WithStatus, Seen, Known
<1>3. CASE s # NoSession /\ status'[s] = "complete"
  <2>1. s \in SessionIds /\ status[s] # "complete"
    BY <1>1, <1>3, ActiveIsLive DEF FeedInv, SessionInv, LiveSessions, LiveStatus, ActiveSession
  <2>2. /\ status' = [status EXCEPT ![s] = "complete"]
        /\ nodes' = WithStatus(ns, participants[s], "connected")
        /\ Emit(ne \o EndEvents(s, "complete"))
    BY <1>3, <2>1 DEF EmitPlanStopped, OnPlanStopped, StoreEnd, sessionVars
  <2> HIDE DEF s
  <2>3. PICK a \in SessionIds : a = s
    BY <2>1
  <2>4. /\ status' = [status EXCEPT ![a] = "complete"]
        /\ nodes' = WithStatus(ns, participants[a], "connected")
        /\ Emit(ne \o EndEvents(a, "complete"))
    BY <2>2, <2>3
  <2>5. participants[a] \in SUBSET Nodes
    BY <1>1 DEF TypeOK, StoreTypeOK
  <2>6. \A n \in N \cup participants[a] : Known(nodes, n) => nodes'[n].status = "connected"
    <3>1. \A n \in Nodes : nodes'[n] = IF n \in participants[a] /\ Known(ns, n)
                                        THEN Seen("connected") ELSE ns[n]
      BY <2>4 DEF WithStatus
    <3> HIDE DEF ns, N
    <3> QED
      BY <1>1, <1>2, <2>5, <3>1 DEF Seen
  <2>7. \A n \in Nodes : ~(n \in N \cup participants[a] /\ Known(nodes, n)) => nodes'[n].status = nodes[n].status
    <3>1. \A n \in Nodes : nodes'[n] = IF n \in participants[a] /\ Known(ns, n)
                                        THEN Seen("connected") ELSE ns[n]
      BY <2>4 DEF WithStatus
    <3> HIDE DEF ns, N
    <3> QED
      BY <1>1, <1>2, <2>5, <3>1 DEF Seen
  <2> DEFINE ee == EndEvents(a, "complete")
  <2>8. /\ ee \in Seq(Events)
        /\ \A t \in SessionIds : Queued(ee, SessionKey(t)) \/ status'[t] = status[t]
        /\ \A n \in participants[a] : Known(nodes, n) => Queued(ee, NodeKey(n))
        /\ \A x : \A e : LastIn(ee, x, e) => Tells(e)'
    BY <1>1, <2>4, <2>6, EndTold DEF EndStatus
  <2> HIDE DEF ee
  <2>9. /\ ne \in Seq(Events)
        /\ \A n \in Nodes : Queued(ne, NodeKey(n)) <=> n \in N /\ Known(nodes, n)
        /\ \A x : \A e : LastIn(ne, x, e) => Tells(e)'
    BY <1>1, <2>6, NodesTold DEF NodeStatus
  <2> HIDE DEF ne, N, ns
  <2>10. /\ ne \o ee \in Seq(Events)
         /\ \A x : Queued(ne \o ee, x) <=> Queued(ne, x) \/ Queued(ee, x)
         /\ \A x : \A e : LastIn(ne \o ee, x, e) => Tells(e)'
    BY <2>8, <2>9, BothTold
  <2>11. Emit(ne \o ee)
    BY <2>4 DEF ee
  <2>12. \A n \in Nodes : Queued(ne \o ee, NodeKey(n)) \/ nodes'[n].status = nodes[n].status
    BY <2>7, <2>8, <2>9, <2>10
  <2>13. \A t \in SessionIds : Queued(ne \o ee, SessionKey(t)) \/ status'[t] = status[t]
    BY <2>8, <2>10
  <2> QED
    BY <2>10, <2>11, <2>12, <2>13, EmitKeeps
<1>4. CASE ~(s # NoSession /\ status'[s] = "complete")
  <2>1. status' = status /\ nodes' = ns /\ Emit(ne \o <<>>)
    <3>1. s # NoSession => s \in SessionIds
      BY <1>1, ActiveIsLive DEF FeedInv, SessionInv, LiveSessions, ActiveSession
    <3>2. s # NoSession /\ StoreEnd(ns, s, "complete") => status'[s] = "complete"
      BY <3>1, <1>1 DEF StoreEnd, TypeOK, StoreTypeOK
    <3> QED
      BY <1>4, <3>2 DEF EmitPlanStopped, OnPlanStopped, sessionVars
  <2>2. /\ ne \in Seq(Events)
        /\ \A n \in Nodes : Queued(ne, NodeKey(n)) <=> n \in N /\ Known(nodes, n)
        /\ \A x : \A e : LastIn(ne, x, e) => Tells(e)'
    BY <1>1, <1>2, <2>1, NodesTold DEF NodeStatus
  <2> HIDE DEF ne, N, ns
  <2>3. ne \o <<>> = ne
    BY <2>2, ConcatEmptySeq
  <2> QED
    BY <1>2, <2>1, <2>2, <2>3, EmitKeeps
<1> QED
  BY <1>3, <1>4

LEMMA DisconnectKeeps ==
  ASSUME FeedInv, TypeOK', SessionInv', NEW w \in Ws, EmitDisconnect(w) PROVE FeedInv'
<1> DEFINE N == {n \in Nodes : nodes'[n] = NoNodeState}
           ne == NodeEvents(N, "offline")
<1>1. Emit(ne) /\ status' = status /\ OnDisconnect(w)
  BY DEF EmitDisconnect, OnDisconnect, sessionVars
<1>2. \A n \in Nodes : nodes'[n] \in {nodes[n], NoNodeState}
  BY <1>1 DEF OnDisconnect, Removed, FeedInv, FeedTypeOK, TypeOK, StoreTypeOK
<1>3. \A n \in N : nodes'[n].status = "absent"
  BY DEF NoNodeState, Seen
<1>4. PICK M \in SUBSET Nodes : M = N
  OBVIOUS
<1>5. /\ ne \in Seq(Events)
      /\ \A n \in Nodes : Queued(ne, NodeKey(n)) <=> n \in N /\ Known(nodes, n)
      /\ \A x : \A e : LastIn(ne, x, e) => Tells(e)'
  <2> HIDE DEF N
  <2> QED
    BY <1>3, <1>4, NodesTold DEF NodeStatus
<1>6. ASSUME NEW n \in Nodes, ~(n \in N /\ Known(nodes, n)) PROVE nodes'[n].status = nodes[n].status
  <2>1. CASE n \in N
    BY <1>3, <1>6, <2>1 DEF Known
  <2>2. CASE n \notin N
    BY <1>2, <2>2
  <2> QED
    BY <2>1, <2>2
<1> HIDE DEF ne, N
<1> QED
  BY <1>1, <1>5, <1>6, EmitKeeps

LEMMA HeartbeatKeeps ==
  ASSUME FeedInv, TypeOK', SessionInv', EmitHeartbeat PROVE FeedInv'
<1> DEFINE N == {n \in Nodes : nodes[n].age = OfflineTicks}
           ne == NodeEvents(N, "offline")
<1>1. Emit(ne) /\ status' = status /\ Heartbeat
  BY DEF EmitHeartbeat, Heartbeat, sessionVars
<1>2. \A n \in Nodes :
         nodes'[n].status = IF n \in N /\ Known(nodes, n) THEN "offline" ELSE nodes[n].status
  BY <1>1 DEF Heartbeat, Seen
<1>3. N \in SUBSET Nodes
  OBVIOUS
<1> HIDE DEF N
<1>4. /\ ne \in Seq(Events)
      /\ \A n \in Nodes : Queued(ne, NodeKey(n)) <=> n \in N /\ Known(nodes, n)
      /\ \A x : \A e : LastIn(ne, x, e) => Tells(e)'
  BY <1>2, <1>3, NodesTold DEF NodeStatus
<1> HIDE DEF ne
<1> QED
  BY <1>1, <1>2, <1>4, EmitKeeps

-----------------------------------------------------------------------------
(* Steps on the way to the dashboard *)

\* Clearing the history makes no news wrong.
LEMMA SilentKeeps ==
  ASSUME FeedInv, TypeOK', SessionInv', Silent PROVE FeedInv'
<1>1. UNCHANGED feedVars /\ nodes' = nodes
  BY DEF Silent, Accept, ClearSessions, storeVars, sessionVars
<1>2. \A s \in SessionIds :
         status'[s] = status[s] \/ (status[s] \in EndStatus /\ status'[s] = "absent")
  <2>1. CASE ClearSessions
    BY <2>1 DEF ClearSessions, StoreClear
  <2>2. CASE \E w \in Ws : Accept(w)
    BY <2>2 DEF Accept, storeVars
  <2> QED
    BY <2>1, <2>2 DEF Silent
<1>3. \A v : \A s \in SessionIds : Shows(v, s) => Shows(v, s)'
  BY <1>2 DEF Shows, EndStatus, LiveStatus
<1>4. ASSUME NEW e, Tells(e) PROVE Tells(e)'
  BY <1>1, <1>3, <1>4 DEF Tells, NodeShown
<1>5. ASSUME NEW x, Viewed(x) PROVE Viewed(x)'
  BY <1>1, <1>3, <1>5 DEF Viewed, NodeShown, feedVars, viewVars
<1>6. /\ UNCHANGED <<tasks, held, peer, up, refresh, answer, drops, astray>>
      /\ UNCHANGED <<shownNodes, shown>>
  BY <1>1 DEF feedVars, pathVars, viewVars
<1>7. ASSUME NEW x \in Keys, Newest(x) PROVE Newest(x)'
  BY <1>4, <1>5, <1>6, <1>7 DEF Newest, Pending
<1>8. LastNews'
  BY <1>7 DEF FeedInv, LastNews
<1>9. FeedTypeOK' /\ HeldWhileUp'
  BY <1>6 DEF FeedInv, FeedTypeOK, HeldWhileUp
<1> QED
  BY <1>8, <1>9 DEF FeedInv

\* While the controller does nothing, what is said and shown stays as right as it
\* was.
LEMMA TellsKept == ASSUME NEW e, UNCHANGED vars PROVE Tells(e)' <=> Tells(e)
  BY DEF Tells, NodeShown, Shows, vars, storeVars, sessionVars

LEMMA ViewedKept ==
  ASSUME NEW x, UNCHANGED vars,
         \A n \in Nodes : x = NodeKey(n) => shownNodes'[n] = shownNodes[n],
         \A s \in SessionIds : x = SessionKey(s) => shown'[s] = shown[s]
  PROVE  Viewed(x)' <=> Viewed(x)
  BY DEF Viewed, NodeShown, Shows, vars, storeVars, sessionVars

\* A step of the feed alone leaves the controller's invariants.
LEMMA ControlKept == ASSUME FeedInv, UNCHANGED vars PROVE TypeOK' /\ SessionInv'
<1>1. TypeOK'
  BY TypeStep DEF FeedInv, FeedTypeOK
<1>2. SessionInv'
  BY SessionStep DEF FeedInv, FeedTypeOK
<1> QED
  BY <1>1, <1>2

\* An event that arrives is shown, and nothing else changes.
LEMMA Received ==
  ASSUME FeedTypeOK, NEW e \in Events, UNCHANGED vars, Receive(e)
  PROVE  /\ shownNodes' \in [Nodes -> NodeStatus \cup {"idle"}]
         /\ shown' \in [SessionIds -> SessionStatus]
         /\ \A x \in Keys : x # e.of => (Viewed(x)' <=> Viewed(x))
         /\ Tells(e) => Viewed(e.of)'
<1>0. /\ shownNodes \in [Nodes -> NodeStatus \cup {"idle"}]
      /\ shown \in [SessionIds -> SessionStatus]
  BY DEF FeedTypeOK
<1>1. ASSUME NEW n \in Nodes, e.of = NodeKey(n),
             shownNodes' = [shownNodes EXCEPT ![n] = IF e.status = "offline" THEN "absent" ELSE e.status],
             UNCHANGED shown
      PROVE  /\ shownNodes' \in [Nodes -> NodeStatus \cup {"idle"}]
             /\ shown' \in [SessionIds -> SessionStatus]
             /\ \A x \in Keys : x # e.of => (Viewed(x)' <=> Viewed(x))
             /\ Tells(e) => Viewed(e.of)'
  <2>1. e.status \in NodeStatus \cup {"idle"}
    BY <1>1, KeysDiffer DEF Events, SessionKeys
  <2>2. shownNodes' \in [Nodes -> NodeStatus \cup {"idle"}]
    BY <1>0, <1>1, <2>1 DEF NodeStatus
  <2>3. ASSUME NEW x \in Keys, x # e.of PROVE Viewed(x)' <=> Viewed(x)
    BY <1>0, <1>1, <2>3, ViewedKept
  <2>4. shownNodes'[n] = IF e.status = "offline" THEN "absent" ELSE e.status
    BY <1>0, <1>1
  <2>5. ASSUME Tells(e) PROVE Viewed(e.of)'
    <3>1. PICK x : x = e.of
      OBVIOUS
    <3>2. Tells(e)'
      BY <2>5, TellsKept
    <3>3. Viewed(x)'
      BY <1>1, <2>4, <3>1, <3>2, KeysDiffer DEF Tells, Viewed
    <3> QED
      BY <3>1, <3>3
  <2> QED
    BY <1>0, <1>1, <2>2, <2>3, <2>5
<1>2. ASSUME NEW s \in SessionIds, e.of = SessionKey(s),
             shown' = [shown EXCEPT ![s] = e.status],
             UNCHANGED shownNodes
      PROVE  /\ shownNodes' \in [Nodes -> NodeStatus \cup {"idle"}]
             /\ shown' \in [SessionIds -> SessionStatus]
             /\ \A x \in Keys : x # e.of => (Viewed(x)' <=> Viewed(x))
             /\ Tells(e) => Viewed(e.of)'
  <2>1. e.status \in SessionStatus
    BY <1>2, KeysDiffer DEF Events, NodeKeys
  <2>2. shown' \in [SessionIds -> SessionStatus]
    BY <1>0, <1>2, <2>1
  <2>3. ASSUME NEW x \in Keys, x # e.of PROVE Viewed(x)' <=> Viewed(x)
    BY <1>0, <1>2, <2>3, ViewedKept
  <2>4. shown'[s] = e.status
    BY <1>0, <1>2
  <2>5. ASSUME Tells(e) PROVE Viewed(e.of)'
    <3>1. PICK x : x = e.of
      OBVIOUS
    <3>2. Tells(e)'
      BY <2>5, TellsKept
    <3>3. Viewed(x)'
      BY <1>2, <2>4, <3>1, <3>2, KeysDiffer DEF Tells, Viewed
    <3> QED
      BY <3>1, <3>3
  <2> QED
    BY <1>0, <1>2, <2>2, <2>3, <2>5
<1> QED
  BY <1>1, <1>2 DEF Receive

\* So do the steps of the feed itself, one lemma each.
LEMMA RunTaskKeeps == ASSUME FeedInv, RunTask PROVE FeedInv'
<1> DEFINE e == Head(tasks)
           x == e.of
           waits == up /\ peer = "slow"
           arrives == up /\ peer # "slow"
<1>1. /\ tasks \in Seq(Events) /\ held \in Seq(Events) /\ tasks # <<>>
      /\ FeedTypeOK /\ astray \subseteq Keys
  BY DEF FeedInv, FeedTypeOK, RunTask
<1>2. /\ tasks' = Tail(tasks)
      /\ held' = IF waits THEN Append(held, e) ELSE held
      /\ IF arrives THEN Receive(e) ELSE UNCHANGED viewVars
      /\ astray' = IF arrives /\ Queued(held, x) THEN astray \cup {x} ELSE astray \ {x}
      /\ UNCHANGED <<vars, peer, up, refresh, answer, drops>>
  BY DEF RunTask
<1>3. /\ e \in Events /\ Tail(tasks) \in Seq(Events)
      /\ \A y : Queued(tasks, y) <=> Queued(Tail(tasks), y) \/ x = y
      /\ \A y, f : LastIn(Tail(tasks), y, f) => LastIn(tasks, y, f)
      /\ ~Queued(Tail(tasks), x) => LastIn(tasks, x, e)
  BY <1>1, InTail
<1> HIDE DEF e
<1>4. x \in Keys
  BY <1>3 DEF Events, Keys
<1>5. /\ Append(held, e) = held \o <<e>> /\ <<e>> \in Seq(Events) /\ Append(held, e) \in Seq(Events)
  BY <1>1, <1>3, AppendIsConcat
<1>6. TypeOK' /\ SessionInv'
  BY <1>2, ControlKept
<1>7. /\ shownNodes' \in [Nodes -> NodeStatus \cup {"idle"}]
      /\ shown' \in [SessionIds -> SessionStatus]
  BY <1>1, <1>2, <1>3, Received DEF FeedTypeOK, viewVars
<1>8. FeedTypeOK'
  BY <1>1, <1>2, <1>3, <1>4, <1>5, <1>6, <1>7 DEF FeedTypeOK
<1>9. HeldWhileUp'
  BY <1>2 DEF FeedInv, HeldWhileUp
<1>10. ~Queued(Tail(tasks), x) => Tells(e)
  BY <1>3, <1>4 DEF FeedInv, LastNews, Newest
<1>11. ASSUME NEW y PROVE Queued(Append(held, e), y) <=> Queued(held, y) \/ x = y
  <2>1. Queued(held \o <<e>>, y) <=> Queued(held, y) \/ Queued(<<e>>, y)
    BY <1>1, <1>5, QueuedIn
  <2>2. Queued(<<e>>, y) <=> x = y
    BY LastInOne
  <2> QED
    BY <1>5, <2>1, <2>2
<1>12. ASSUME NEW y \in Keys PROVE Newest(y)'
  <2>1. Newest(y)
    BY DEF FeedInv, LastNews
  <2>2. ASSUME NEW f \in Events, LastIn(tasks', y, f) PROVE Tells(f)'
    BY <1>2, <1>3, <2>1, <2>2, TellsKept DEF Newest
  <2>3. ASSUME y \notin astray', ~Queued(tasks', y), NEW f \in Events, LastIn(held', y, f)
        PROVE  Tells(f)'
    <3>1. CASE y = x
      <4>1. Tells(e)
        BY <1>2, <1>10, <2>3, <3>1
      <4>2. CASE waits
        <5>1. LastIn(held \o <<e>>, x, f)
          BY <1>2, <1>5, <2>3, <3>1, <4>2
        <5>2. LastIn(<<e>>, x, f) \/ ~Queued(<<e>>, x)
          BY <1>1, <1>5, <5>1, LastInConcat
        <5>3. f = e
          BY <5>2, LastInOne
        <5> QED
          BY <1>2, <4>1, <5>3, TellsKept
      <4>3. CASE arrives
        <5>1. ~Queued(held, x) /\ held' = held
          BY <1>2, <2>3, <3>1, <4>3
        <5> QED
          BY <2>3, <3>1, <5>1 DEF Queued, LastIn
      <4>4. CASE ~up
        <5>1. held' = <<>>
          BY <1>2, <4>4 DEF FeedInv, HeldWhileUp
        <5> QED
          BY <2>3, <5>1 DEF LastIn
      <4> QED
        BY <4>2, <4>3, <4>4
    <3>2. CASE y # x
      <4>1. y \notin astray /\ ~Queued(tasks, y)
        BY <1>2, <1>3, <2>3, <3>2
      <4>2. LastIn(held, y, f)
        <5>1. CASE waits
          <6>1. LastIn(held \o <<e>>, y, f)
            BY <1>2, <1>5, <2>3, <5>1
          <6>2. LastIn(<<e>>, y, f) \/ LastIn(held, y, f)
            BY <1>1, <1>5, <6>1, LastInConcat
          <6> QED
            BY <3>2, <6>2, LastInOne
        <5>2. CASE ~waits
          BY <1>2, <2>3, <5>2
        <5> QED
          BY <5>1, <5>2
      <4> QED
        BY <1>2, <2>1, <4>1, <4>2, TellsKept DEF Newest
    <3> QED
      BY <3>1, <3>2
  <2>4. ASSUME up', y \notin astray', ~Pending(y)' PROVE Viewed(y)'
    <3>1. ~Queued(Tail(tasks), y) /\ ~Queued(held', y) /\ up
      BY <1>2, <2>4 DEF Pending
    <3>2. CASE y = x
      <4>1. arrives
        BY <1>2, <1>11, <3>1, <3>2
      <4>2. Tells(e) /\ Receive(e)
        BY <1>2, <1>10, <3>1, <3>2, <4>1
      <4> QED
        BY <1>1, <1>2, <1>3, <3>2, <4>2, Received
    <3>3. CASE y # x
      <4>1. y \notin astray /\ ~Queued(tasks, y)
        BY <1>2, <1>3, <2>4, <3>1, <3>3
      <4>2. ~Queued(held, y)
        BY <1>2, <1>11, <3>1
      <4>3. Viewed(y)
        BY <2>1, <3>1, <4>1, <4>2 DEF Newest, Pending
      <4>4. Viewed(y)' <=> Viewed(y)
        <5>1. CASE arrives
          BY <1>1, <1>2, <1>3, <3>3, <5>1, Received
        <5>2. CASE ~arrives
          BY <1>2, <5>2, ViewedKept DEF viewVars
        <5> QED
          BY <5>1, <5>2
      <4> QED
        BY <4>3, <4>4
    <3> QED
      BY <3>2, <3>3
  <2> QED
    BY <2>2, <2>3, <2>4 DEF Newest
<1> QED
  BY <1>6, <1>8, <1>9, <1>12 DEF FeedInv, LastNews

LEMMA ResumeKeeps == ASSUME FeedInv, Resume PROVE FeedInv'
<1> DEFINE e == Head(held)
           x == e.of
<1>1. /\ held \in Seq(Events) /\ held # <<>> /\ FeedTypeOK
      /\ held' = Tail(held) /\ Receive(e)
      /\ UNCHANGED <<vars, tasks, peer, up, refresh, answer, drops, astray>>
  BY DEF FeedInv, FeedTypeOK, Resume
<1>2. /\ e \in Events /\ Tail(held) \in Seq(Events)
      /\ \A y : Queued(held, y) <=> Queued(Tail(held), y) \/ x = y
      /\ \A y, f : LastIn(Tail(held), y, f) => LastIn(held, y, f)
      /\ ~Queued(Tail(held), x) => LastIn(held, x, e)
  BY <1>1, InTail
<1> HIDE DEF e
<1>3. TypeOK' /\ SessionInv'
  BY <1>1, ControlKept
<1>4. FeedTypeOK'
  BY <1>1, <1>2, <1>3, Received DEF FeedTypeOK
<1>5. up /\ HeldWhileUp'
  BY <1>1 DEF FeedInv, HeldWhileUp
<1>6. ASSUME NEW y \in Keys PROVE Newest(y)'
  <2>1. Newest(y)
    BY DEF FeedInv, LastNews
  <2>2. ASSUME NEW f \in Events, LastIn(tasks', y, f) PROVE Tells(f)'
    BY <1>1, <2>1, <2>2, TellsKept DEF Newest
  <2>3. ASSUME y \notin astray', ~Queued(tasks', y), NEW f \in Events, LastIn(held', y, f)
        PROVE  Tells(f)'
    BY <1>1, <1>2, <2>1, <2>3, TellsKept DEF Newest
  <2>4. ASSUME up', y \notin astray', ~Pending(y)' PROVE Viewed(y)'
    <3>1. ~Queued(tasks, y) /\ ~Queued(Tail(held), y) /\ up /\ y \notin astray
      BY <1>1, <2>4 DEF Pending
    <3>2. CASE y = x
      <4>1. Tells(e)
        BY <1>2, <2>1, <3>1, <3>2 DEF Newest
      <4> QED
        BY <1>1, <1>2, <3>2, <4>1, Received
    <3>3. CASE y # x
      <4>1. ~Queued(held, y)
        BY <1>2, <3>1, <3>3
      <4>2. Viewed(y)
        BY <2>1, <3>1, <4>1 DEF Newest, Pending
      <4> QED
        BY <1>1, <1>2, <3>3, <4>2, Received
    <3> QED
      BY <3>2, <3>3
  <2> QED
    BY <2>2, <2>3, <2>4 DEF Newest
<1> QED
  BY <1>3, <1>4, <1>5, <1>6 DEF FeedInv, LastNews

\* A new connection is sent everything as it is.
LEMMA ConnectKeeps == ASSUME FeedInv, Connect PROVE FeedInv'
<1>1. /\ up' = TRUE /\ astray' = {} /\ held = <<>>
      /\ shownNodes' = [n \in Nodes |-> nodes[n].status] /\ shown' = status
      /\ UNCHANGED <<vars, tasks, held, peer, refresh, answer, drops>>
  BY DEF Connect, FeedInv, HeldWhileUp, pathVars
<1>2. TypeOK' /\ SessionInv'
  BY <1>1, ControlKept
<1>3. /\ nodes \in [Nodes -> NodeState] /\ status \in [SessionIds -> SessionStatus]
      /\ UNCHANGED <<nodes, status>>
  BY <1>1 DEF FeedInv, FeedTypeOK, TypeOK, StoreTypeOK, vars, storeVars
<1>4. /\ shownNodes' \in [Nodes -> NodeStatus \cup {"idle"}]
      /\ shown' \in [SessionIds -> SessionStatus]
  BY <1>1, <1>3 DEF NodeState
<1>5. FeedTypeOK'
  BY <1>1, <1>2, <1>4 DEF FeedInv, FeedTypeOK
<1>6. \A n \in Nodes : NodeShown(shownNodes[n], n)'
  BY <1>1, <1>3 DEF NodeShown
<1>7. \A s \in SessionIds : Shows(shown[s], s)'
  BY <1>1, <1>3 DEF Shows, LiveStatus
<1>8. ASSUME NEW y \in Keys PROVE Newest(y)'
  <2>1. ASSUME NEW f \in Events, LastIn(tasks', y, f) PROVE Tells(f)'
    BY <1>1, <2>1, TellsKept DEF FeedInv, LastNews, Newest
  <2>2. Viewed(y)'
    BY <1>6, <1>7 DEF Viewed
  <2>3. \A f \in Events : ~LastIn(held', y, f)
    BY <1>1 DEF LastIn
  <2> QED
    BY <2>1, <2>2, <2>3 DEF Newest
<1> QED
  BY <1>1, <1>2, <1>5, <1>8 DEF FeedInv, LastNews, HeldWhileUp

\* A lost connection takes what was held for it with it.
LEMMA DropKeeps == ASSUME FeedInv, Drop PROVE FeedInv'
<1>1. /\ up' = FALSE /\ astray' = {} /\ held' = <<>>
      /\ drops' = drops + 1 /\ drops < MaxDrops
      /\ UNCHANGED <<vars, tasks, peer, shownNodes, shown, refresh, answer>>
  BY DEF Drop, viewVars
<1>2. TypeOK' /\ SessionInv'
  BY <1>1, ControlKept
<1>3. drops' \in 0 .. MaxDrops
  BY <1>1, FeedAssumption DEF FeedInv, FeedTypeOK
<1>4. FeedTypeOK'
  <2>1. held' \in Seq(Events)
    BY <1>1, EmptySeq
  <2> QED
    BY <1>1, <1>2, <1>3, <2>1 DEF FeedInv, FeedTypeOK
<1>5. ASSUME NEW y \in Keys PROVE Newest(y)'
  <2>1. ASSUME NEW f \in Events, LastIn(tasks', y, f) PROVE Tells(f)'
    BY <1>1, <2>1, TellsKept DEF FeedInv, LastNews, Newest
  <2>2. \A f \in Events : ~LastIn(held', y, f)
    BY <1>1 DEF LastIn
  <2> QED
    BY <1>1, <2>1, <2>2 DEF Newest
<1> QED
  BY <1>1, <1>2, <1>4, <1>5 DEF FeedInv, LastNews, HeldWhileUp

\* Steps that concern neither what is on its way nor what is shown.
LEMMA AsideKeeps ==
  ASSUME FeedInv, UNCHANGED <<vars, tasks, held, up, shownNodes, shown, astray>>, FeedTypeOK'
  PROVE  FeedInv'
<1>1. TypeOK' /\ SessionInv'
  BY ControlKept
<1>2. ASSUME NEW y \in Keys PROVE Newest(y)'
  <2>1. Newest(y)
    BY DEF FeedInv, LastNews
  <2>2. Viewed(y)' <=> Viewed(y)
    BY ViewedKept
  <2>3. \A e \in Events : Tells(e)' <=> Tells(e)
    BY TellsKept
  <2> QED
    BY <2>1, <2>2, <2>3 DEF Newest, Pending
<1> QED
  BY <1>1, <1>2 DEF FeedInv, LastNews, HeldWhileUp

\* An answer that is older than what is shown leads a session astray unless there
\* is news of it to come.
LEMMA RefreshedKeeps == ASSUME FeedInv, Refreshed PROVE FeedInv'
<1> DEFINE known == {s \in SessionIds : ~Pending(SessionKey(s))}
<1>1. /\ refresh' = FALSE /\ shown' = answer
      /\ answer' = [s \in SessionIds |-> "absent"]
      /\ astray' = {k \in astray : \A s \in known : k # SessionKey(s)}
                   \cup {SessionKey(s) : s \in {t \in known : ~Shows(answer[t], t)}}
      /\ UNCHANGED <<vars, tasks, held, peer, up, shownNodes, drops>>
  BY DEF Refreshed, pathVars
<1>2. TypeOK' /\ SessionInv'
  BY <1>1, ControlKept
<1>3. FeedTypeOK'
  <2>1. astray' \subseteq Keys
    BY <1>1 DEF FeedInv, FeedTypeOK, Keys, SessionKeys
  <2>2. answer' \in [SessionIds -> SessionStatus]
    BY <1>1 DEF SessionStatus
  <2> QED
    BY <1>1, <1>2, <2>1, <2>2 DEF FeedInv, FeedTypeOK
<1>4. ASSUME NEW y \in Keys PROVE Newest(y)'
  <2>1. Newest(y)
    BY DEF FeedInv, LastNews
  <2>2. \A f \in Events : Tells(f)' <=> Tells(f)
    BY <1>1, TellsKept
  <2>3. CASE \E s \in known : y = SessionKey(s)
    <3>1. PICK s \in known : y = SessionKey(s)
      BY <2>3
    <3>2. ~Queued(tasks, y) /\ ~Queued(held, y)
      BY <3>1 DEF Pending
    <3>3. \A f \in Events : ~LastIn(tasks', y, f) /\ ~LastIn(held', y, f)
      BY <1>1, <3>2 DEF Queued, LastIn
    <3>4. ASSUME y \notin astray' PROVE Viewed(y)'
      <4>1. Shows(answer[s], s)
        BY <1>1, <3>1, <3>4
      <4>2. Shows(shown[s], s)'
        BY <1>1, <4>1 DEF Shows, vars, storeVars
      <4> QED
        BY <3>1, <4>2, KeysDiffer DEF Viewed
    <3> QED
      BY <3>3, <3>4 DEF Newest
  <2>4. CASE ~\E s \in known : y = SessionKey(s)
    <3>1. y \in astray' <=> y \in astray
      BY <1>1, <2>4
    <3>2. ASSUME ~Pending(y) PROVE Viewed(y)' <=> Viewed(y)
      <4>1. \A s \in SessionIds : y # SessionKey(s)
        BY <2>4, <3>2
      <4> QED
        BY <1>1, <4>1, ViewedKept
    <3> QED
      BY <1>1, <2>1, <2>2, <3>1, <3>2 DEF Newest, Pending
  <2> QED
    BY <2>3, <2>4
<1> QED
  BY <1>1, <1>2, <1>3, <1>4 DEF FeedInv, LastNews, HeldWhileUp

LEMMA FeedInitInvariant == ASSUME FeedInit PROVE FeedInv
<1>1. TypeOK /\ SessionInv
  BY TypeInit, SessionInit DEF FeedInit
<1>2. FeedTypeOK
  <2>1. /\ tasks \in Seq(Events) /\ held \in Seq(Events)
    BY EmptySeq DEF FeedInit
  <2>2. 0 \in 0 .. MaxDrops
    BY FeedAssumption
  <2> QED
    BY <1>1, <2>1, <2>2 DEF FeedInit, FeedTypeOK, NodeStatus, SessionStatus
<1>3. LastNews
  BY DEF FeedInit, LastNews, Newest, LastIn
<1> QED
  BY <1>1, <1>2, <1>3 DEF FeedInv, FeedInit, HeldWhileUp

\* A step of the feed is a step of the controller or leaves it alone.
LEMMA FeedStepOfController == ASSUME [FeedNext]_allVars PROVE [Next]_vars
<1> USE DEF Next, Handler, Request
<1>1. CASE Emitting
  BY <1>1 DEF Emitting, EmitRegister, EmitPlanStarted, EmitPlanStopped, EmitDisconnect,
              EmitHeartbeat, EmitCreate, EmitStop
<1>2. CASE Silent
  BY <1>2 DEF Silent
<1>3. CASE RunTask \/ Resume \/ Peer \/ Connect \/ Drop \/ GetSessions \/ Refreshed
  BY <1>3 DEF RunTask, Resume, Peer, Connect, Drop, GetSessions, Refreshed
<1>4. CASE UNCHANGED allVars
  BY <1>4 DEF allVars
<1> QED
  BY <1>1, <1>2, <1>3, <1>4 DEF FeedNext

LEMMA FeedNextInvariant == ASSUME FeedInv, [FeedNext]_allVars PROVE FeedInv'
<1>1. TypeOK' /\ SessionInv'
  <2>1. TypeOK /\ SessionInv
    BY DEF FeedInv, FeedTypeOK
  <2> QED
    BY <2>1, FeedStepOfController, TypeStep, SessionStep
<1>2. CASE Emitting
  BY <1>1, <1>2, RegisterKeeps, StartedKeeps, StoppedKeeps, DisconnectKeeps, HeartbeatKeeps,
     CreateKeeps, StopKeeps DEF Emitting
<1>3. CASE Silent
  BY <1>1, <1>3, SilentKeeps
<1>4. CASE RunTask \/ Resume \/ Connect \/ Drop \/ Refreshed
  BY <1>4, RunTaskKeeps, ResumeKeeps, ConnectKeeps, DropKeeps, RefreshedKeeps
<1>5. CASE Peer \/ GetSessions
  <2>1. UNCHANGED <<vars, tasks, held, up, shownNodes, shown, astray>>
    BY <1>5 DEF Peer, GetSessions, pathVars, viewVars
  <2>2. FeedTypeOK'
    <3>1. TypeOK /\ status \in [SessionIds -> SessionStatus]
      BY DEF FeedInv, FeedTypeOK, TypeOK, StoreTypeOK
    <3> QED
      BY <1>1, <1>5, <3>1 DEF Peer, GetSessions, pathVars, viewVars, FeedInv, FeedTypeOK
  <2> QED
    BY <2>1, <2>2, AsideKeeps
<1>6. CASE UNCHANGED allVars
  <2>1. UNCHANGED <<vars, tasks, held, peer, up, shownNodes, shown, refresh, answer, drops, astray>>
    BY <1>6 DEF allVars, feedVars, pathVars, viewVars
  <2>2. FeedTypeOK'
    BY <1>1, <2>1 DEF FeedInv, FeedTypeOK
  <2> QED
    BY <2>1, <2>2, AsideKeeps
<1> QED
  BY <1>2, <1>3, <1>4, <1>5, <1>6 DEF FeedNext

LEMMA FeedInvariant == FeedSpec => []FeedInv
  BY FeedInitInvariant, FeedNextInvariant, PTL DEF FeedSpec

\* The dashboard, the events on their way to it and the controller are always of
\* their types.
THEOREM FeedTypeCorrect == FeedSpec => []FeedTypeOK
<1>1. FeedInv => FeedTypeOK
  BY DEF FeedInv
<1> QED
  BY <1>1, FeedInvariant, PTL

\* However many nodes, sessions and events there are, and however broadcasts,
\* answers and connections overtake each other: what a connected dashboard shows
\* is as the store has it, or news of it is on its way, or it is astray.
THEOREM DashboardsConverge == FeedSpec => []DashboardConverges
<1>1. FeedInv => DashboardConverges
  <2> SUFFICES ASSUME FeedInv, up
               PROVE  /\ \A n \in Nodes :
                           \/ NodeKey(n) \in astray
                           \/ Pending(NodeKey(n))
                           \/ NodeShown(shownNodes[n], n)
                      /\ \A s \in SessionIds :
                           \/ SessionKey(s) \in astray
                           \/ Pending(SessionKey(s))
                           \/ Shows(shown[s], s)
    BY DEF DashboardConverges, NodeShown
  <2>1. ASSUME NEW x \in Keys, x \notin astray, ~Pending(x) PROVE Viewed(x)
    BY <2>1 DEF FeedInv, LastNews, Newest
  <2>2. /\ \A n \in Nodes : NodeKey(n) \in Keys
        /\ \A s \in SessionIds : SessionKey(s) \in Keys
    BY DEF Keys, NodeKeys, SessionKeys
  <2> QED
    BY <2>1, <2>2 DEF Viewed
<1> QED
  BY <1>1, FeedInvariant, PTL

=============================================================================
