------------------------------ MODULE UdpCall -------------------------------
(***************************************************************************)
(* agent/workers/udp_session.py: one call between an INITIATOR and a       *)
(* RESPONDER on two nodes.  The initiator sends numbered packets to the    *)
(* responder's well-known port; the responder learns the initiator's       *)
(* address from the first packet that comes in and sends packets back.     *)
(* Both count what they receive and report it every two seconds.           *)
(*                                                                         *)
(* The network loses packets and may change their order; it makes no       *)
(* copies.  Packets of other calls that use the same address may come in   *)
(* as well: the responder's socket is not connected, and a responder that  *)
(* took a packet of this call for its own sends back to the initiator.     *)
(***************************************************************************)
EXTENDS StreamStats, FiniteSets, SequencesExt

CONSTANTS
    MaxPackets,               \* bound: packets per direction
    MaxStrays,                \* bound: packets of another call
    MaxReports                \* bound: snapshots per side

ASSUME CallAssumption ==
    MaxPackets \in Nat /\ MaxStrays \in Nat /\ MaxReports \in Nat

VARIABLES
    order,      \* does the network change the order of packets?
    sock,         \* side -> "none", "open" or "closed"
    peer,         \* where the responder's return packets go
    returning,    \* its _return_send task: "waiting", "sending" or "silent"
    sent,         \* side -> packets it has sent
    strays,       \* packets of another call so far
    net,          \* side -> packets on their way to it
    state,        \* side -> its StreamState
    got,          \* side -> packets of the call it has received
    reports       \* side -> its snapshots: number, sums, and last_seq by then

endVars == <<order, sock, peer, returning>>
countVars == <<state, got, reports>>
vars == <<order, sock, peer, returning, sent, strays, net, state, got, reports>>

Side == {"initiator", "responder"}
Peer(x) == IF x = "initiator" THEN "responder" ELSE "initiator"
Origin == {"initiator", "responder", "stray"}
Packet == [from : Origin, seq : Nat]
Sums == [n : Nat, expected : Int, count : Nat, lost : Nat, upto : Nat \cup {None}]

TypeOK ==
    /\ order \in {"kept", "any"}
    /\ sock \in [Side -> {"none", "open", "closed"}]
    /\ peer \in Origin \cup {"none"}
    /\ returning \in {"waiting", "sending", "silent"}
    /\ sent \in [Side -> Nat]
    /\ strays \in Nat
    /\ net \in [Side -> Seq(Packet)]
    /\ state \in [Side -> Counters]
    /\ got \in [Side -> SUBSET Nat]
    /\ reports \in [Side -> Sums]

Init ==
    /\ order \in {"kept", "any"}
    /\ sock = [x \in Side |-> "none"]
    /\ peer = "none" /\ returning = "waiting"
    /\ sent = [x \in Side |-> 0]
    /\ strays = 0
    /\ net = [x \in Side |-> <<>>]
    /\ state = [x \in Side |-> Fresh]
    /\ got = [x \in Side |-> {}]
    /\ reports = [x \in Side |->
         [n |-> 0, expected |-> 0, count |-> 0, lost |-> 0, upto |-> None]]

-----------------------------------------------------------------------------
(* The two sockets *)

Open(x) ==
    /\ sock[x] = "none"
    /\ sock' = [sock EXCEPT ![x] = "open"]
    /\ UNCHANGED <<order, peer, returning, sent, strays, net, countVars>>

\* The session is over: its duration has elapsed, or the executor cancels it.
\* The finally block cancels its tasks and closes the socket; what was counted
\* since the last report is not reported.
Close(x) ==
    /\ sock[x] = "open"
    /\ sock' = [sock EXCEPT ![x] = "closed"]
    /\ UNCHANGED <<order, peer, returning, sent, strays, net, countVars>>

Push(x, p) == net' = [net EXCEPT ![x] = Append(@, p)]
Pull(x, i) == net' = [net EXCEPT ![x] = RemoveAt(@, i)]

\* _send of the initiator.
InitiatorSends ==
    /\ sock["initiator"] = "open"
    /\ sent["initiator"] < MaxPackets
    /\ Push("responder", [from |-> "initiator", seq |-> sent["initiator"]])
    /\ sent' = [sent EXCEPT !["initiator"] = @ + 1]
    /\ UNCHANGED <<endVars, strays, countVars>>

\* _return_send: the task waits for the first packet, for 30 s at most, ...
StartReturning ==
    /\ sock["responder"] = "open"
    /\ returning = "waiting" /\ peer # "none"
    /\ returning' = "sending"
    /\ UNCHANGED <<order, sock, peer, sent, strays, net, countVars>>

GiveUp ==
    /\ sock["responder"] = "open"
    /\ returning = "waiting" /\ peer = "none"
    /\ returning' = "silent"
    /\ UNCHANGED <<order, sock, peer, sent, strays, net, countVars>>

\* ... and then sends to where that packet came from.
ResponderSends ==
    /\ sock["responder"] = "open"
    /\ returning = "sending"
    /\ sent["responder"] < MaxPackets
    /\ IF peer = "initiator"
         THEN Push("initiator", [from |-> "responder", seq |-> sent["responder"]])
         ELSE UNCHANGED net
    /\ sent' = [sent EXCEPT !["responder"] = @ + 1]
    /\ UNCHANGED <<endVars, strays, countVars>>

\* Mutant: packets of other calls are counted too.
CountAny(x, p) ==
    /\ state' = [state EXCEPT ![x] = RecordPacket(@, p.seq)]
    /\ got' = IF p.from = Peer(x) THEN [got EXCEPT ![x] = @ \cup {p.seq}] ELSE got

\* _on_recv: only packets that carry the call's own stream_id are counted.
Count(x, p) ==
    IF p.from = Peer(x)
      THEN /\ state' = [state EXCEPT ![x] = RecordPacket(@, p.seq)]
           /\ got' = [got EXCEPT ![x] = @ \cup {p.seq}]
      ELSE UNCHANGED <<state, got>>

\* datagram_received.  The responder's first valid packet tells it its peer,
\* whichever call it belongs to.
Receive(x, i) ==
    /\ sock[x] = "open"
    /\ i \in DOMAIN net[x] /\ (order = "any" \/ i = 1)
    /\ Pull(x, i)
    /\ Count(x, net[x][i])
    /\ peer' = IF x = "responder" /\ peer = "none" THEN net[x][i].from ELSE peer
    /\ UNCHANGED <<order, sock, returning, sent, strays, reports>>

\* _emit_snapshot, by the _report_loop of an open session.
Report(x) ==
    /\ sock[x] = "open"
    /\ reports[x].n < MaxReports
    /\ reports' = [reports EXCEPT ![x] =
         [n        |-> @.n + 1,
          expected |-> @.expected + Expected(state[x]),
          count    |-> @.count + state[x].count,
          lost     |-> @.lost + Lost(state[x]),
          upto     |-> state[x].last]]
    /\ state' = [state EXCEPT ![x] = NextWindow(@)]
    /\ UNCHANGED <<endVars, sent, strays, net, got>>

-----------------------------------------------------------------------------
(* The network *)

\* A packet is lost, or finds no open socket.
Lose(x, i) ==
    /\ i \in DOMAIN net[x]
    /\ Pull(x, i)
    /\ UNCHANGED <<endVars, sent, strays, countVars>>

Stray(x) ==
    /\ strays < MaxStrays
    /\ strays' = strays + 1
    /\ Push(x, [from |-> "stray", seq |-> strays])
    /\ UNCHANGED <<endVars, sent, countVars>>

-----------------------------------------------------------------------------

Next ==
    \/ \E x \in Side : \/ Open(x) \/ Close(x) \/ Report(x) \/ Stray(x)
                       \/ \E i \in DOMAIN net[x] : Receive(x, i) \/ Lose(x, i)
    \/ InitiatorSends
    \/ StartReturning
    \/ GiveUp
    \/ ResponderSends

Spec == Init /\ [][Next]_vars

-----------------------------------------------------------------------------
(* Properties *)

\* The windows of the snapshots tile the stream, from the first packet to the
\* highest number received: however packets are lost, reordered and mixed with
\* those of other calls, and whenever the snapshots are taken, no packet number is
\* expected in two windows or in none, and no received packet is counted twice or
\* not at all.
WindowsTile ==
    \A x \in Side :
        /\ reports[x].count + state[x].count = state[x].total
        /\ reports[x].expected + Expected(state[x]) =
             IF state[x].first = None THEN 0 ELSE state[x].last - state[x].first + 1
        /\ \A seq \in got[x] : state[x].first # None /\ seq <= state[x].last

Span(x) == IF reports[x].upto = None THEN {} ELSE state[x].first .. reports[x].upto
Early(x) == {s \in got[x] : s < state[x].first}

\* No loss is hidden: the packets reported as lost are at least those missing so
\* far, save for as many as came in before the packet that was the first to
\* arrive and count towards a later window.  On a network that keeps the order
\* they are exactly the missing ones, across windows with and without traffic.
LossIsReported ==
    \A x \in Side :
        LET missing == Cardinality(Span(x) \ got[x])
        IN /\ reports[x].lost >= missing - Cardinality(Early(x))
           /\ order = "kept" => reports[x].lost = missing

\* DEPLOYMENT.md:271, streams whose nodes cannot reach each other show 100%
\* loss: a window in which the other side sent packets and nothing arrived is
\* not reported as one without loss.
OutageShows ==
    [][\A x \in Side :
         /\ reports'[x].n # reports[x].n
         /\ state[x].count = 0 /\ sent[Peer(x)] > 0 /\ net[x] = <<>>
         => reports'[x].lost > reports[x].lost]_vars

\* udp_session.py:22-26, the responder sends its return traffic to the
\* initiator of its call.
ReturnsToInitiator == peer # "stray"
=============================================================================
