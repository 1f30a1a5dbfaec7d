--------------------------- MODULE UdpCallProofs ---------------------------
(***************************************************************************)
(* Proofs about UdpCall, for any number of packets, strays and reports:    *)
(* types, that the reporting windows tile the stream, and that the losses  *)
(* reported are those there were.                                          *)
(***************************************************************************)
EXTENDS UdpCall, FiniteSetTheorems, SequenceTheorems, TLAPS

\* Taking a packet off the network leaves packets.
LEMMA RemoveAtType ==
    ASSUME NEW S, NEW s \in Seq(S), NEW i \in 1 .. Len(s)
    PROVE  RemoveAt(s, i) \in Seq(S)
<1>1. SubSeq(s, 1, i - 1) \in Seq(S) /\ SubSeq(s, i + 1, Len(s)) \in Seq(S)
  <2>1. \A j \in 1 .. i - 1 : s[j] \in S
    OBVIOUS
  <2>2. \A j \in i + 1 .. Len(s) : s[j] \in S
    OBVIOUS
  <2> QED BY <2>1, <2>2
<1> QED BY <1>1 DEF RemoveAt

\* What the operators of StreamStats return.
LEMMA CountersType ==
    /\ Fresh \in Counters
    /\ \A st \in Counters : \A seq \in Nat : RecordPacket(st, seq) \in Counters
    /\ \A st \in Counters : NextWindow(st) \in Counters
    /\ \A st \in Counters : Expected(st) \in Int /\ Lost(st) \in Nat
<1>1. Fresh \in Counters
  BY DEF Fresh, Counters, None
<1>2. \A st \in Counters : \A seq \in Nat : RecordPacket(st, seq) \in Counters
  BY DEF RecordPacket, Counters, None
<1>3. \A st \in Counters : NextWindow(st) \in Counters
  BY DEF NextWindow, Counters, None
<1>4. \A st \in Counters : Expected(st) \in Int /\ Lost(st) \in Nat
  BY DEF Expected, Lost, Counters, None
<1> QED BY <1>1, <1>2, <1>3, <1>4

\* A snapshot adds to the sums.
LEMMA SumsType ==
    ASSUME NEW r \in Sums, NEW e \in Int, NEW c \in Nat, NEW l \in Nat,
           NEW u \in Nat \cup {None}
    PROVE  [n |-> r.n + 1, expected |-> r.expected + e, count |-> r.count + c,
            lost |-> r.lost + l, upto |-> u] \in Sums
<1>1. r.n + 1 \in Nat /\ r.expected + e \in Int /\ r.count + c \in Nat /\ r.lost + l \in Nat
  BY DEF Sums
<1> QED BY <1>1 DEF Sums

-----------------------------------------------------------------------------
(* Types *)

LEMMA InitTyped == Init => TypeOK
<1> SUFFICES ASSUME Init PROVE TypeOK
  OBVIOUS
<1>1. state \in [Side -> Counters]
  BY CountersType DEF Init
<1>2. reports \in [Side -> Sums]
  BY DEF Init, Sums, None
<1>3. net \in [Side -> Seq(Packet)]
  BY DEF Init
<1> QED BY <1>1, <1>2, <1>3 DEF Init, TypeOK

LEMMA NextTyped == TypeOK /\ [Next]_vars => TypeOK'
<1> SUFFICES ASSUME TypeOK, [Next]_vars PROVE TypeOK'
  OBVIOUS
<1> USE DEF TypeOK
<1>1. ASSUME NEW x \in Side, Open(x) \/ Close(x) PROVE TypeOK'
  BY <1>1 DEF Open, Close, countVars
<1>2. ASSUME NEW x \in Side, Report(x) PROVE TypeOK'
  <2>1. state' \in [Side -> Counters]
    BY <1>2, CountersType DEF Report
  <2>2. reports' \in [Side -> Sums]
    <3>1. /\ Expected(state[x]) \in Int /\ Lost(state[x]) \in Nat
          /\ state[x].count \in Nat /\ state[x].last \in Nat \cup {None}
      BY CountersType DEF Counters
    <3>2. reports[x] \in Sums
      OBVIOUS
    <3> DEFINE snapshot == [n        |-> reports[x].n + 1,
                            expected |-> reports[x].expected + Expected(state[x]),
                            count    |-> reports[x].count + state[x].count,
                            lost     |-> reports[x].lost + Lost(state[x]),
                            upto     |-> state[x].last]
    <3>3. snapshot \in Sums
      BY ONLY <3>1, <3>2, SumsType
    <3>4. reports' = [reports EXCEPT ![x] = snapshot]
      BY <1>2 DEF Report
    <3> HIDE DEF snapshot
    <3> QED BY <3>3, <3>4
  <2> QED BY <1>2, <2>1, <2>2 DEF Report, endVars
<1>3. ASSUME NEW x \in Side, Stray(x) PROVE TypeOK'
  <2>1. net' \in [Side -> Seq(Packet)]
    <3>1. [from |-> "stray", seq |-> strays] \in Packet
      BY DEF Packet, Origin
    <3> QED BY <1>3, <3>1 DEF Stray, Push
  <2> QED BY <1>3, <2>1 DEF Stray, endVars, countVars
<1>4. ASSUME NEW x \in Side, NEW i \in DOMAIN net[x], Receive(x, i) PROVE TypeOK'
  <2>1. net' \in [Side -> Seq(Packet)]
    BY <1>4, RemoveAtType DEF Receive, Pull
  <2> DEFINE p == net[x][i]
  <2>2. p \in Packet
    BY <1>4
  <2>3. p.seq \in Nat /\ p.from \in Origin
    BY <2>2 DEF Packet
  <2>4. Count(x, p) /\ peer' = IF x = "responder" /\ peer = "none" THEN p.from ELSE peer
    BY <1>4 DEF Receive
  <2> HIDE DEF p
  <2>5. RecordPacket(state[x], p.seq) \in Counters
    BY <2>3, CountersType
  <2>6. state' \in [Side -> Counters] /\ got' \in [Side -> SUBSET Nat]
    <3>1. CASE p.from = Peer(x)
      <4>1. /\ state' = [state EXCEPT ![x] = RecordPacket(@, p.seq)]
            /\ got' = [got EXCEPT ![x] = @ \cup {p.seq}]
        BY <2>4, <3>1 DEF Count
      <4> QED BY <2>3, <2>5, <4>1
    <3>2. CASE p.from # Peer(x)
      BY <2>4, <3>2 DEF Count
    <3> QED BY <3>1, <3>2
  <2>7. peer' \in Origin \cup {"none"}
    BY <2>3, <2>4
  <2> QED BY <1>4, <2>1, <2>6, <2>7 DEF Receive
<1>5. ASSUME NEW x \in Side, NEW i \in DOMAIN net[x], Lose(x, i) PROVE TypeOK'
  <2>1. net' \in [Side -> Seq(Packet)]
    BY <1>5, RemoveAtType DEF Lose, Pull
  <2> QED BY <1>5, <2>1 DEF Lose, endVars, countVars
<1>6. CASE InitiatorSends
  <2>1. [from |-> "initiator", seq |-> sent["initiator"]] \in Packet
    BY DEF Packet, Origin, Side
  <2>2. "initiator" \in Side /\ "responder" \in Side
    BY DEF Side
  <2>3. net' \in [Side -> Seq(Packet)]
    BY <1>6, <2>1, <2>2 DEF InitiatorSends, Push
  <2>4. sent' \in [Side -> Nat]
    BY <1>6, <2>2 DEF InitiatorSends
  <2> QED BY <1>6, <2>3, <2>4 DEF InitiatorSends, endVars, countVars
<1>7. CASE ResponderSends
  <2>1. [from |-> "responder", seq |-> sent["responder"]] \in Packet
    BY DEF Packet, Origin, Side
  <2>2. "initiator" \in Side /\ "responder" \in Side
    BY DEF Side
  <2>3. net' \in [Side -> Seq(Packet)]
    <3>1. CASE peer = "initiator"
      <4>1. net' = [net EXCEPT !["initiator"] =
                      Append(@, [from |-> "responder", seq |-> sent["responder"]])]
        BY <1>7, <3>1 DEF ResponderSends, Push
      <4> QED BY <2>1, <2>2, <4>1
    <3>2. CASE peer # "initiator"
      BY <1>7, <3>2 DEF ResponderSends
    <3> QED BY <3>1, <3>2
  <2>4. sent' \in [Side -> Nat]
    BY <1>7, <2>2 DEF ResponderSends
  <2> QED BY <1>7, <2>3, <2>4 DEF ResponderSends, endVars, countVars
<1>8. CASE StartReturning \/ GiveUp
  BY <1>8 DEF StartReturning, GiveUp, countVars
<1>9. CASE UNCHANGED vars
  BY <1>9 DEF vars
<1> QED BY <1>1, <1>2, <1>3, <1>4, <1>5, <1>6, <1>7, <1>8, <1>9 DEF Next

\* Every reachable state of a call is well typed.
THEOREM TypeCorrect == Spec => []TypeOK
BY InitTyped, NextTyped, PTL DEF Spec

-----------------------------------------------------------------------------
(* Windows *)

\* The counters of one side: before the first packet nothing is counted; from
\* then on the windows reported so far cover the numbers from the first packet
\* up to the start of the current window.
SideInv(x) ==
    /\ reports[x].count + state[x].count = state[x].total
    /\ IF state[x].first = None
         THEN state[x].last = None /\ reports[x].expected = 0 /\ got[x] = {}
         ELSE /\ state[x].last # None /\ state[x].start # None
              /\ reports[x].expected = state[x].start - state[x].first
              /\ \A seq \in got[x] : seq <= state[x].last

WindowInv == \A x \in Side : SideInv(x)

LEMMA InitWindows == Init => WindowInv
BY DEF Init, WindowInv, SideInv, Fresh, None

LEMMA NextWindows == TypeOK /\ WindowInv /\ [Next]_vars => WindowInv'
<1> SUFFICES ASSUME TypeOK, WindowInv, [Next]_vars PROVE WindowInv'
  OBVIOUS
<1>1. ASSUME UNCHANGED countVars PROVE WindowInv'
  BY <1>1 DEF WindowInv, SideInv, countVars
<1>2. ASSUME NEW x \in Side, Report(x) PROVE WindowInv'
  <2> SUFFICES ASSUME NEW y \in Side PROVE SideInv(y)'
    BY DEF WindowInv
  <2>1. CASE y # x
    BY <1>2, <2>1 DEF Report, WindowInv, SideInv, TypeOK
  <2>2. CASE y = x
    <3>1. /\ state[x] \in Counters /\ reports[x] \in Sums /\ SideInv(x)
      BY DEF TypeOK, WindowInv
    <3>2. /\ state'[x] = NextWindow(state[x]) /\ got' = got
          /\ reports'[x].count = reports[x].count + state[x].count
          /\ reports'[x].expected = reports[x].expected + Expected(state[x])
      BY <1>2 DEF Report, TypeOK
    <3> QED BY <2>2, <3>1, <3>2 DEF SideInv, NextWindow, Expected, Counters, Sums, None
  <2> QED BY <2>1, <2>2
<1>3. ASSUME NEW x \in Side, NEW i \in DOMAIN net[x], Receive(x, i) PROVE WindowInv'
  <2> DEFINE p == net[x][i]
  <2>1. CASE p.from # Peer(x)
    BY <1>3, <2>1, <1>1 DEF Receive, Count, countVars
  <2>2. CASE p.from = Peer(x)
    <3> SUFFICES ASSUME NEW y \in Side PROVE SideInv(y)'
      BY DEF WindowInv
    <3>1. CASE y # x
      BY <1>3, <2>2, <3>1 DEF Receive, Count, WindowInv, SideInv, TypeOK
    <3>2. CASE y = x
      <4>1. state[x] \in Counters /\ reports[x] \in Sums /\ SideInv(x)
            /\ got[x] \in SUBSET Nat
        BY DEF TypeOK, WindowInv
      <4>2. p.seq \in Nat
        <5>1. p \in Packet
          BY DEF TypeOK
        <5> QED BY <5>1 DEF Packet
      <4>3. /\ state'[x] = RecordPacket(state[x], p.seq)
            /\ got'[x] = got[x] \cup {p.seq}
            /\ reports' = reports
        BY <1>3, <2>2 DEF Receive, Count, TypeOK
      <4> HIDE DEF p
      <4> QED BY <3>2, <4>1, <4>2, <4>3 DEF SideInv, RecordPacket, Counters, Sums, None
    <3> QED BY <3>1, <3>2
  <2> QED BY <2>1, <2>2
<1>4. CASE \E x \in Side : Open(x) \/ Close(x) \/ Stray(x)
                          \/ \E i \in DOMAIN net[x] : Lose(x, i)
  BY <1>1, <1>4 DEF Open, Close, Stray, Lose
<1>5. CASE InitiatorSends \/ ResponderSends \/ StartReturning \/ GiveUp
  BY <1>1, <1>5 DEF InitiatorSends, ResponderSends, StartReturning, GiveUp
<1>6. CASE UNCHANGED vars
  BY <1>1, <1>6 DEF vars, countVars
<1> QED BY <1>2, <1>3, <1>4, <1>5, <1>6 DEF Next

\* The windows that a side reports tile the stream it receives.
THEOREM WindowsTileStream == Spec => []WindowsTile
<1>1. TypeOK /\ WindowInv => WindowsTile
  <2> SUFFICES ASSUME TypeOK, WindowInv, NEW x \in Side
               PROVE  /\ reports[x].count + state[x].count = state[x].total
                      /\ reports[x].expected + Expected(state[x]) =
                           IF state[x].first = None THEN 0
                                                    ELSE state[x].last - state[x].first + 1
                      /\ \A seq \in got[x] : state[x].first # None /\ seq <= state[x].last
    BY DEF WindowsTile
  <2>1. state[x] \in Counters /\ reports[x] \in Sums /\ SideInv(x)
    BY DEF TypeOK, WindowInv
  <2> QED BY <2>1 DEF SideInv, Expected, Counters, Sums, None
<1> QED BY <1>1, TypeCorrect, InitWindows, NextWindows, PTL DEF Spec

-----------------------------------------------------------------------------
(* Packets on their way *)

Own(x) == {i \in DOMAIN net[x] : net[x][i].from = Peer(x)}

\* The packets of the call on their way to a side are new to it and all different;
\* as long as the network keeps the order they come later than all that have come,
\* and one after the other.
FlightInv(x) ==
    /\ \A seq \in got[x] : seq < sent[Peer(x)]
    /\ \A i \in Own(x) :
         /\ net[x][i].seq < sent[Peer(x)] /\ net[x][i].seq \notin got[x]
         /\ order = "kept" => \A seq \in got[x] : seq < net[x][i].seq
    /\ \A i, j \in Own(x) : i < j =>
         /\ net[x][i].seq # net[x][j].seq
         /\ order = "kept" => net[x][i].seq < net[x][j].seq

\* What is left of a sequence without one element.
LEMMA RemoveAtElements ==
    ASSUME NEW S, NEW s \in Seq(S), NEW i \in 1 .. Len(s)
    PROVE  /\ Len(RemoveAt(s, i)) = Len(s) - 1
           /\ \A j \in 1 .. Len(s) - 1 :
                RemoveAt(s, i)[j] = IF j < i THEN s[j] ELSE s[j + 1]
<1> DEFINE a == SubSeq(s, 1, i - 1)
           b == SubSeq(s, i + 1, Len(s))
<1>1. a \in Seq(S) /\ Len(a) = i - 1 /\ \A j \in 1 .. i - 1 : a[j] = s[j]
  <2>1. \A j \in 1 .. i - 1 : s[j] \in S
    OBVIOUS
  <2> QED BY <2>1
<1>2. b \in Seq(S) /\ Len(b) = Len(s) - i /\ \A j \in 1 .. Len(s) - i : b[j] = s[j + i]
  <2>1. \A j \in i + 1 .. Len(s) : s[j] \in S
    OBVIOUS
  <2> QED BY <2>1
<1>3. RemoveAt(s, i) = a \o b
  BY DEF RemoveAt
<1> HIDE DEF a, b
<1>4. Len(a \o b) = Len(s) - 1 /\ Len(s) \in Nat
  <2>1. Len(s) \in Nat
    OBVIOUS
  <2>2. Len(a \o b) = Len(a) + Len(b)
    BY <1>1, <1>2, ConcatProperties
  <2> QED BY <1>1, <1>2, <2>1, <2>2
<1>5. ASSUME NEW j \in 1 .. Len(s) - 1
      PROVE  (a \o b)[j] = IF j < i THEN s[j] ELSE s[j + 1]
  <2>1. CASE j < i
    <3>1. j \in 1 .. i - 1
      BY <1>4, <2>1
    <3>2. (a \o b)[j] = a[j]
      BY <1>1, <1>2, <3>1
    <3> QED BY <1>1, <2>1, <3>1, <3>2
  <2>2. CASE ~(j < i)
    <3>1. j - (i - 1) \in 1 .. Len(s) - i /\ j - (i - 1) + i = j + 1
      BY <1>4, <2>2
    <3>2. (a \o b)[j] = b[j - (i - 1)]
      BY <1>1, <1>2, <1>4, <2>2
    <3> QED BY <1>2, <2>2, <3>1, <3>2
  <2> QED BY <2>1, <2>2
<1> QED BY <1>3, <1>4, <1>5

\* A packet leaves the network; it may be received by the side it is for.
LEMMA PullKeepsFlight ==
    ASSUME TypeOK, NEW x \in Side, FlightInv(x), NEW i \in DOMAIN net[x],
           order' = order, sent' = sent, net'[x] = RemoveAt(net[x], i),
           \/ got'[x] = got[x]
           \/ /\ got'[x] = got[x] \cup {net[x][i].seq} /\ i \in Own(x)
              /\ order = "any" \/ i = 1
    PROVE  FlightInv(x)'
<1> DEFINE old(j) == IF j < i THEN j ELSE j + 1
<1>1. net[x] \in Seq(Packet) /\ sent[Peer(x)] \in Nat /\ order \in {"kept", "any"}
  BY DEF TypeOK, Side, Peer
<1>2. \A j \in DOMAIN net[x] : net[x][j] \in Packet /\ net[x][j].seq \in Nat
  <2>1. \A j \in DOMAIN net[x] : net[x][j] \in Packet
    BY <1>1
  <2> QED BY <2>1 DEF Packet
<1> DEFINE len == Len(net[x])
<1>0. /\ len \in Nat /\ DOMAIN net[x] = 1 .. len /\ i \in 1 .. len
      /\ DOMAIN net'[x] = 1 .. len - 1
      /\ \A j \in 1 .. len - 1 : net'[x][j] = IF j < i THEN net[x][j] ELSE net[x][j + 1]
  <2>1. i \in 1 .. Len(net[x])
    BY <1>1
  <2>2. RemoveAt(net[x], i) \in Seq(Packet)
    BY <1>1, <2>1, RemoveAtType
  <2>3. /\ Len(RemoveAt(net[x], i)) = Len(net[x]) - 1
        /\ \A j \in 1 .. Len(net[x]) - 1 :
              RemoveAt(net[x], i)[j] = IF j < i THEN net[x][j] ELSE net[x][j + 1]
    BY <1>1, <2>1, RemoveAtElements
  <2> QED BY <1>1, <2>1, <2>2, <2>3
<1> HIDE DEF len
<1>3. \A j \in DOMAIN net'[x] :
        old(j) \in DOMAIN net[x] /\ old(j) # i /\ net'[x][j] = net[x][old(j)]
  BY <1>0
<1>4. \A j, k \in DOMAIN net'[x] : j < k => old(j) < old(k)
  BY <1>0
<1>5. \A j \in DOMAIN net'[x] : i = 1 => i < old(j)
  BY <1>0
<1>6. \A j \in DOMAIN net'[x] : old(j) < i \/ i < old(j)
  BY <1>0
<1> HIDE DEF old
<1>7. \A j \in Own(x)' : j \in DOMAIN net'[x] /\ old(j) \in Own(x)
  BY <1>3 DEF Own
<1>8. \A seq \in got'[x] : seq < sent'[Peer(x)]
  BY DEF FlightInv
<1>9. ASSUME NEW j \in Own(x)'
      PROVE  /\ net'[x][j].seq < sent'[Peer(x)] /\ net'[x][j].seq \notin got'[x]
             /\ order' = "kept" => \A seq \in got'[x] : seq < net'[x][j].seq
  BY <1>3, <1>5, <1>6, <1>7, <1>9 DEF FlightInv
<1>10. ASSUME NEW j \in Own(x)', NEW k \in Own(x)', j < k
       PROVE  /\ net'[x][j].seq # net'[x][k].seq
              /\ order' = "kept" => net'[x][j].seq < net'[x][k].seq
  BY <1>3, <1>4, <1>7, <1>10 DEF FlightInv
<1> QED BY <1>8, <1>9, <1>10 DEF FlightInv

\* A packet is put on the network: one of the call has the next number.
LEMMA PushKeepsFlight ==
    ASSUME TypeOK, NEW x \in Side, FlightInv(x), NEW p \in Packet,
           order' = order, got' = got, net'[x] = Append(net[x], p),
           \/ p.from # Peer(x) /\ sent'[Peer(x)] = sent[Peer(x)]
           \/ p.seq = sent[Peer(x)] /\ sent'[Peer(x)] = sent[Peer(x)] + 1
    PROVE  FlightInv(x)'
<1> DEFINE n == Len(net[x]) + 1
<1>1. net[x] \in Seq(Packet) /\ sent[Peer(x)] \in Nat /\ got[x] \subseteq Nat
  BY DEF TypeOK, Side, Peer
<1>2. \A j \in DOMAIN net[x] : net[x][j] \in Packet /\ net[x][j].seq \in Nat
  <2>1. \A j \in DOMAIN net[x] : net[x][j] \in Packet
    BY <1>1
  <2> QED BY <2>1 DEF Packet
<1>3. /\ DOMAIN net'[x] = DOMAIN net[x] \cup {n} /\ net'[x][n] = p
      /\ \A j \in DOMAIN net[x] : net'[x][j] = net[x][j] /\ j < n
  BY <1>1
<1> HIDE DEF n
<1>4. ASSUME NEW j \in Own(x)' PROVE j \in Own(x) \/ (j = n /\ p.from = Peer(x))
  <2>1. j \in DOMAIN net'[x] /\ net'[x][j].from = Peer(x)
    BY DEF Own
  <2>2. CASE j \in DOMAIN net[x]
    BY <1>3, <2>1, <2>2 DEF Own
  <2>3. CASE j = n
    BY <1>3, <2>1, <2>3
  <2> QED BY <1>3, <2>1, <2>2, <2>3
<1>5. \A seq \in got'[x] : seq < sent'[Peer(x)]
  BY <1>1 DEF FlightInv
<1>6. ASSUME NEW j \in Own(x)'
      PROVE  /\ net'[x][j].seq < sent'[Peer(x)] /\ net'[x][j].seq \notin got'[x]
             /\ order' = "kept" => \A seq \in got'[x] : seq < net'[x][j].seq
  <2>1. CASE j \in Own(x)
    BY <1>1, <1>2, <1>3, <2>1 DEF FlightInv, Own
  <2>2. CASE j = n /\ p.from = Peer(x)
    BY <1>1, <1>3, <2>2 DEF FlightInv
  <2> QED BY <1>4, <2>1, <2>2
<1>7. ASSUME NEW j \in Own(x)', NEW k \in Own(x)', j < k
      PROVE  /\ net'[x][j].seq # net'[x][k].seq
             /\ order' = "kept" => net'[x][j].seq < net'[x][k].seq
  <2>1. j \in Own(x)
    <3>1. j # n
      <4>1. Own(x)' \subseteq DOMAIN net'[x]
        BY DEF Own
      <4>2. \A q \in DOMAIN net'[x] : q <= n
        BY <1>1, <1>3 DEF n
      <4>3. n \in Nat /\ j \in Nat /\ k \in Nat
        BY <1>1, <1>3, <4>1 DEF n
      <4> QED BY <1>7, <4>1, <4>2, <4>3
    <3> QED BY <1>4, <3>1
  <2>2. CASE k \in Own(x)
    BY <1>3, <1>7, <2>1, <2>2 DEF FlightInv, Own
  <2>3. CASE k = n /\ p.from = Peer(x)
    BY <1>1, <1>2, <1>3, <2>1, <2>3 DEF FlightInv, Own
  <2> QED BY <1>4, <2>2, <2>3
<1> QED BY <1>5, <1>6, <1>7 DEF FlightInv

LEMMA SameKeepsFlight ==
    ASSUME TypeOK, NEW x \in Side, FlightInv(x), order' = order,
           got'[x] = got[x], net'[x] = net[x], TypeOK', sent'[Peer(x)] >= sent[Peer(x)]
    PROVE  FlightInv(x)'
<1>1. sent[Peer(x)] \in Nat /\ sent'[Peer(x)] \in Nat /\ got[x] \subseteq Nat
  BY DEF TypeOK, Side, Peer
<1>2. Own(x)' = Own(x)
  BY DEF Own
<1>3. \A j \in Own(x) : net[x][j].seq \in Nat
  <2>1. \A j \in Own(x) : net[x][j] \in Packet
    BY DEF TypeOK, Own
  <2> QED BY <2>1 DEF Packet
<1> QED BY <1>1, <1>2, <1>3 DEF FlightInv

Flight == \A x \in Side : FlightInv(x)

LEMMA InitFlight == ASSUME Init PROVE Flight
BY DEF Init, Flight, FlightInv, Own

LEMMA NextFlight == ASSUME TypeOK, Flight, [Next]_vars PROVE Flight'
<1>1. TypeOK'
  BY NextTyped
<1>2. ASSUME UNCHANGED <<order, sent, net, got>> PROVE Flight'
  BY <1>2 DEF Flight, FlightInv, Own
<1>3. CASE \E x \in Side : Open(x) \/ Close(x) \/ Report(x)
  BY <1>2, <1>3 DEF Open, Close, Report, countVars, endVars
<1>4. CASE StartReturning \/ GiveUp \/ UNCHANGED vars
  BY <1>2, <1>4 DEF StartReturning, GiveUp, countVars, vars
<1>5. ASSUME NEW x \in Side, Stray(x) PROVE Flight'
  <2> SUFFICES ASSUME NEW y \in Side PROVE FlightInv(y)'
    BY DEF Flight
  <2> DEFINE p == [from |-> "stray", seq |-> strays]
  <2>1. p \in Packet /\ p.from # Peer(x)
    BY DEF Packet, Origin, TypeOK, Peer
  <2>2. /\ order' = order /\ got' = got /\ sent' = sent /\ FlightInv(y)
        /\ net'[x] = Append(net[x], p) /\ (y # x => net'[y] = net[y])
    BY <1>5 DEF Stray, Push, endVars, countVars, Flight, TypeOK
  <2>3. sent[Peer(y)] \in Nat
    BY DEF TypeOK, Peer, Side
  <2> HIDE DEF p
  <2>4. CASE y = x
    BY <2>1, <2>2, <2>4, PushKeepsFlight
  <2>5. CASE y # x
    BY <1>1, <2>2, <2>3, <2>5, SameKeepsFlight
  <2> QED BY <2>4, <2>5
<1>6. ASSUME NEW x \in Side, NEW i \in DOMAIN net[x], Receive(x, i) \/ Lose(x, i)
      PROVE  Flight'
  <2> SUFFICES ASSUME NEW y \in Side PROVE FlightInv(y)'
    BY DEF Flight
  <2>1. /\ order' = order /\ sent' = sent /\ FlightInv(y)
        /\ net'[x] = RemoveAt(net[x], i) /\ (y # x => net'[y] = net[y])
    BY <1>6 DEF Receive, Lose, Pull, endVars, Flight, TypeOK
  <2>2. /\ y # x => got'[y] = got[y]
        /\ \/ got'[x] = got[x]
           \/ /\ got'[x] = got[x] \cup {net[x][i].seq} /\ i \in Own(x)
              /\ order = "any" \/ i = 1
    <3>1. CASE Lose(x, i)
      BY <3>1 DEF Lose, countVars
    <3>2. CASE Receive(x, i)
      <4>1. Count(x, net[x][i]) /\ (order = "any" \/ i = 1)
        BY <3>2 DEF Receive
      <4> QED BY <4>1 DEF Count, Own, TypeOK
    <3> QED BY <1>6, <3>1, <3>2
  <2>3. sent[Peer(y)] \in Nat
    BY DEF TypeOK, Peer, Side
  <2>4. CASE y = x
    BY <2>1, <2>2, <2>4, PullKeepsFlight
  <2>5. CASE y # x
    BY <1>1, <2>1, <2>2, <2>3, <2>5, SameKeepsFlight
  <2> QED BY <2>4, <2>5
<1>7. ASSUME NEW x \in Side, NEW p \in Packet,
             order' = order, got' = got, p.from = x, p.seq = sent[x],
             net' = [net EXCEPT ![Peer(x)] = Append(@, p)], sent' = [sent EXCEPT ![x] = @ + 1]
      PROVE  Flight'
  <2> SUFFICES ASSUME NEW y \in Side PROVE FlightInv(y)'
    BY DEF Flight
  <2>1. FlightInv(y) /\ Peer(x) \in Side /\ Peer(Peer(x)) = x /\ sent[Peer(y)] \in Nat /\ sent[x] \in Nat
    BY DEF Flight, TypeOK, Peer, Side
  <2>2. CASE y = Peer(x)
    <3>1. net'[y] = Append(net[y], p) /\ sent'[Peer(y)] = sent[Peer(y)] + 1 /\ p.seq = sent[Peer(y)]
      BY <1>7, <2>1, <2>2 DEF TypeOK
    <3> QED BY <1>7, <2>1, <3>1, PushKeepsFlight
  <2>3. CASE y # Peer(x)
    <3>1. net'[y] = net[y] /\ Peer(y) # x /\ sent'[Peer(y)] = sent[Peer(y)]
      BY <1>7, <2>3 DEF TypeOK, Peer, Side
    <3> QED BY <1>1, <1>7, <2>1, <3>1, SameKeepsFlight
  <2> QED BY <2>2, <2>3
<1>8. CASE InitiatorSends
  <2>1. [from |-> "initiator", seq |-> sent["initiator"]] \in Packet /\ "initiator" \in Side
    BY DEF Packet, Origin, TypeOK, Side
  <2>2. Peer("initiator") = "responder"
    BY DEF Peer
  <2> DEFINE p == [from |-> "initiator", seq |-> sent["initiator"]]
  <2>3. p.from = "initiator" /\ p.seq = sent["initiator"]
    OBVIOUS
  <2>4. order' = order /\ got' = got /\ sent' = [sent EXCEPT !["initiator"] = @ + 1]
        /\ net' = [net EXCEPT ![Peer("initiator")] = Append(@, p)]
    BY <1>8, <2>2 DEF InitiatorSends, Push, endVars, countVars
  <2> HIDE DEF p
  <2>5. p \in Packet
    BY <2>1 DEF p
  <2> QED BY <1>7, <2>1, <2>3, <2>4, <2>5
<1>9. CASE ResponderSends
  <2>1. "responder" \in Side /\ Peer("responder") = "initiator"
    BY DEF Side, Peer
  <2>2. order' = order /\ got' = got /\ sent' = [sent EXCEPT !["responder"] = @ + 1]
    BY <1>9 DEF ResponderSends, endVars, countVars
  <2>3. CASE peer = "initiator"
    <3> DEFINE p == [from |-> "responder", seq |-> sent["responder"]]
    <3>1. p \in Packet /\ p.from = "responder" /\ p.seq = sent["responder"]
      BY <2>1 DEF Packet, Origin, TypeOK
    <3>2. net' = [net EXCEPT ![Peer("responder")] = Append(@, p)]
      BY <1>9, <2>1, <2>3 DEF ResponderSends, Push
    <3> HIDE DEF p
    <3> QED BY <1>7, <2>1, <2>2, <3>1, <3>2
  <2>4. CASE peer # "initiator"
    <3>1. net' = net
      BY <1>9, <2>4 DEF ResponderSends
    <3>2. ASSUME NEW y \in Side
          PROVE  FlightInv(y) /\ sent[Peer(y)] \in Nat /\ sent'[Peer(y)] >= sent[Peer(y)]
      <4>1. sent[Peer(y)] \in Nat /\ FlightInv(y)
        BY DEF Flight, TypeOK, Peer, Side
      <4>2. sent'[Peer(y)] = sent[Peer(y)] \/ sent'[Peer(y)] = sent[Peer(y)] + 1
        BY <2>2 DEF TypeOK, Peer, Side
      <4> QED BY <4>1, <4>2
    <3> QED BY <1>1, <2>2, <3>1, <3>2, SameKeepsFlight DEF Flight
  <2> QED BY <2>3, <2>4
<1> QED BY <1>3, <1>4, <1>5, <1>6, <1>8, <1>9 DEF Next

-----------------------------------------------------------------------------
(* Losses *)

\* What has come in of the numbers that the reports cover, or before them.
Upto(x) == {seq \in got[x] : seq <= reports[x].upto}

\* Each packet received is counted once, and the reports count no more than have
\* come in up to where they end; what they miss of the numbers they expect is
\* reported as lost.  If the network keeps the order, both are exact.
LossInv(x) ==
    /\ IsFiniteSet(got[x]) /\ Cardinality(got[x]) = state[x].total
    /\ state[x].first # None => state[x].first \in got[x] /\ state[x].last \in got[x]
    /\ IF reports[x].upto = None
         THEN reports[x].lost = 0 /\ reports[x].count = 0 /\ reports[x].expected = 0
         ELSE /\ state[x].first # None /\ state[x].first <= reports[x].upto
              /\ state[x].start = reports[x].upto + 1 /\ reports[x].upto <= state[x].last
    /\ reports[x].count <= Cardinality(Upto(x))
    /\ reports[x].lost >= reports[x].expected - reports[x].count
    /\ order = "kept" =>
         /\ \A seq \in got[x] : state[x].first <= seq
         /\ reports[x].lost = reports[x].expected - reports[x].count
         /\ reports[x].count = Cardinality(Upto(x))

LEMMA InitLoss == ASSUME Init, NEW x \in Side PROVE LossInv(x)
<1>1. /\ got[x] = {} /\ state[x] = Fresh /\ reports[x].upto = None
      /\ reports[x].lost = 0 /\ reports[x].count = 0 /\ reports[x].expected = 0
  BY DEF Init
<1>2. Upto(x) = {}
  BY <1>1 DEF Upto
<1> QED BY <1>1, <1>2, FS_EmptySet DEF LossInv, Fresh, None

\* A packet of the call that a side has not received before.
LEMMA ReceiveKeepsLoss ==
    ASSUME TypeOK, NEW x \in Side, SideInv(x), LossInv(x), NEW seq \in Nat, seq \notin got[x],
           order = "kept" => \A s \in got[x] : s < seq,
           order' = order, reports' = reports,
           state'[x] = RecordPacket(state[x], seq), got'[x] = got[x] \cup {seq}
    PROVE  LossInv(x)'
<1>1. state[x] \in Counters /\ reports[x] \in Sums /\ got[x] \subseteq Nat
  BY DEF TypeOK
<1>2. IsFiniteSet(got'[x]) /\ Cardinality(got'[x]) = Cardinality(got[x]) + 1
  <2>1. IsFiniteSet(got[x])
    BY DEF LossInv
  <2>2. /\ IsFiniteSet(got[x] \cup {seq})
        /\ Cardinality(got[x] \cup {seq}) =
              IF seq \in got[x] THEN Cardinality(got[x]) ELSE Cardinality(got[x]) + 1
    BY <2>1, FS_AddElement
  <2> QED BY <2>2
<1>3. Upto(x)' = Upto(x) \cup (IF seq <= reports[x].upto THEN {seq} ELSE {})
  BY DEF Upto
<1>4. IsFiniteSet(Upto(x)) /\ Cardinality(Upto(x)) \in Nat
  BY FS_Subset, FS_CardinalityType DEF LossInv, Upto
<1>5. seq \notin Upto(x)
  BY DEF Upto
<1>6. Cardinality(Upto(x)') >= Cardinality(Upto(x))
  <2>1. CASE seq <= reports[x].upto
    <3>1. Cardinality(Upto(x) \cup {seq}) =
            IF seq \in Upto(x) THEN Cardinality(Upto(x)) ELSE Cardinality(Upto(x)) + 1
      BY <1>4, FS_AddElement
    <3> QED BY <1>3, <1>4, <1>5, <2>1, <3>1
  <2>2. CASE ~(seq <= reports[x].upto)
    <3>1. Upto(x)' = Upto(x)
      BY <1>3, <2>2
    <3> QED BY <1>4, <3>1
  <2> QED BY <2>1, <2>2
<1>7. order = "kept" => Upto(x)' = Upto(x)
  BY <1>1, <1>3 DEF LossInv, Counters, Sums, None
<1>8. IsFiniteSet(got[x]) /\ Cardinality(got[x]) = state[x].total /\ state[x].total \in Nat
  BY <1>1 DEF LossInv, Counters
<1>9. IsFiniteSet(got'[x]) /\ Cardinality(got'[x]) = state'[x].total
  BY <1>2, <1>8 DEF RecordPacket
<1>10. state'[x].first # None => state'[x].first \in got'[x] /\ state'[x].last \in got'[x]
  BY <1>1 DEF LossInv, SideInv, RecordPacket, Counters, None
<1>11. IF reports[x].upto = None
         THEN reports[x].lost = 0 /\ reports[x].count = 0 /\ reports[x].expected = 0
         ELSE /\ state'[x].first # None /\ state'[x].first <= reports[x].upto
              /\ state'[x].start = reports[x].upto + 1 /\ reports[x].upto <= state'[x].last
  BY <1>1 DEF LossInv, RecordPacket, Counters, Sums, None
<1>12. reports[x].count <= Cardinality(Upto(x)')
  <2>1. reports[x].count \in Nat /\ reports[x].count <= Cardinality(Upto(x))
    BY <1>1 DEF LossInv, Sums
  <2>2. Cardinality(Upto(x)') \in Nat
    BY <1>3, <1>4, FS_AddElement, FS_CardinalityType
  <2> QED BY <1>4, <1>6, <2>1, <2>2
<1>13. order = "kept" => \A s \in got'[x] : state'[x].first <= s
  BY <1>1 DEF LossInv, SideInv, RecordPacket, Counters, None
<1>14. order = "kept" => /\ reports[x].lost = reports[x].expected - reports[x].count
                         /\ reports[x].count = Cardinality(Upto(x)')
  BY <1>7 DEF LossInv
<1>15. reports[x].lost >= reports[x].expected - reports[x].count
  BY DEF LossInv
<1> QED BY <1>9, <1>10, <1>11, <1>12, <1>13, <1>14, <1>15 DEF LossInv

\* What a report adds is what its window misses - exactly, if the order is kept.
LEMMA ReportKeepsLoss ==
    ASSUME TypeOK, NEW x \in Side, SideInv(x), LossInv(x), Report(x)
    PROVE  LossInv(x)'
<1>1. state[x] \in Counters /\ reports[x] \in Sums /\ got[x] \subseteq Nat
  BY DEF TypeOK
<1>2. Expected(state[x]) \in Int /\ Lost(state[x]) \in Nat
  BY <1>1, CountersType
<1>3. /\ state'[x] = NextWindow(state[x]) /\ got' = got /\ order' = order
      /\ reports'[x].count = reports[x].count + state[x].count
      /\ reports'[x].expected = reports[x].expected + Expected(state[x])
      /\ reports'[x].lost = reports[x].lost + Lost(state[x])
      /\ reports'[x].upto = state[x].last
  BY DEF Report, endVars, TypeOK
<1>4. IsFiniteSet(got[x]) /\ Cardinality(got[x]) = state[x].total
      /\ state[x].total = reports[x].count + state[x].count
  BY DEF LossInv, SideInv
<1>5. Upto(x)' = got[x]
  BY <1>1, <1>3 DEF Upto, SideInv, None
<1>6. reports'[x].count = Cardinality(Upto(x)')
  BY <1>3, <1>4, <1>5
<1>7. Lost(state[x]) >= Expected(state[x]) - state[x].count
  BY <1>1, <1>2 DEF Lost, Counters
<1>8. reports'[x].lost >= reports'[x].expected - reports'[x].count
  BY <1>1, <1>2, <1>3, <1>7 DEF LossInv, Sums, Counters
<1>9. IF reports'[x].upto = None
        THEN reports'[x].lost = 0 /\ reports'[x].count = 0 /\ reports'[x].expected = 0
        ELSE /\ state'[x].first # None /\ state'[x].first <= reports'[x].upto
             /\ state'[x].start = reports'[x].upto + 1 /\ reports'[x].upto <= state'[x].last
  <2>1. CASE state[x].first = None
    <3>1. state[x].last = None /\ got[x] = {} /\ reports[x].upto = None
      BY <1>1, <2>1 DEF SideInv, LossInv
    <3>2. state[x].total = 0 /\ reports[x].count = 0 /\ reports[x].lost = 0 /\ reports[x].expected = 0
      BY <1>4, <3>1, FS_EmptySet DEF LossInv
    <3>3. state[x].count = 0 /\ Expected(state[x]) = 0 /\ Lost(state[x]) = 0
      BY <1>1, <1>4, <3>1, <3>2 DEF Expected, Lost, Counters
    <3> QED BY <1>3, <3>1, <3>2, <3>3
  <2>2. CASE state[x].first # None
    <3>1. state[x].last # None /\ state[x].first <= state[x].last
      BY <2>2 DEF SideInv, LossInv
    <3> QED BY <1>1, <1>3, <2>2, <3>1 DEF NextWindow, Counters, None
  <2> QED BY <2>1, <2>2
<1>10. order = "kept" => reports'[x].lost = reports'[x].expected - reports'[x].count
  <2> SUFFICES ASSUME order = "kept"
               PROVE  reports'[x].lost = reports'[x].expected - reports'[x].count
    OBVIOUS
  <2>1. state[x].count <= Expected(state[x])
    <3>1. CASE state[x].first = None
      <4>1. state[x].last = None /\ got[x] = {}
        BY <3>1 DEF SideInv
      <4>2. state[x].total = 0
        BY <1>4, <4>1, FS_EmptySet
      <4> QED BY <1>1, <1>4, <4>1, <4>2 DEF Expected, Counters, Sums
    <3>2. CASE state[x].first # None
      <4> DEFINE W == got[x] \ Upto(x)
      <4>1. /\ state[x].start # None /\ state[x].last # None
            /\ Expected(state[x]) = state[x].last - state[x].start + 1
        BY <3>2 DEF SideInv, Expected
      <4>2. /\ state[x].start \in Nat /\ state[x].last \in Nat /\ state[x].first \in Nat
            /\ reports[x].upto \in Nat \cup {None}
        BY <1>1, <3>2, <4>1 DEF Counters, Sums
      <4>3. W \subseteq state[x].start .. state[x].last /\ state[x].start <= state[x].last + 1
        <5>1. CASE reports[x].upto = None
          <6>1. state[x].start = state[x].first /\ state[x].first <= state[x].last
            BY <3>2, <4>2, <5>1 DEF SideInv, LossInv
          <6>2. \A seq \in got[x] : state[x].first <= seq /\ seq <= state[x].last
            BY <3>2 DEF SideInv, LossInv
          <6> QED BY <1>1, <4>2, <6>1, <6>2
        <5>2. CASE reports[x].upto # None
          <6>1. state[x].start = reports[x].upto + 1 /\ reports[x].upto <= state[x].last
            BY <5>2 DEF LossInv
          <6>2. \A seq \in got[x] : seq <= state[x].last
            BY <3>2 DEF SideInv
          <6> QED BY <1>1, <4>2, <5>2, <6>1, <6>2 DEF Upto
        <5> QED BY <5>1, <5>2
      <4>4. IsFiniteSet(Upto(x)) /\ Upto(x) \subseteq got[x]
        BY <1>4, FS_Subset DEF Upto
      <4>5. Cardinality(W) = Cardinality(got[x]) - Cardinality(Upto(x))
        <5>1. got[x] \cap Upto(x) = Upto(x)
          BY <4>4
        <5>2. Cardinality(got[x] \ Upto(x)) = Cardinality(got[x]) - Cardinality(got[x] \cap Upto(x))
          BY <1>4, FS_Difference
        <5> QED BY <5>1, <5>2
      <4>6. Cardinality(W) <= state[x].last - state[x].start + 1
        <5>1. /\ IsFiniteSet(state[x].start .. state[x].last)
              /\ Cardinality(state[x].start .. state[x].last) =
                   IF state[x].start > state[x].last THEN 0 ELSE state[x].last - state[x].start + 1
          <6>1. state[x].start \in Int /\ state[x].last \in Int
            BY <4>2
          <6> QED BY <6>1, FS_Interval
        <5>2. Cardinality(W) <= Cardinality(state[x].start .. state[x].last)
          BY <4>3, <5>1, FS_Subset
        <5> QED BY <4>2, <4>3, <5>1, <5>2
      <4>7. Cardinality(W) = state[x].count
        <5>1. reports[x].count = Cardinality(Upto(x))
          BY DEF LossInv
        <5> QED BY <1>1, <1>4, <4>5, <5>1 DEF Counters, Sums
      <4> QED BY <4>1, <4>6, <4>7
    <3> QED BY <3>1, <3>2
  <2>2. Lost(state[x]) = Expected(state[x]) - state[x].count
    BY <1>1, <1>2, <2>1 DEF Lost, Counters
  <2>3. reports[x].lost = reports[x].expected - reports[x].count
    BY DEF LossInv
  <2> QED BY <1>1, <1>2, <1>3, <2>2, <2>3 DEF Counters, Sums
<1>11. /\ state'[x].total = state[x].total /\ state'[x].first = state[x].first
       /\ state'[x].last = state[x].last
  BY <1>3 DEF NextWindow
<1>12. reports'[x].count <= Cardinality(Upto(x)')
  BY <1>1, <1>3, <1>6 DEF Sums, Counters
<1>13. state'[x].first # None => state'[x].first \in got'[x] /\ state'[x].last \in got'[x]
  BY <1>3, <1>11 DEF LossInv
<1>14. order' = "kept" => \A seq \in got'[x] : state'[x].first <= seq
  BY <1>3, <1>11 DEF LossInv
<1> QED BY <1>3, <1>4, <1>6, <1>8, <1>9, <1>10, <1>11, <1>12, <1>13, <1>14 DEF LossInv

ReportsInv == TypeOK /\ WindowInv /\ Flight /\ \A x \in Side : LossInv(x)

LEMMA NextReports == ASSUME ReportsInv, [Next]_vars PROVE ReportsInv'
<1>1. TypeOK' /\ WindowInv' /\ Flight'
  BY NextTyped, NextWindows, NextFlight DEF ReportsInv
<1> SUFFICES ASSUME NEW x \in Side PROVE LossInv(x)'
  BY <1>1 DEF ReportsInv
<1>2. TypeOK /\ SideInv(x) /\ FlightInv(x) /\ LossInv(x)
  BY DEF ReportsInv, WindowInv, Flight
<1>3. ASSUME order' = order, state'[x] = state[x], got'[x] = got[x], reports'[x] = reports[x]
      PROVE  LossInv(x)'
  <2>1. Upto(x)' = Upto(x)
    BY <1>3 DEF Upto
  <2> QED BY <1>2, <1>3, <2>1 DEF LossInv
<1>4. CASE InitiatorSends \/ ResponderSends \/ StartReturning \/ GiveUp \/ UNCHANGED vars
  BY <1>3, <1>4
     DEF InitiatorSends, ResponderSends, StartReturning, GiveUp, endVars, countVars, vars
<1>5. ASSUME NEW y \in Side,
             Open(y) \/ Close(y) \/ Stray(y) \/ \E i \in DOMAIN net[y] : Lose(y, i)
      PROVE  LossInv(x)'
  BY <1>3, <1>5 DEF Open, Close, Stray, Lose, endVars, countVars
<1>6. ASSUME NEW y \in Side, Report(y) PROVE LossInv(x)'
  <2>1. CASE x = y
    BY <1>2, <1>6, <2>1, ReportKeepsLoss
  <2>2. CASE x # y
    BY <1>2, <1>3, <1>6, <2>2 DEF Report, endVars, TypeOK
  <2> QED BY <2>1, <2>2
<1>7. ASSUME NEW y \in Side, NEW i \in DOMAIN net[y], Receive(y, i) PROVE LossInv(x)'
  <2> DEFINE p == net[y][i]
  <2>1. order' = order /\ reports' = reports /\ Count(y, p)
    BY <1>7 DEF Receive
  <2>2. CASE x # y \/ p.from # Peer(y)
    <3>1. state'[x] = state[x] /\ got'[x] = got[x]
      BY <1>2, <2>1, <2>2 DEF Count, TypeOK
    <3> QED BY <1>3, <2>1, <3>1
  <2>3. CASE x = y /\ p.from = Peer(y)
    <3>1. p \in Packet /\ i \in Own(x)
      BY <1>2, <2>3 DEF TypeOK, Own
    <3>2. p.seq \in Nat
      BY <3>1 DEF Packet
    <3>3. p.seq \notin got[x] /\ (order = "kept" => \A s \in got[x] : s < p.seq)
      BY <1>2, <2>3, <3>1 DEF FlightInv
    <3>4. state'[x] = RecordPacket(state[x], p.seq) /\ got'[x] = got[x] \cup {p.seq}
      BY <1>2, <2>1, <2>3 DEF Count, TypeOK
    <3> HIDE DEF p
    <3> QED BY <1>2, <2>1, <3>2, <3>3, <3>4, ReceiveKeepsLoss
  <2> QED BY <2>2, <2>3
<1> QED BY <1>4, <1>5, <1>6, <1>7 DEF Next

\* The invariant of one side says that no loss is hidden.
LEMMA LossShows ==
    ASSUME TypeOK, NEW x \in Side, SideInv(x), LossInv(x)
    PROVE  LET missing == Cardinality(Span(x) \ got[x])
           IN /\ reports[x].lost >= missing - Cardinality(Early(x))
              /\ order = "kept" => reports[x].lost = missing
<1> DEFINE missing == Cardinality(Span(x) \ got[x])
<1>1. state[x] \in Counters /\ reports[x] \in Sums /\ got[x] \subseteq Nat
  BY DEF TypeOK
<1>2. /\ IsFiniteSet(got[x]) /\ IsFiniteSet(Early(x)) /\ IsFiniteSet(Upto(x))
      /\ Early(x) \subseteq got[x] /\ Upto(x) \subseteq got[x]
  BY FS_Subset DEF LossInv, Early, Upto
<1>3. Cardinality(Early(x)) \in Nat /\ Cardinality(Upto(x)) \in Nat
  BY <1>2, FS_CardinalityType
<1>4. order = "kept" => Early(x) = {}
  BY <1>1 DEF LossInv, Early, Counters, None
<1>5. CASE reports[x].upto = None
  <2>1. Span(x) \ got[x] = {}
    BY <1>5 DEF Span
  <2>2. missing = 0
    BY <2>1, FS_EmptySet
  <2>3. reports[x].lost = 0
    BY <1>5 DEF LossInv
  <2> QED BY <1>3, <2>2, <2>3
<1>6. CASE reports[x].upto # None
  <2>1. /\ state[x].first \in Nat /\ reports[x].upto \in Nat
        /\ state[x].first <= reports[x].upto
        /\ reports[x].expected = reports[x].upto - state[x].first + 1
    BY <1>1, <1>6 DEF LossInv, SideInv, Counters, Sums, None
  <2>2. Span(x) = state[x].first .. reports[x].upto
    BY <1>6 DEF Span
  <2>3. IsFiniteSet(Span(x)) /\ Cardinality(Span(x)) = reports[x].expected
    <3>1. state[x].first \in Int /\ reports[x].upto \in Int
      BY <2>1
    <3>2. /\ IsFiniteSet(state[x].first .. reports[x].upto)
          /\ Cardinality(state[x].first .. reports[x].upto) =
               IF state[x].first > reports[x].upto THEN 0
                                                   ELSE reports[x].upto - state[x].first + 1
      BY <3>1, FS_Interval
    <3> QED BY <2>1, <2>2, <3>2
  <2>4. missing = Cardinality(Span(x)) - Cardinality(Span(x) \cap got[x])
    BY <2>3, FS_Difference
  <2>5. /\ Upto(x) = Early(x) \cup (Span(x) \cap got[x])
        /\ Early(x) \cap (Span(x) \cap got[x]) = {}
    BY <1>1, <2>1, <2>2 DEF Upto, Early
  <2>6. /\ IsFiniteSet(Span(x) \cap got[x])
        /\ Cardinality(Span(x) \cap got[x]) \in Nat
    BY <2>3, FS_Intersection, FS_CardinalityType
  <2>7. Cardinality(Upto(x)) = Cardinality(Early(x)) + Cardinality(Span(x) \cap got[x])
    <3>1. Cardinality(Early(x) \cup (Span(x) \cap got[x])) =
            Cardinality(Early(x)) + Cardinality(Span(x) \cap got[x])
              - Cardinality(Early(x) \cap (Span(x) \cap got[x]))
      BY <1>2, <2>6, FS_Union
    <3> QED BY <1>3, <2>5, <2>6, <3>1, FS_EmptySet
  <2>8. /\ reports[x].count <= Cardinality(Upto(x))
        /\ reports[x].lost >= reports[x].expected - reports[x].count
        /\ order = "kept" => /\ reports[x].lost = reports[x].expected - reports[x].count
                             /\ reports[x].count = Cardinality(Upto(x))
    BY DEF LossInv
  <2>9. reports[x].count \in Nat /\ reports[x].lost \in Nat /\ reports[x].expected \in Int
    BY <1>1 DEF Sums
  <2>10. order = "kept" => Cardinality(Early(x)) = 0
    BY <1>4, FS_EmptySet
  <2> HIDE DEF missing
  <2>11. missing = reports[x].expected - Cardinality(Span(x) \cap got[x])
    BY <2>3, <2>4
  <2>12. reports[x].lost >= missing - Cardinality(Early(x))
    BY <1>3, <2>6, <2>7, <2>8, <2>9, <2>11
  <2>13. order = "kept" => reports[x].lost = missing
    BY <1>3, <2>6, <2>7, <2>8, <2>9, <2>10, <2>11
  <2> QED BY <2>12, <2>13 DEF missing
<1> QED BY <1>5, <1>6

\* A side reports at least the losses it can know of, and exactly those as long as
\* the network keeps the order of the packets.
THEOREM LossesAreReported == Spec => []LossIsReported
<1>1. Init => ReportsInv
  BY InitTyped, InitWindows, InitFlight, InitLoss DEF ReportsInv
<1>2. ReportsInv /\ [Next]_vars => ReportsInv'
  BY NextReports
<1>3. ReportsInv => LossIsReported
  BY LossShows DEF ReportsInv, WindowInv, LossIsReported
<1> QED BY <1>1, <1>2, <1>3, PTL DEF Spec
=============================================================================
