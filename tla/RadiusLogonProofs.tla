------------------------- MODULE RadiusLogonProofs -------------------------
(***************************************************************************)
(* What holds of the RADIUS logons for any number of users and sessions,   *)
(* whatever datagrams are lost and in whatever order they come - as long   *)
(* as no session begins before the users of the last one are done          *)
(* (~Overlap).                                                             *)
(***************************************************************************)
EXTENDS RadiusLogon, TLAPS

LEMMA NoSessionIsNone == NoSession \notin Session
  BY RadiusAssumption DEF NoSession, Session

-----------------------------------------------------------------------------
(* Types *)

LEMMA TypeInit == ASSUME Init PROVE TypeOK
<1>1. records \in Seq(Record) /\ stopping \in Nat
  BY RadiusAssumption DEF Init
<1> QED
  BY <1>1 DEF Init, TypeOK, UserState

\* A message is well typed.
LEMMA MessageType ==
  ASSUME NEW dir \in {"request", "answer"}, NEW kind \in Kind, NEW s \in Session, NEW ip \in Ips
  PROVE  /\ Message(dir, kind, s, ip) \in Datagram
         /\ Message(dir, kind, s, ip).plan = s
  BY DEF Message, Datagram

\* The server replaces no record, it appends one or notes a time in one.
LEMMA RecordsAfterServe ==
  ASSUME TypeOK, NEW m \in Datagram, Serve(m)
  PROVE  /\ records' \in Seq(Record)
         /\ \A i \in DOMAIN records' :
              \/ /\ i \in DOMAIN records
                 /\ records'[i].plan = records[i].plan
                 /\ records'[i].role = records[i].role
              \/ records'[i].plan = m.plan /\ records'[i].role = userMap
<1> USE DEF TypeOK
<1>1. CASE m.kind = "access"
  <2> DEFINE r == [ip |-> m.ip, plan |-> m.plan, role |-> userMap, acct |-> <<>>]
  <2>1. r \in Record
    BY DEF Record, Datagram
  <2>2. records' = Append(records, r)
    BY <1>1 DEF Serve, HandleAccess
  <2>3. r.plan = m.plan /\ r.role = userMap
    OBVIOUS
  <2> HIDE DEF r
  <2> QED
    BY <2>1, <2>2, <2>3
<1>2. CASE m.kind # "access"
  <2>1. m.kind \in {"start", "stop"} /\ m.plan \in Session
    BY <1>2 DEF Datagram, Kind
  <2> DEFINE i == SelectInSeq(records, LAMBDA r : r.ip = m.ip)
  <2>2. records' = IF i = 0 THEN records
                   ELSE [records EXCEPT ![i].acct = Append(@, <<m.kind, m.plan>>)]
    BY <1>2 DEF Serve, HandleAccounting
  <2> HIDE DEF i
  <2>3. CASE i \in DOMAIN records /\ i # 0
    <3> DEFINE r == [records[i] EXCEPT !.acct = Append(@, <<m.kind, m.plan>>)]
    <3>1. records[i] \in Record
      BY <2>3
    <3>2. r \in Record /\ r.plan = records[i].plan /\ r.role = records[i].role
      <4> DEFINE times == Append(records[i].acct, <<m.kind, m.plan>>)
      <4>1. times \in Seq({"start", "stop"} \X Session)
        BY <2>1, <3>1 DEF Record
      <4> HIDE DEF times
      <4>2. r = [records[i] EXCEPT !.acct = times]
        BY DEF times
      <4> QED
        BY <3>1, <4>1, <4>2 DEF Record
    <3>3. records' = [records EXCEPT ![i] = r]
      BY <2>2, <2>3
    <3> HIDE DEF r
    <3> QED
      BY <2>3, <3>2, <3>3
  <2>4. CASE i \notin DOMAIN records \/ i = 0
    <3>1. records' = records
      BY <2>2, <2>4
    <3> QED
      BY <3>1
  <2> QED
    BY <2>3, <2>4
<1> QED
  BY <1>1, <1>2

\* A message on its way stays one when its direction changes.
LEMMA AnswerType ==
  ASSUME NEW m \in Datagram
  PROVE  /\ [m EXCEPT !.dir = "answer"] \in Datagram
         /\ [m EXCEPT !.dir = "answer"].plan = m.plan
  BY DEF Datagram

LEMMA FollowType ==
  ASSUME NEW m \in Datagram
  PROVE  Follow(m) \subseteq Datagram /\ \A d \in Follow(m) : d.plan = m.plan
<1>1. m.plan \in Session /\ m.ip \in Ips
  BY DEF Datagram
<1> QED
  BY <1>1, MessageType DEF Follow, Kind

LEMMA TypeStep == ASSUME TypeOK, [Next]_vars PROVE TypeOK'
<1> USE DEF TypeOK
<1>1. CASE CreateSession
  <2>1. current' \in Session /\ records' = <<>>
    BY <1>1, RadiusAssumption DEF CreateSession, SetSession, Session, NoSession
  <2>2. userMap' \in Session
    BY <1>1, <2>1 DEF CreateSession, SetSession
  <2> QED
    BY <1>1, <2>1, <2>2 DEF CreateSession
<1>2. CASE StopSession \/ FinishStop \/ CompleteSession
  <2>1. stopping' \in Nat
    BY <1>2 DEF StopSession, FinishStop, CompleteSession
  <2>2. UNCHANGED <<current, records, net, user, answered>>
    BY <1>2 DEF StopSession, FinishStop, CompleteSession, ClearSession, serverVars
  <2>3. live' \in BOOLEAN /\ userMap' \in Session \cup {NoSession}
    BY <1>2 DEF StopSession, FinishStop, CompleteSession, ClearSession, serverVars
  <2> QED
    BY <2>1, <2>2, <2>3
<1>3. ASSUME NEW m \in net, Serve(m) PROVE TypeOK'
  BY <1>3, RecordsAfterServe, AnswerType DEF Serve, sessionVars
<1>4. ASSUME NEW m \in net, Lose(m) PROVE TypeOK'
  BY <1>4 DEF Lose, sessionVars, serverVars
<1>5. ASSUME NEW m \in net, Answer(m) PROVE TypeOK'
  <2>1. m.plan \in Session /\ m.ip \in Ips /\ m.kind \in Kind /\ After(m.kind) \in UserState
    BY DEF Datagram, Kind, After, UserState
  <2>2. user' \in [Session -> [Ips -> UserState]]
    BY <1>5, <2>1 DEF Answer, Become
  <2>3. answered' \in [Session -> [Ips -> SUBSET Kind]]
    BY <1>5, <2>1 DEF Answer
  <2>4. net' \subseteq Datagram
    BY <1>5, FollowType DEF Answer
  <2> QED
    BY <1>5, <2>2, <2>3, <2>4 DEF Answer, sessionVars, serverVars
<1>6. ASSUME NEW s \in Session, NEW ip \in Ips,
             BeginAuth(s, ip) \/ Timeout(s, ip) \/ Logoff(s, ip)
      PROVE TypeOK'
  <2>1. UNCHANGED <<sessionVars, serverVars, answered>>
    BY <1>6 DEF BeginAuth, Timeout, Logoff
  <2>2. user' \in [Session -> [Ips -> UserState]]
    <3>1. PICK state \in UserState : Become(s, ip, state)
      BY <1>6 DEF BeginAuth, Timeout, Logoff, UserState
    <3> QED
      BY <3>1 DEF Become
  <2>3. net' \subseteq Datagram
    BY <1>6, MessageType DEF BeginAuth, Timeout, Logoff, Send, Kind
  <2> QED
    BY <2>1, <2>2, <2>3 DEF sessionVars, serverVars
<1>7. CASE UNCHANGED vars
  BY <1>7 DEF vars, sessionVars, serverVars
<1> QED
  BY <1>1, <1>2, <1>3, <1>4, <1>5, <1>6, <1>7 DEF Next

\* Every reachable state is well typed, overlapping sessions or not.
THEOREM TypeCorrect == Spec => []TypeOK
<1>1. Init => TypeOK
  BY TypeInit
<1>2. TypeOK /\ [Next]_vars => TypeOK'
  BY TypeStep
<1> QED
  BY <1>1, <1>2, PTL DEF Spec

-----------------------------------------------------------------------------
(* Roles *)

\* The users of earlier sessions are done, those of later ones have not begun,
\* and nothing on its way or in the records is of another session.
OnlyCurrent ==
    /\ \A s \in Session : \A ip \in Ips :
         /\ s < current => user[s][ip] \in {"off", "failed"}
         /\ s > current => user[s][ip] = "idle"
    /\ \A m \in net : m.plan = current
    /\ \A i \in DOMAIN records : records[i].plan = current

\* As long as the server knows users at all, they are the current ones, and
\* all roles it has given are theirs.
Armed ==
    userMap # NoSession =>
        /\ userMap = current
        /\ \A i \in DOMAIN records : records[i].role = current

RolesInv == TypeOK /\ OnlyCurrent /\ Armed

LEMMA RolesInit == ASSUME Init PROVE RolesInv
<1>1. TypeOK
  BY TypeInit
<1>2. OnlyCurrent /\ Armed
  BY RadiusAssumption DEF Init, OnlyCurrent, Armed, Session, NoSession
<1> QED
  BY <1>1, <1>2 DEF RolesInv

LEMMA RolesStep ==
  ASSUME ~Overlap, RolesInv, [Next]_vars
  PROVE  RolesInv'
<1> USE DEF RolesInv
<1>1. TypeOK'
  BY TypeStep
<1> USE DEF TypeOK
<1>2. CASE CreateSession
  <2>1. /\ current' = current + 1 /\ userMap' = current + 1 /\ records' = <<>>
        /\ net' = net /\ user' = user /\ net = {} /\ Ended(current)
    BY <1>2 DEF CreateSession, SetSession
  <2>2. current \in Nat
    BY DEF Session, NoSession
  <2>3. \A s \in Session : \A ip \in Ips :
          /\ s < current + 1 => user[s][ip] \in {"off", "failed"}
          /\ s > current + 1 => user[s][ip] = "idle"
    <3> SUFFICES ASSUME NEW s \in Session, NEW ip \in Ips
                 PROVE  /\ s < current + 1 => user[s][ip] \in {"off", "failed"}
                        /\ s > current + 1 => user[s][ip] = "idle"
      OBVIOUS
    <3>1. s \in Nat /\ s # NoSession
      BY DEF Session, NoSession
    <3>2. CASE s = current
      BY <2>1, <2>2, <3>1, <3>2 DEF Ended
    <3>3. CASE s # current
      BY <2>2, <3>1, <3>3 DEF OnlyCurrent
    <3> QED
      BY <3>2, <3>3
  <2> QED
    BY <1>1, <2>1, <2>3 DEF OnlyCurrent, Armed
<1>3. CASE StopSession \/ CompleteSession
  BY <1>1, <1>3 DEF StopSession, CompleteSession, serverVars, OnlyCurrent, Armed
<1>4. CASE FinishStop
  BY <1>1, <1>4 DEF FinishStop, ClearSession, OnlyCurrent, Armed
<1>5. ASSUME NEW m \in net, Serve(m) PROVE RolesInv'
  <2>1. m \in Datagram /\ m.plan = current
    BY DEF OnlyCurrent
  <2>2. UNCHANGED <<current, userMap, user>>
    BY <1>5 DEF Serve, sessionVars
  <2>3. \A d \in net' : d.plan = current
    BY <1>5, <2>1, AnswerType DEF Serve, OnlyCurrent
  <2>4. \A i \in DOMAIN records' :
          /\ records'[i].plan = current
          /\ userMap # NoSession => records'[i].role = current
    BY <1>5, <2>1, RecordsAfterServe DEF OnlyCurrent, Armed
  <2> QED
    BY <1>1, <2>2, <2>3, <2>4 DEF OnlyCurrent, Armed
<1>6. ASSUME NEW m \in net, Lose(m) PROVE RolesInv'
  BY <1>1, <1>6 DEF Lose, sessionVars, serverVars, OnlyCurrent, Armed
<1>7. ASSUME NEW m \in net, Answer(m) PROVE RolesInv'
  <2>1. m \in Datagram /\ m.plan = current
    BY DEF OnlyCurrent
  <2>2. UNCHANGED <<current, userMap, records>>
    BY <1>7 DEF Answer, sessionVars, serverVars
  <2>3. \A d \in net' : d.plan = current
    BY <1>7, <2>1, FollowType DEF Answer, OnlyCurrent
  <2>4. \A s \in Session : s # current => \A ip \in Ips : user'[s][ip] = user[s][ip]
    BY <1>7, <2>1 DEF Answer, Become
  <2>5. current \in Nat /\ \A s \in Session : s \in Nat
    BY DEF Session, NoSession
  <2> QED
    BY <1>1, <2>2, <2>3, <2>4, <2>5 DEF OnlyCurrent, Armed
<1>8. ASSUME NEW s \in Session, NEW ip \in Ips,
             BeginAuth(s, ip) \/ Timeout(s, ip) \/ Logoff(s, ip)
      PROVE RolesInv'
  <2>1. current \in Nat /\ \A q \in Session : q \in Nat
    BY DEF Session, NoSession
  <2>2. user[s][ip] \notin {"off", "failed"} /\ (s > current => user[s][ip] # "idle")
    BY <1>8, <2>1 DEF BeginAuth, Timeout, Logoff
  <2>3. s = current
    BY <2>1, <2>2 DEF OnlyCurrent
  <2>4. UNCHANGED <<current, userMap, records>>
    BY <1>8 DEF BeginAuth, Timeout, Logoff, sessionVars, serverVars
  <2>5. \A d \in net' : d.plan = current
    BY <1>8, <2>3, MessageType DEF BeginAuth, Timeout, Logoff, Send, Kind, OnlyCurrent
  <2>6. \A q \in Session : q # current => \A i \in Ips : user'[q][i] = user[q][i]
    BY <1>8, <2>3 DEF BeginAuth, Timeout, Logoff, Become
  <2> QED
    BY ZenonT(40), <1>1, <2>1, <2>4, <2>5, <2>6 DEF OnlyCurrent, Armed
<1>9. CASE UNCHANGED vars
  BY <1>1, <1>9 DEF vars, sessionVars, serverVars, OnlyCurrent, Armed
<1> QED
  BY <1>2, <1>3, <1>4, <1>5, <1>6, <1>7, <1>8, <1>9 DEF Next

\* Every user that logs on before its session is stopped gets the role that was
\* assigned to it, and no user of another session does.
THEOREM RolesAreAssigned == ~Overlap => (Spec => []RolesAsAssigned)
<1> SUFFICES ASSUME ~Overlap PROVE Spec => []RolesAsAssigned
  OBVIOUS
<1>1. Init => RolesInv
  BY RolesInit
<1>2. RolesInv /\ [Next]_vars => RolesInv'
  BY RolesStep
<1>3. RolesInv => RolesAsAssigned
  BY DEF RolesInv, OnlyCurrent, Armed, RolesAsAssigned
<1> QED
  BY <1>1, <1>2, <1>3, PTL DEF Spec

-----------------------------------------------------------------------------
(* Exchanges *)

\* The records of an address, and whether all of them note a request.
Own(ip) == {i \in DOMAIN records : records[i].ip = ip}
Entries(i) == DOMAIN records[i].acct
Noted(ip, kind) == \A i \in Own(ip) : \E j \in Entries(i) : records[i].acct[j][1] = kind

OnWay(s, ip, dir, kind) == Message(dir, kind, s, ip) \in net

Accepted == {"start", "on", "stop", "off"}

\* A user has a record once it is accepted, and no more than one; its accounting
\* is that of this session.
AccessInv(s, ip) ==
    /\ \A i, j \in Own(ip) : i = j
    /\ \A i \in Own(ip) : \A j \in Entries(i) : records[i].acct[j][2] = s
    /\ user[s][ip] = "idle" => Own(ip) = {}
    /\ OnWay(s, ip, "request", "access") =>
           user[s][ip] \in {"access", "failed"} /\ Own(ip) = {}
    /\ OnWay(s, ip, "answer", "access") =>
           user[s][ip] \in {"access", "failed"} /\ Own(ip) # {}
    /\ user[s][ip] \in Accepted => Own(ip) # {}
    /\ answered[s][ip] # {} => user[s][ip] \in Accepted

\* An answer to accounting means that the record notes it; a start that was
\* answered in time is the first thing noted, since the stop is sent later.
AccountingInv(s, ip) ==
    /\ OnWay(s, ip, "request", "start") => user[s][ip] \in Accepted
    /\ OnWay(s, ip, "answer", "start") => user[s][ip] \in Accepted /\ Noted(ip, "start")
    /\ "start" \in answered[s][ip] =>
           \A i \in Own(ip) : records[i].acct # <<>> /\ records[i].acct[1][1] = "start"
    /\ user[s][ip] \notin {"stop", "off"} =>
           /\ ~OnWay(s, ip, "request", "stop") /\ ~OnWay(s, ip, "answer", "stop")
           /\ \A i \in Own(ip) : \A j \in Entries(i) : records[i].acct[j][1] = "start"
    /\ OnWay(s, ip, "answer", "stop") => Noted(ip, "stop")
    /\ "stop" \in answered[s][ip] => Noted(ip, "stop")

ExchangeInv ==
    /\ \A s \in Session : \A ip \in Ips : s > current => answered[s][ip] = {}
    /\ \A s \in Session : s = current =>
           \A ip \in Ips : AccessInv(s, ip) /\ AccountingInv(s, ip)

LogonInv == RolesInv /\ ExchangeInv

\* A datagram is what its fields say, and two that differ in one are two.
LEMMA MessageFields ==
  /\ \A m \in Datagram : m = Message(m.dir, m.kind, m.plan, m.ip)
  /\ \A m \in Datagram : [m EXCEPT !.dir = "answer"] = Message("answer", m.kind, m.plan, m.ip)
  /\ \A d, k, s, ip, d2, k2, s2, ip2 :
        Message(d, k, s, ip) = Message(d2, k2, s2, ip2)
          => d = d2 /\ k = k2 /\ s = s2 /\ ip = ip2
<1>1. \A m \in Datagram : m = Message(m.dir, m.kind, m.plan, m.ip)
  BY DEF Datagram, Message
<1>2. \A m \in Datagram : [m EXCEPT !.dir = "answer"] = Message("answer", m.kind, m.plan, m.ip)
  BY DEF Datagram, Message
<1>3. \A d, k, s, ip, d2, k2, s2, ip2 :
        Message(d, k, s, ip) = Message(d2, k2, s2, ip2)
          => d = d2 /\ k = k2 /\ s = s2 /\ ip = ip2
  BY DEF Message
<1> QED
  BY <1>1, <1>2, <1>3

\* What is lost harms no user, and neither does what happens to another one.
LEMMA SameUser ==
  ASSUME NEW s, NEW ip, AccessInv(s, ip), AccountingInv(s, ip),
         user'[s][ip] = user[s][ip], answered'[s][ip] = answered[s][ip],
         \A dir \in {"request", "answer"}, kind \in Kind :
            OnWay(s, ip, dir, kind)' => OnWay(s, ip, dir, kind),
         Own(ip)' = Own(ip),
         \A i \in Own(ip) : records'[i].acct = records[i].acct
  PROVE  AccessInv(s, ip)' /\ AccountingInv(s, ip)'
<1>1. \A i \in Own(ip) : Entries(i)' = Entries(i)
  BY DEF Entries
<1>2. \A kind : Noted(ip, kind)' <=> Noted(ip, kind)
  BY <1>1 DEF Noted
<1>3. AccessInv(s, ip)'
  BY <1>1 DEF AccessInv, Kind
<1>4. AccountingInv(s, ip)'
  BY <1>1, <1>2 DEF AccountingInv, Kind
<1> QED
  BY <1>3, <1>4

\* An Access-Request adds a record, of the one who sent it.
LEMMA AccessRecords ==
  ASSUME TypeOK, NEW m \in Datagram, Serve(m), m.kind = "access", NEW n, n = Len(records) + 1
  PROVE  /\ n \notin DOMAIN records /\ DOMAIN records' = DOMAIN records \cup {n}
         /\ records'[n].ip = m.ip /\ records'[n].acct = <<>>
         /\ \A i \in DOMAIN records : records'[i] = records[i]
<1> DEFINE r == [ip |-> m.ip, plan |-> m.plan, role |-> userMap, acct |-> <<>>]
<1>1. r \in Record
  BY DEF Record, Datagram, TypeOK
<1>2. records' = Append(records, r) /\ r.ip = m.ip /\ r.acct = <<>>
  BY DEF Serve, HandleAccess
<1> HIDE DEF r
<1> QED
  BY <1>1, <1>2 DEF TypeOK

\* An Accounting-Request is noted in the only record of the one who sent it.
LEMMA AccountingRecords ==
  ASSUME TypeOK, NEW m \in Datagram, Serve(m), m.kind # "access",
         NEW i \in Own(m.ip), \A j \in Own(m.ip) : j = i
  PROVE  /\ DOMAIN records' = DOMAIN records
         /\ \A j \in DOMAIN records : records'[j].ip = records[j].ip
         /\ \A j \in DOMAIN records : j # i => records'[j].acct = records[j].acct
         /\ records'[i].acct = Append(records[i].acct, <<m.kind, m.plan>>)
<1>1. SelectInSeq(records, LAMBDA r : r.ip = m.ip) = i
  <2> DEFINE I == {j \in 1 .. Len(records) : records[j].ip = m.ip}
  <2>1. I = {i} /\ i \in Nat
    BY DEF Own, TypeOK
  <2>2. (CHOOSE x \in I : \A y \in I : x <= y) = i
    BY <2>1
  <2> QED
    BY <2>1, <2>2 DEF SelectInSeq, Min
<1>2. i \in DOMAIN records /\ i # 0 /\ records[i] \in Record
  BY DEF Own, TypeOK
<1>3. records' = [records EXCEPT ![i].acct = Append(@, <<m.kind, m.plan>>)]
  BY <1>1, <1>2 DEF Serve, HandleAccounting
<1> QED
  BY <1>2, <1>3 DEF Record

\* The server does its part for one user, whose exchanges stay consistent.
LEMMA ServeKeeps ==
  ASSUME LogonInv, NEW m \in net, Serve(m), NEW s \in Session, s = current, NEW ip \in Ips
  PROVE  AccessInv(s, ip)' /\ AccountingInv(s, ip)'
<1>1. TypeOK /\ m \in Datagram /\ m.plan = s /\ m.kind \in Kind
  BY DEF LogonInv, RolesInv, OnlyCurrent, TypeOK, Datagram
<1>2. AccessInv(s, ip) /\ AccountingInv(s, ip) /\ AccessInv(s, m.ip) /\ AccountingInv(s, m.ip)
  BY <1>1 DEF LogonInv, ExchangeInv, Datagram
<1>3. user' = user /\ answered' = answered
  BY DEF Serve
<1>4. OnWay(s, m.ip, "request", m.kind)
  BY <1>1, MessageFields DEF OnWay, Serve
<1>5. \A x, d, k : OnWay(s, x, d, k)' =>
         OnWay(s, x, d, k) \/ (x = m.ip /\ d = "answer" /\ k = m.kind)
  BY <1>1, MessageFields DEF OnWay, Serve
<1>6. ~OnWay(s, m.ip, "request", m.kind)'
  BY <1>1, MessageFields DEF OnWay, Serve
<1>7. CASE m.kind = "access"
  <2>1. Own(m.ip) = {} /\ user[s][m.ip] \in {"access", "failed"}
    BY <1>2, <1>4, <1>7 DEF AccessInv
  <2> DEFINE n == Len(records) + 1
  <2>2. /\ n \notin DOMAIN records /\ DOMAIN records' = DOMAIN records \cup {n}
        /\ records'[n].ip = m.ip /\ records'[n].acct = <<>>
        /\ \A i \in DOMAIN records : records'[i] = records[i]
    BY <1>1, <1>7, AccessRecords
  <2> HIDE DEF n
  <2>3. CASE ip = m.ip
    <3>1. Own(ip)' = {n}
      BY <2>1, <2>2, <2>3 DEF Own
    <3>2. DOMAIN (records'[n].acct) = {}
      BY <2>2
    <3>3. answered[s][ip] = {}
      BY <1>2, <2>1, <2>3 DEF AccessInv, Accepted
    <3>4. AccessInv(s, ip)'
      BY <1>2, <1>3, <1>5, <1>6, <1>7, <2>1, <2>3, <3>1, <3>2, <3>3
         DEF AccessInv, Accepted, Entries
    <3>5. ~OnWay(s, ip, "answer", "start")' /\ ~OnWay(s, ip, "answer", "stop")'
      BY <1>2, <1>5, <1>7, <2>1, <2>3 DEF AccountingInv, Accepted
    <3>6. AccountingInv(s, ip)'
      BY <1>2, <1>3, <1>5, <1>7, <2>1, <2>3, <3>1, <3>2, <3>3, <3>5
         DEF AccountingInv, Accepted, Entries
    <3> QED
      BY <3>4, <3>6
  <2>4. CASE ip # m.ip
    <3>1. Own(ip)' = Own(ip) /\ \A i \in Own(ip) : records'[i].acct = records[i].acct
      BY <2>2, <2>4 DEF Own
    <3> QED
      BY <1>2, <1>3, <1>5, <2>4, <3>1, SameUser
  <2> QED
    BY <2>3, <2>4
<1>8. CASE m.kind # "access"
  <2>1. /\ user[s][m.ip] \in Accepted
        /\ m.kind = "stop" => user[s][m.ip] \in {"stop", "off"}
        /\ m.kind \in {"start", "stop"}
    BY <1>1, <1>2, <1>4, <1>8 DEF AccountingInv, Kind, Accepted
  <2>2. PICK i \in Own(m.ip) : \A j \in Own(m.ip) : j = i
    BY <1>2, <2>1 DEF AccessInv
  <2>3. /\ DOMAIN records' = DOMAIN records
        /\ \A j \in DOMAIN records : records'[j].ip = records[j].ip
        /\ \A j \in DOMAIN records : j # i => records'[j].acct = records[j].acct
        /\ records'[i].acct = Append(records[i].acct, <<m.kind, m.plan>>)
    BY <1>1, <1>8, <2>2, AccountingRecords
  <2>4. \A x : Own(x)' = Own(x)
    BY <2>3 DEF Own
  <2>5. CASE ip = m.ip
    <3> DEFINE acct == records[i].acct
               n == Len(acct) + 1
               e == <<m.kind, m.plan>>
    <3>1. Own(ip) = {i} /\ Own(ip)' = {i}
      BY <2>2, <2>4, <2>5
    <3>2. acct \in Seq({"start", "stop"} \X Session)
      <4>1. records[i] \in Record
        BY <1>1, <2>2 DEF TypeOK, Own
      <4> QED
        BY <4>1 DEF Record
    <3>3. e[1] = m.kind /\ e[2] = s /\ e \in {"start", "stop"} \X Session
      BY <1>1, <2>1
    <3>4. /\ Entries(i)' = Entries(i) \cup {n} /\ n \notin Entries(i)
          /\ records'[i].acct[n] = e
          /\ \A j \in Entries(i) : records'[i].acct[j] = acct[j]
      <4> HIDE DEF e
      <4> QED
        BY SMTT(30), <2>3, <3>2, <3>3 DEF Entries, e
    <3>5. acct # <<>> => records'[i].acct # <<>> /\ records'[i].acct[1] = acct[1]
      <4> SUFFICES ASSUME acct # <<>>
                   PROVE  records'[i].acct # <<>> /\ records'[i].acct[1] = acct[1]
        OBVIOUS
      <4>1. records'[i].acct = Append(acct, e)
        BY <2>3
      <4> HIDE DEF e, acct
      <4> QED
        BY <3>2, <3>3, <4>1
    <3> HIDE DEF acct, n, e
    <3>6. AccessInv(s, ip)'
      <4>1. \A j \in Entries(i)' : records'[i].acct[j][2] = s
        BY <1>2, <2>5, <3>1, <3>3, <3>4 DEF AccessInv, acct
      <4> QED
        BY <1>2, <1>3, <1>5, <1>8, <2>5, <3>1, <4>1 DEF AccessInv
    <3>7. AccountingInv(s, ip)'
      <4>1. \A k : Noted(ip, k) \/ k = m.kind => Noted(ip, k)'
        BY <2>5, <3>1, <3>3, <3>4 DEF Noted, acct
      <4>2. user[s][ip] \notin {"stop", "off"} =>
               \A j \in Entries(i)' : records'[i].acct[j][1] = "start"
        BY <1>2, <2>1, <2>5, <3>1, <3>3, <3>4 DEF AccountingInv, acct
      <4>3. "start" \in answered[s][ip] =>
               records'[i].acct # <<>> /\ records'[i].acct[1][1] = "start"
        BY <1>2, <2>5, <3>1, <3>5 DEF AccountingInv, acct
      <4> QED
        BY <1>2, <1>3, <1>5, <2>1, <2>5, <3>1, <4>1, <4>2, <4>3 DEF AccountingInv
    <3> QED
      BY <3>6, <3>7
  <2>6. CASE ip # m.ip
    <3>1. \A j \in Own(ip) : records'[j].acct = records[j].acct
      BY <2>2, <2>3, <2>6 DEF Own
    <3> QED
      BY <1>2, <1>3, <1>5, <2>4, <2>6, <3>1, SameUser
  <2> QED
    BY <2>5, <2>6
<1> QED
  BY <1>7, <1>8

\* An answer in time takes a user on, and what it tells is in the records.
LEMMA AnswerKeeps ==
  ASSUME LogonInv, NEW m \in net, Answer(m), NEW s \in Session, s = current, NEW ip \in Ips
  PROVE  AccessInv(s, ip)' /\ AccountingInv(s, ip)'
<1>1. TypeOK /\ m \in Datagram /\ m.plan = s /\ m.kind \in Kind /\ m.ip \in Ips
  BY DEF LogonInv, RolesInv, OnlyCurrent, TypeOK, Datagram
<1>2. AccessInv(s, ip) /\ AccountingInv(s, ip)
  BY <1>1 DEF LogonInv, ExchangeInv
<1>3. /\ records' = records
      /\ user'[s][ip] = IF ip = m.ip THEN After(m.kind) ELSE user[s][ip]
      /\ answered'[s][ip] = IF ip = m.ip THEN answered[s][ip] \cup {m.kind} ELSE answered[s][ip]
  BY <1>1 DEF Answer, Become, serverVars, TypeOK
<1>4. Own(ip)' = Own(ip) /\ (\A i : Entries(i)' = Entries(i)) /\ (\A k : Noted(ip, k)' <=> Noted(ip, k))
  BY <1>3 DEF Own, Entries, Noted
<1>5. \A x, d, k : OnWay(s, x, d, k)' =>
         OnWay(s, x, d, k) \/ (x = m.ip /\ d = "request" /\ k = "start" /\ m.kind = "access")
  BY <1>1, MessageFields DEF OnWay, Answer, Follow
<1>6. CASE ip # m.ip
  BY <1>2, <1>3, <1>4, <1>5, <1>6, SameUser
<1>7. CASE ip = m.ip
  <2>1. OnWay(s, ip, "answer", m.kind) /\ user[s][ip] = m.kind
    BY <1>1, <1>7, MessageFields DEF OnWay, Answer
  <2>2. ~OnWay(s, ip, "answer", m.kind)'
    BY <1>1, <1>7, MessageFields DEF OnWay, Answer, Follow
  <2>3. CASE m.kind = "access"
    <3>1. user'[s][ip] = "start" /\ answered[s][ip] = {} /\ Own(ip) # {}
      BY <1>2, <1>3, <1>7, <2>1, <2>3 DEF AccessInv, After, Accepted
    <3>2. AccessInv(s, ip)'
      BY <1>2, <1>3, <1>4, <1>5, <2>2, <2>3, <3>1 DEF AccessInv, Accepted
    <3>3. AccountingInv(s, ip)'
      BY <1>2, <1>3, <1>4, <1>5, <1>7, <2>1, <2>3, <3>1 DEF AccountingInv, Accepted
    <3> QED
      BY <3>2, <3>3
  <2>4. CASE m.kind = "start"
    <3>1. user'[s][ip] = "on"
      BY <1>3, <1>7, <2>4 DEF After
    <3>2. AccessInv(s, ip)'
      BY <1>2, <1>3, <1>4, <1>5, <2>1, <2>4, <3>1 DEF AccessInv, Accepted
    <3>3. \A i \in Own(ip) : records[i].acct # <<>> /\ records[i].acct[1][1] = "start"
      <4> SUFFICES ASSUME NEW i \in Own(ip)
                   PROVE  records[i].acct # <<>> /\ records[i].acct[1][1] = "start"
        OBVIOUS
      <4>1. Entries(i) # {} /\ \A j \in Entries(i) : records[i].acct[j][1] = "start"
        BY <1>2, <2>1, <2>4 DEF AccountingInv, Noted
      <4>2. records[i].acct \in Seq({"start", "stop"} \X Session)
        <5>1. records[i] \in Record
          BY <1>1 DEF TypeOK, Own
        <5> QED
          BY <5>1 DEF Record
      <4>3. records[i].acct # <<>> /\ 1 \in Entries(i)
        BY <4>1, <4>2 DEF Entries
      <4> QED
        BY <4>1, <4>3
    <3>4. AccountingInv(s, ip)'
      BY <1>2, <1>3, <1>4, <1>5, <1>7, <2>1, <2>4, <3>1, <3>3 DEF AccountingInv, Accepted
    <3> QED
      BY <3>2, <3>4
  <2>5. CASE m.kind = "stop"
    <3>1. user'[s][ip] = "off"
      BY <1>3, <1>7, <2>5 DEF After
    <3>2. AccessInv(s, ip)'
      BY <1>2, <1>3, <1>4, <1>5, <2>1, <2>5, <3>1 DEF AccessInv, Accepted
    <3>3. AccountingInv(s, ip)'
      BY <1>2, <1>3, <1>4, <1>5, <1>7, <2>1, <2>5, <3>1 DEF AccountingInv, Accepted
    <3> QED
      BY <3>2, <3>3
  <2> QED
    BY <1>1, <2>3, <2>4, <2>5 DEF Kind
<1> QED
  BY <1>6, <1>7

\* What a user does by itself - begin, give up, log off - keeps its exchanges
\* consistent.
LEMMA UserKeeps ==
  ASSUME LogonInv, NEW s \in Session, s = current, NEW ip \in Ips, NEW x \in Ips,
         BeginAuth(s, x) \/ Timeout(s, x) \/ Logoff(s, x)
  PROVE  AccessInv(s, ip)' /\ AccountingInv(s, ip)'
<1>1. TypeOK /\ AccessInv(s, ip) /\ AccountingInv(s, ip)
  BY DEF LogonInv, RolesInv, ExchangeInv
<1>2. records' = records /\ answered' = answered
  BY DEF BeginAuth, Timeout, Logoff, serverVars
<1>3. Own(ip)' = Own(ip) /\ (\A i : Entries(i)' = Entries(i)) /\ (\A k : Noted(ip, k)' <=> Noted(ip, k))
  BY <1>2 DEF Own, Entries, Noted
<1>4. CASE ip # x
  <2>1. user'[s][ip] = user[s][ip]
    BY <1>1, <1>4 DEF BeginAuth, Timeout, Logoff, Become, TypeOK
  <2>2. \A d, k : OnWay(s, ip, d, k)' => OnWay(s, ip, d, k)
    BY <1>4, MessageFields DEF BeginAuth, Timeout, Logoff, Send, OnWay
  <2> QED
    BY <1>1, <1>2, <1>3, <2>1, <2>2, SameUser
<1>5. CASE ip = x /\ BeginAuth(s, x)
  <2>1. user[s][ip] = "idle" /\ user'[s][ip] \in {"access", "failed"}
    BY <1>1, <1>5 DEF BeginAuth, Become, TypeOK
  <2>2. \A d, k : OnWay(s, ip, d, k)' =>
           OnWay(s, ip, d, k) \/ (d = "request" /\ k = "access")
    BY <1>5, MessageFields DEF BeginAuth, Send, OnWay
  <2>3. AccessInv(s, ip)'
    BY <1>1, <1>2, <1>3, <2>1, <2>2 DEF AccessInv, Accepted
  <2>4. AccountingInv(s, ip)'
    BY <1>1, <1>2, <1>3, <2>1, <2>2 DEF AccountingInv, Accepted
  <2> QED
    BY <2>3, <2>4
<1>6. CASE ip = x /\ Timeout(s, x)
  <2>1. \/ user[s][ip] = "access" /\ user'[s][ip] = "failed"
        \/ user[s][ip] = "start" /\ user'[s][ip] = "on"
        \/ user[s][ip] = "stop" /\ user'[s][ip] = "off"
    BY <1>1, <1>6 DEF Timeout, Become, TypeOK
  <2>2. \A d, k : OnWay(s, ip, d, k)' <=> OnWay(s, ip, d, k)
    BY <1>6 DEF Timeout, OnWay
  <2>3. AccessInv(s, ip)'
    BY <1>1, <1>2, <1>3, <2>1, <2>2 DEF AccessInv, Accepted
  <2>4. AccountingInv(s, ip)'
    BY <1>1, <1>2, <1>3, <2>1, <2>2 DEF AccountingInv, Accepted
  <2> QED
    BY <2>3, <2>4
<1>7. CASE ip = x /\ Logoff(s, x)
  <2>1. user[s][ip] = "on" /\ user'[s][ip] = "stop"
    BY <1>1, <1>7 DEF Logoff, Become, TypeOK
  <2>2. \A d, k : OnWay(s, ip, d, k)' =>
           OnWay(s, ip, d, k) \/ (d = "request" /\ k = "stop")
    BY <1>7, MessageFields DEF Logoff, Send, OnWay
  <2>3. AccessInv(s, ip)'
    BY <1>1, <1>2, <1>3, <2>1, <2>2 DEF AccessInv, Accepted
  <2>4. AccountingInv(s, ip)'
    BY <1>1, <1>2, <1>3, <2>1, <2>2 DEF AccountingInv, Accepted
  <2> QED
    BY <2>3, <2>4
<1> QED
  BY <1>4, <1>5, <1>6, <1>7

LEMMA LogonStep ==
  ASSUME ~Overlap, LogonInv, [Next]_vars
  PROVE  LogonInv'
<1>1. RolesInv /\ TypeOK /\ RolesInv' /\ TypeOK' /\ ExchangeInv
  BY RolesStep DEF LogonInv, RolesInv
<1>2. CASE CreateSession
  <2>1. /\ current' = current + 1 /\ records' = <<>> /\ net' = {}
        /\ user' = user /\ answered' = answered
    BY <1>2 DEF CreateSession, SetSession
  <2>2. current \in Nat /\ \A s \in Session : s \in Nat
    BY <1>1 DEF TypeOK, Session, NoSession
  <2>3. \A s \in Session : \A ip \in Ips :
           s > current => answered[s][ip] = {} /\ user[s][ip] = "idle"
    BY <1>1 DEF RolesInv, OnlyCurrent, ExchangeInv
  <2>4. \A s \in Session : \A ip \in Ips : s > current' => answered'[s][ip] = {}
    BY <2>1, <2>2, <2>3
  <2>5. ASSUME NEW s \in Session, s = current', NEW ip \in Ips
        PROVE  AccessInv(s, ip)' /\ AccountingInv(s, ip)'
    <3>1. answered'[s][ip] = {} /\ user'[s][ip] = "idle"
      BY <2>1, <2>2, <2>3, <2>5
    <3>2. Own(ip)' = {}
      BY <2>1 DEF Own
    <3>3. \A d, k : ~OnWay(s, ip, d, k)'
      BY <2>1 DEF OnWay
    <3> QED
      BY <3>1, <3>2, <3>3 DEF AccessInv, AccountingInv, Accepted
  <2> QED
    BY <1>1, <2>4, <2>5 DEF LogonInv, ExchangeInv
<1>3. ASSUME current' = current,
             \A s \in Session : s # current => answered'[s] = answered[s],
             \A s \in Session : s = current =>
                 \A ip \in Ips : AccessInv(s, ip)' /\ AccountingInv(s, ip)'
      PROVE  LogonInv'
  <2>1. current \in Nat /\ \A s \in Session : s \in Nat
    BY <1>1 DEF TypeOK, Session, NoSession
  <2>2. \A s \in Session : \A ip \in Ips : s > current' => answered'[s][ip] = {}
    BY <1>1, <1>3, <2>1 DEF ExchangeInv
  <2> QED
    BY <1>1, <1>3, <2>2 DEF LogonInv, ExchangeInv
<1>4. ASSUME UNCHANGED <<current, records, user, answered>>, net' \subseteq net
      PROVE  LogonInv'
  <2>1. ASSUME NEW s \in Session, s = current, NEW ip \in Ips
        PROVE  AccessInv(s, ip)' /\ AccountingInv(s, ip)'
    <3>1. AccessInv(s, ip) /\ AccountingInv(s, ip)
      BY <1>1, <2>1 DEF ExchangeInv
    <3>2. Own(ip)' = Own(ip)
      BY <1>4 DEF Own
    <3>3. \A d, k : OnWay(s, ip, d, k)' => OnWay(s, ip, d, k)
      BY <1>4 DEF OnWay
    <3> QED
      BY <1>4, <3>1, <3>2, <3>3, SameUser
  <2> QED
    BY <1>3, <1>4, <2>1
<1>5. CASE StopSession \/ FinishStop \/ CompleteSession \/ UNCHANGED vars
  BY <1>4, <1>5
     DEF StopSession, FinishStop, CompleteSession, ClearSession, vars, sessionVars, serverVars
<1>6. ASSUME NEW m \in net, Lose(m) PROVE LogonInv'
  BY <1>4, <1>6 DEF Lose, sessionVars, serverVars
<1>7. ASSUME NEW m \in net, Serve(m) PROVE LogonInv'
  <2>1. UNCHANGED <<current, answered>>
    BY <1>7 DEF Serve, sessionVars
  <2> QED
    BY <1>3, <1>7, <2>1, ServeKeeps
<1>8. ASSUME NEW m \in net, Answer(m) PROVE LogonInv'
  <2>1. current' = current /\ m.plan = current
    BY <1>1, <1>8 DEF Answer, sessionVars, RolesInv, OnlyCurrent
  <2>2. \A s \in Session : s # current => answered'[s] = answered[s]
    BY <1>1, <1>8, <2>1 DEF Answer, TypeOK
  <2> QED
    BY <1>3, <1>8, <2>1, <2>2, AnswerKeeps
<1>9. ASSUME NEW s \in Session, NEW ip \in Ips,
             BeginAuth(s, ip) \/ Timeout(s, ip) \/ Logoff(s, ip)
      PROVE  LogonInv'
  <2>1. UNCHANGED <<current, answered>>
    BY <1>9 DEF BeginAuth, Timeout, Logoff, sessionVars
  <2>2. s = current
    <3>1. user[s][ip] \notin {"off", "failed"} /\ (s > current => user[s][ip] # "idle")
      <4>1. current \in Nat /\ s \in Nat
        BY <1>1 DEF TypeOK, Session, NoSession
      <4> QED
        BY <1>9, <4>1 DEF BeginAuth, Timeout, Logoff
    <3>2. current \in Nat /\ s \in Nat
      BY <1>1 DEF TypeOK, Session, NoSession
    <3> QED
      BY <1>1, <3>1, <3>2 DEF RolesInv, OnlyCurrent
  <2> QED
    BY <1>3, <1>9, <2>1, <2>2, UserKeeps
<1> QED
  BY <1>2, <1>5, <1>6, <1>7, <1>8, <1>9 DEF Next

LEMMA LogonInit == ASSUME Init PROVE LogonInv
<1>1. RolesInv
  BY RolesInit
<1>2. \A s \in Session : s # current
  BY NoSessionIsNone DEF Init
<1>3. \A s \in Session : \A ip \in Ips : answered[s][ip] = {}
  BY DEF Init
<1> QED
  BY <1>1, <1>2, <1>3 DEF LogonInv, ExchangeInv

\* What the invariant says of one record.
LEMMA RecordOfUser ==
  ASSUME LogonInv, NEW i \in DOMAIN records
  PROVE  /\ records[i].plan = current /\ current \in Session /\ records[i].ip \in Ips
         /\ i \in Own(records[i].ip)
         /\ AccessInv(current, records[i].ip) /\ AccountingInv(current, records[i].ip)
<1>1. records[i] \in Record /\ records[i].plan = current
  BY DEF LogonInv, RolesInv, TypeOK, OnlyCurrent
<1>2. records[i].plan \in Session /\ records[i].ip \in Ips
  BY <1>1 DEF Record
<1> QED
  BY <1>1, <1>2 DEF Own, LogonInv, ExchangeInv

\* The times in a record are those of the user it belongs to, the start before
\* the stop if the user knows of it.
THEOREM TimesAreOwn == ~Overlap => (Spec => []OwnTimes)
<1> SUFFICES ASSUME ~Overlap PROVE Spec => []OwnTimes
  OBVIOUS
<1>1. Init => LogonInv
  BY LogonInit
<1>2. LogonInv /\ [Next]_vars => LogonInv'
  BY LogonStep
<1>3. LogonInv => OwnTimes
  <2> SUFFICES ASSUME LogonInv, NEW i \in DOMAIN records
               PROVE  /\ \A j \in DOMAIN records[i].acct :
                             records[i].acct[j][2] = records[i].plan
                      /\ "start" \in answered[records[i].plan][records[i].ip] =>
                             records[i].acct # <<>> /\ records[i].acct[1][1] = "start"
    BY DEF OwnTimes
  <2> QED
    BY RecordOfUser DEF AccessInv, AccountingInv, Entries
<1> QED
  BY <1>1, <1>2, <1>3, PTL DEF Spec

\* What a user was told by the server, the server has on record.
THEOREM AnswersAreRecorded == ~Overlap => (Spec => []AnsweredIsRecorded)
<1> SUFFICES ASSUME ~Overlap PROVE Spec => []AnsweredIsRecorded
  OBVIOUS
<1>1. Init => LogonInv
  BY LogonInit
<1>2. LogonInv /\ [Next]_vars => LogonInv'
  BY LogonStep
<1>3. LogonInv => AnsweredIsRecorded
  <2> SUFFICES ASSUME LogonInv, current # NoSession, NEW ip \in Ips, answered[current][ip] # {}
               PROVE  LET mine == {i \in DOMAIN records :
                                      records[i].plan = current /\ records[i].ip = ip}
                      IN  \E i \in mine :
                            /\ mine = {i}
                            /\ \A kind \in answered[current][ip] \ {"access"} :
                                  \E j \in DOMAIN records[i].acct :
                                     records[i].acct[j][1] = kind
    BY DEF AnsweredIsRecorded
  <2>1. current \in Session /\ answered[current][ip] \subseteq Kind
    BY DEF LogonInv, RolesInv, TypeOK
  <2>2. AccessInv(current, ip) /\ AccountingInv(current, ip)
    BY <2>1 DEF LogonInv, ExchangeInv
  <2>3. \A i \in DOMAIN records : records[i].plan = current
    BY DEF LogonInv, RolesInv, OnlyCurrent
  <2>4. PICK i \in Own(ip) : \A j \in Own(ip) : j = i
    BY <2>2 DEF AccessInv
  <2>5. {j \in DOMAIN records : records[j].plan = current /\ records[j].ip = ip} = {i}
    BY <2>3, <2>4 DEF Own
  <2>6. ASSUME NEW kind \in answered[current][ip] \ {"access"}
        PROVE  \E j \in DOMAIN records[i].acct : records[i].acct[j][1] = kind
    <3>1. CASE kind = "start"
      <4>1. records[i].acct # <<>> /\ records[i].acct[1][1] = "start"
        BY <2>2, <3>1, <2>4 DEF AccountingInv
      <4>2. records[i] \in Record
        BY <2>4 DEF Own, LogonInv, RolesInv, TypeOK
      <4>3. records[i].acct \in Seq({"start", "stop"} \X Session)
        BY <4>2 DEF Record
      <4>4. 1 \in DOMAIN records[i].acct
        BY <4>1, <4>3
      <4> QED
        BY <3>1, <4>1, <4>4
    <3>2. CASE kind = "stop"
      BY <2>2, <2>4, <3>2 DEF AccountingInv, Noted, Entries
    <3> QED
      BY <2>1, <3>1, <3>2 DEF Kind
  <2> QED
    BY <2>5, <2>6
<1> QED
  BY <1>1, <1>2, <1>3, PTL DEF Spec
=============================================================================
