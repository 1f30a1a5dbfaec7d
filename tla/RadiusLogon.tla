---------------------------- MODULE RadiusLogon ----------------------------
(***************************************************************************)
(* The logons of simulated users: controller/radius_server.py, the built-in*)
(* server, and agent/workers/radius_worker.py, the users' side of it.      *)
(* controller/main.py arms the server when a session is created and        *)
(* disarms it when one is stopped.                                         *)
(*                                                                         *)
(* The two sides exchange datagrams, which are lost and overtake each      *)
(* other; duplicates are left out.  Every exchange has a socket of its own,*)
(* so an answer that comes after the timeout meets nobody.                 *)
(***************************************************************************)
EXTENDS Naturals, SequencesExt

CONSTANTS
    Ips,                \* addresses, one user on each
    MaxSessions,        \* bound: sessions
    Overlap             \* may a session begin while users of the last one log off?

ASSUME RadiusAssumption == MaxSessions \in Nat /\ Overlap \in BOOLEAN

Session == 1 .. MaxSessions
NoSession == 0
Kind == {"access", "start", "stop"}

VARIABLES
    current,            \* the latest session
    live,               \* is it PENDING or RUNNING?
    stopping,           \* stop requests that have still to disarm the server
    userMap,            \* the session whose users _user_map holds, or NoSession
    records,            \* _auth_records
    net,                \* datagrams on their way
    user,               \* session -> address -> what the user is doing
    answered            \* session -> address -> the exchanges answered in time

sessionVars == <<current, live, stopping>>
serverVars == <<userMap, records>>
vars == <<sessionVars, serverVars, net, user, answered>>

\* access, start, stop: waiting for the answer     on: authenticated
UserState == {"idle", "access", "start", "on", "stop", "off", "failed"}

\* A record keeps, in place of the two times of accounting, the requests that
\* set them, in the order they came.
Record == [ip : Ips, plan : Session, role : Session \cup {NoSession},
           acct : Seq({"start", "stop"} \X Session)]
Datagram == [dir : {"request", "answer"}, kind : Kind, plan : Session, ip : Ips]

TypeOK ==
    /\ current \in Session \cup {NoSession} /\ live \in BOOLEAN
    /\ stopping \in Nat
    /\ userMap \in Session \cup {NoSession}
    /\ records \in Seq(Record)
    /\ net \subseteq Datagram
    /\ user \in [Session -> [Ips -> UserState]]
    /\ answered \in [Session -> [Ips -> SUBSET Kind]]

Init ==
    /\ current = NoSession /\ live = FALSE /\ stopping = 0
    /\ userMap = NoSession /\ records = <<>>
    /\ net = {}
    /\ user = [s \in Session |-> [ip \in Ips |-> "idle"]]
    /\ answered = [s \in Session |-> [ip \in Ips |-> {}]]

Message(dir, kind, s, ip) == [dir |-> dir, kind |-> kind, plan |-> s, ip |-> ip]
Ended(s) == s # NoSession => \A ip \in Ips : user[s][ip] \in {"off", "failed"}
Become(s, ip, state) == user' = [user EXCEPT ![s][ip] = state]

-----------------------------------------------------------------------------
(* The controller: sessions *)

\* Mutant: a server that is armed is not armed again.
SetSessionOnce(s) ==
    /\ userMap' = IF userMap = NoSession THEN s ELSE userMap
    /\ records' = <<>>

SetSession(s) == userMap' = s /\ records' = <<>>

\* create_and_run_session.
CreateSession ==
    /\ current < MaxSessions /\ ~live
    /\ Overlap \/ (Ended(current) /\ net = {} /\ stopping = 0)
    /\ current' = current + 1 /\ live' = TRUE
    /\ SetSession(current + 1)
    /\ UNCHANGED <<stopping, net, user, answered>>

\* Mutant: clear_session drops the records too.
ClearSessionAndRecords == userMap' = NoSession /\ records' = <<>>

ClearSession == userMap' = NoSession /\ UNCHANGED records

\* stop_session: first the session, then STOP_PLAN, and at last the server.
StopSession ==
    /\ live
    /\ live' = FALSE
    /\ stopping' = stopping + 1
    /\ UNCHANGED <<current, serverVars, net, user, answered>>

FinishStop ==
    /\ stopping > 0
    /\ stopping' = stopping - 1
    /\ ClearSession
    /\ UNCHANGED <<current, live, net, user, answered>>

\* The last PLAN_STOPPED or RUN_PLAN failure completes it; nothing is disarmed.
CompleteSession ==
    /\ live /\ Ended(current)
    /\ live' = FALSE
    /\ UNCHANGED <<current, stopping, serverVars, net, user, answered>>

-----------------------------------------------------------------------------
(* RadiusServer *)

\* The role comes from the map; a user that is not in it becomes an Employee.
HandleAccess(m) ==
    records' = Append(records, [ip |-> m.ip, plan |-> m.plan,
                                role |-> userMap, acct |-> <<>>])

\* Mutant: the latest record is updated, whatever its address.
HandleAccountingAtLast(m) ==
    records' = IF records = <<>> THEN records
               ELSE [records EXCEPT ![Len(records)].acct =
                                        Append(@, <<m.kind, m.plan>>)]

\* The first record of the address is updated, if there is one.
HandleAccounting(m) ==
    LET i == SelectInSeq(records, LAMBDA r : r.ip = m.ip)
    IN  records' = IF i = 0 THEN records
                   ELSE [records EXCEPT ![i].acct = Append(@, <<m.kind, m.plan>>)]

Serve(m) ==
    /\ m.dir = "request"
    /\ IF m.kind = "access" THEN HandleAccess(m) ELSE HandleAccounting(m)
    /\ net' = (net \ {m}) \cup {[m EXCEPT !.dir = "answer"]}
    /\ UNCHANGED <<sessionVars, userMap, user, answered>>

Lose(m) ==
    /\ net' = net \ {m}
    /\ UNCHANGED <<sessionVars, serverVars, user, answered>>

-----------------------------------------------------------------------------
(* RadiusWorker: one user *)

Send(kind, s, ip) == net' = net \cup {Message("request", kind, s, ip)}

\* authenticate_all: the Access-Request, or none if the alias is not up.
BeginAuth(s, ip) ==
    /\ s <= current /\ user[s][ip] = "idle"
    /\ \/ Become(s, ip, "access") /\ Send("access", s, ip)
       \/ Become(s, ip, "failed") /\ UNCHANGED net
    /\ UNCHANGED <<sessionVars, serverVars, answered>>

\* What follows an answered exchange: after Access-Accept comes Accounting-Start.
After(kind) ==
    CASE kind = "access" -> "start"
      [] kind = "start"  -> "on"
      [] kind = "stop"   -> "off"

Follow(m) == IF m.kind = "access"
               THEN {Message("request", "start", m.plan, m.ip)} ELSE {}

\* _send_recv returns.
Answer(m) ==
    /\ m.dir = "answer" /\ user[m.plan][m.ip] = m.kind
    /\ answered' = [answered EXCEPT ![m.plan][m.ip] = @ \cup {m.kind}]
    /\ Become(m.plan, m.ip, After(m.kind))
    /\ net' = (net \ {m}) \cup Follow(m)
    /\ UNCHANGED <<sessionVars, serverVars>>

\* A user whose Accounting-Start is not answered stays authenticated.
Timeout(s, ip) ==
    /\ \/ user[s][ip] = "access" /\ Become(s, ip, "failed")
       \/ user[s][ip] = "start"  /\ Become(s, ip, "on")
       \/ user[s][ip] = "stop"   /\ Become(s, ip, "off")
    /\ UNCHANGED <<sessionVars, serverVars, net, answered>>

\* logoff_all, for an authenticated user; the plan was stopped or its time is over.
Logoff(s, ip) ==
    /\ user[s][ip] = "on"
    /\ Become(s, ip, "stop") /\ Send("stop", s, ip)
    /\ UNCHANGED <<sessionVars, serverVars, answered>>

-----------------------------------------------------------------------------

Next ==
    \/ CreateSession \/ StopSession \/ FinishStop \/ CompleteSession
    \/ \E m \in net : Serve(m) \/ Lose(m) \/ Answer(m)
    \/ \E s \in Session, ip \in Ips :
           BeginAuth(s, ip) \/ Timeout(s, ip) \/ Logoff(s, ip)

Spec == Init /\ [][Next]_vars

-----------------------------------------------------------------------------

\* Accounting finds its record by the address alone, and the addresses of one
\* session are those of the next.  Even so a record's times are the user's own,
\* the start before the stop unless the start was overtaken, which its user knows.
OwnTimes ==
    \A i \in DOMAIN records :
        LET r == records[i]
        IN  /\ \A j \in DOMAIN r.acct : r.acct[j][2] = r.plan
            /\ "start" \in answered[r.plan][r.ip] =>
                   r.acct # <<>> /\ r.acct[1][1] = "start"

\* Whatever a user of the latest session was told is in the records, through
\* stop_session and a late logoff: one record of an accepted user, with the
\* times of the accounting that was answered.
AnsweredIsRecorded ==
    current # NoSession =>
        \A ip \in Ips :
            LET told == answered[current][ip]
                mine == {i \in DOMAIN records :
                            records[i].plan = current /\ records[i].ip = ip}
            IN  told # {} => \E i \in mine :
                    /\ mine = {i}
                    /\ \A kind \in told \ {"access"} :
                           \E j \in DOMAIN records[i].acct : records[i].acct[j][1] = kind

\* As long as the session is not stopped, every user is given the role that was
\* assigned to it: the server knows the users before their first request.
RolesAsAssigned ==
    userMap # NoSession =>
        \A i \in DOMAIN records : records[i].role = records[i].plan

=============================================================================
