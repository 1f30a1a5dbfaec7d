----------------------------- MODULE Telemetry ------------------------------
(***************************************************************************)
(* controller/session_store.py, add_snapshot and _check_alert: what the    *)
(* store does with the SNAPSHOT messages of one session.  It keeps the     *)
(* newest ones up to a cap, and raises an alert for a stream whose MOS     *)
(* stays below the plan's floor for a window of seconds, clears it when    *)
(* the MOS recovers, and drops the tracking state when the session ends.   *)
(*                                                                         *)
(* A reading is what _check_alert distinguishes: no data (MOS 0), below    *)
(* the floor, or not below it.  Alerts are on (alert_mos_floor > 0).       *)
(***************************************************************************)
EXTENDS Integers, Sequences

CONSTANTS
    Streams,                  \* stream keys, "node:worker session"
    Window,                   \* alert_window_s
    Cap,                      \* MAX_SNAPSHOTS_PER_SESSION
    MaxSnapshots,             \* bound: readings of the session
    MaxTime                   \* bound: the clock

ASSUME TelemetryAssumption ==
    /\ Window \in Nat /\ MaxSnapshots \in Nat /\ MaxTime \in Nat
    /\ Cap \in Nat \ {0, 1}   \* half the cap is not zero

VARIABLES
    now,          \* time.time()
    live,         \* is the session PENDING or RUNNING?
    log,          \* every reading ever added: what the properties look at
    snapshots,    \* session.snapshots, as positions in log
    below,        \* _alert_below_since[session]
    fired,        \* _alert_fired[session]
    alerts,       \* session.alerts, as positions of the readings that fired them
    cleared       \* those with a cleared_at

alertVars == <<below, fired, alerts, cleared>>
vars == <<now, live, log, snapshots, below, fired, alerts, cleared>>

Mos == {"none", "low", "good"}
Reading == [stream : Streams, mos : Mos, time : 0 .. MaxTime]
NotBelow == -1

TypeOK ==
    /\ now \in 0 .. MaxTime
    /\ live \in BOOLEAN
    /\ log \in Seq(Reading)
    /\ snapshots \in Seq(1 .. Len(log))
    /\ below \in [Streams -> (0 .. MaxTime) \cup {NotBelow}]
    /\ fired \in SUBSET Streams
    /\ alerts \in SUBSET (1 .. Len(log))
    /\ cleared \in SUBSET alerts

Init ==
    /\ now = 0 /\ live = TRUE
    /\ log = <<>> /\ snapshots = <<>>
    /\ below = [k \in Streams |-> NotBelow]
    /\ fired = {} /\ alerts = {} /\ cleared = {}

-----------------------------------------------------------------------------

\* Mutant: one element too few is dropped from a list that is over the cap.
TrimmedLate(s) ==
    IF Len(s) > Cap THEN SubSeq(s, Len(s) - Cap \div 2 + 1, Len(s)) ELSE s

\* At the cap, the older half is dropped before the new one is appended.
Trimmed(s) ==
    IF Len(s) >= Cap THEN SubSeq(s, Len(s) - Cap \div 2 + 1, Len(s)) ELSE s

ActiveAlerts(k) == {a \in alerts \ cleared : log[a].stream = k}
LatestActive(k) == {a \in ActiveAlerts(k) : \A b \in ActiveAlerts(k) : b <= a}

\* Mutant: the alert itself is not cleared.
RecoverSilently(k) ==
    /\ below' = [below EXCEPT ![k] = NotBelow]
    /\ fired' = fired \ {k}
    /\ UNCHANGED <<alerts, cleared>>

\* The stream's most recent active alert gets its cleared_at.
Recover(k) ==
    /\ below' = [below EXCEPT ![k] = NotBelow]
    /\ fired' = fired \ {k}
    /\ cleared' = IF k \in fired THEN cleared \cup LatestActive(k) ELSE cleared
    /\ UNCHANGED alerts

\* Mutant: fires again for as long as the MOS stays low.
DueAgain(k) == below[k] # NotBelow /\ now - below[k] >= Window

\* Mutant: forgets that the window starts with the first low reading.
DueAtOnce(k) == k \notin fired

\* Mutant: waits for longer than the window.
DueLate(k) ==
    below[k] # NotBelow /\ k \notin fired /\ now - below[k] > Window

Due(k) == below[k] # NotBelow /\ k \notin fired /\ now - below[k] >= Window

Dip(k, id) ==
    /\ below' = IF below[k] = NotBelow THEN [below EXCEPT ![k] = now] ELSE below
    /\ fired' = IF Due(k) THEN fired \cup {k} ELSE fired
    /\ alerts' = IF Due(k) THEN alerts \cup {id} ELSE alerts
    /\ UNCHANGED cleared

\* _check_alert of the reading at position id.
CheckAlert(k, mos, id) ==
    \/ mos = "none" /\ UNCHANGED alertVars
    \/ mos = "low" /\ Dip(k, id)
    \/ mos = "good" /\ Recover(k)

\* add_snapshot; only the active session gets snapshots.
AddSnapshot(k, mos) ==
    /\ live
    /\ Len(log) < MaxSnapshots
    /\ log' = Append(log, [stream |-> k, mos |-> mos, time |-> now])
    /\ snapshots' = Append(Trimmed(snapshots), Len(log) + 1)
    /\ CheckAlert(k, mos, Len(log) + 1)
    /\ UNCHANGED <<now, live>>

\* stop_session and complete_session: _clear_alert_state, and nothing else is
\* done about the alerts.
EndSession ==
    /\ live
    /\ live' = FALSE
    /\ below' = [k \in Streams |-> NotBelow]
    /\ fired' = {}
    /\ UNCHANGED <<now, log, snapshots, alerts, cleared>>

Tick ==
    /\ now < MaxTime
    /\ now' = now + 1
    /\ UNCHANGED <<live, log, snapshots, alertVars>>

Next ==
    \/ \E k \in Streams, mos \in Mos : AddSnapshot(k, mos)
    \/ EndSession
    \/ Tick

Spec == Init /\ [][Next]_vars

-----------------------------------------------------------------------------
(* Properties *)

\* While the session is active, a stream has at most one active alert, and has
\* one exactly when the tracker believes it has fired: no dip raises a second
\* alert, and no recovery leaves one behind.
OneActiveAlert ==
    live => \A k \in Streams :
        /\ k \in fired <=> ActiveAlerts(k) # {}
        /\ \A a, b \in ActiveAlerts(k) : a = b

\* The MOS of the stream of reading i has not recovered by reading j.
NoRecovery(i, j) ==
    \A h \in i .. j : log[h].stream = log[i].stream => log[h].mos # "good"

\* Two low readings of one stream, at least a window apart, and the MOS not
\* recovered in between: what alert_window_s is about.
LongDip(i, j) ==
    /\ i < j
    /\ log[i].stream = log[j].stream
    /\ log[i].mos = "low" /\ log[j].mos = "low"
    /\ log[j].time - log[i].time >= Window
    /\ NoRecovery(i, j)

\* No alert without a long dip that ends with the reading that fired it
\* (models.py, AlertEvent: "a stream's MOS stays below alert_mos_floor for
\* alert_window_s seconds").
AlertsAreJustified ==
    \A a \in alerts : \E i \in 1 .. a : LongDip(i, a)

\* No long dip without an alert, raised during that very dip.
LongDipsAlert ==
    \A i, j \in 1 .. Len(log) :
        LongDip(i, j) =>
            \E a \in alerts : /\ a <= j /\ log[a].stream = log[j].stream
                              /\ NoRecovery(a, j)

\* While the session is active, the active alerts are those whose stream has
\* not recovered since they were fired.
ActiveUntilRecovery ==
    live => \A a \in alerts : a \notin cleared <=> NoRecovery(a, Len(log))

\* The session keeps its newest readings, in order and without a gap, never
\* more than the cap, and at least half the cap of them once it had as many.
NewestKept ==
    /\ Len(snapshots) <= Cap
    /\ Len(snapshots) >= IF Len(log) < Cap \div 2 THEN Len(log) ELSE Cap \div 2
    /\ \A i \in DOMAIN snapshots :
         snapshots[i] = Len(log) - Len(snapshots) + i

\* NetLab-Validation-Tests.md, 9.3: when the test is stopped, its alerts have
\* been cleared.
AlertsClearedAtEnd == ~live => alerts = cleared
=============================================================================
