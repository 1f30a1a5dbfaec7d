--------------------------- MODULE TelemetryProofs --------------------------
(***************************************************************************)
(* Theorems about Telemetry, for any set of streams, window and cap and    *)
(* any number of readings.                                                 *)
(***************************************************************************)
EXTENDS Telemetry, TLAPS

USE TelemetryAssumption

-----------------------------------------------------------------------------
(* Type correctness *)

LEMMA TypeInit == Init => TypeOK
BY DEF Init, TypeOK

\* Trimming a list of positions returns a list of the same positions.
LEMMA TrimmedType ==
    ASSUME NEW n \in Nat, NEW s \in Seq(1 .. n)
    PROVE  Trimmed(s) \in Seq(1 .. n)
<1>1. CASE Len(s) >= Cap
  <2>1. Cap \div 2 \in 0 .. Cap
    OBVIOUS
  <2>2. /\ Len(s) - Cap \div 2 + 1 \in 1 .. Len(s) + 1
        /\ Len(s) \in Nat
    BY <1>1, <2>1
  <2>. QED  BY <1>1, <2>2 DEF Trimmed
<1>2. CASE ~(Len(s) >= Cap)
  BY <1>2 DEF Trimmed
<1>. QED  BY <1>1, <1>2

LEMMA TypeStep == TypeOK /\ [Next]_vars => TypeOK'
<1> SUFFICES ASSUME TypeOK, [Next]_vars PROVE TypeOK'
  OBVIOUS
<1> USE DEF TypeOK
<1>1. ASSUME NEW k \in Streams, NEW mos \in Mos, AddSnapshot(k, mos) PROVE TypeOK'
  <2> DEFINE r == [stream |-> k, mos |-> mos, time |-> now]
  <2>1. log' \in Seq(Reading) /\ Len(log') = Len(log) + 1 /\ Len(log) \in Nat
    <3>1. r \in Reading
      BY DEF Reading
    <3>. QED  BY <1>1, <3>1 DEF AddSnapshot
  <2>2. snapshots' \in Seq(1 .. Len(log'))
    <3>1. snapshots \in Seq(1 .. Len(log'))
      BY <2>1
    <3>2. Trimmed(snapshots) \in Seq(1 .. Len(log'))
      BY <2>1, <3>1, TrimmedType
    <3>3. Len(log) + 1 \in 1 .. Len(log')
      BY <2>1
    <3>. QED  BY <1>1, <3>2, <3>3 DEF AddSnapshot
  <2>3. /\ Len(log) + 1 \in 1 .. Len(log')
        /\ \A a \in alerts : a \in 1 .. Len(log')
    BY <2>1
  <2>4. /\ below' \in [Streams -> (0 .. MaxTime) \cup {NotBelow}]
        /\ fired' \in SUBSET Streams
        /\ alerts' \in SUBSET (1 .. Len(log'))
        /\ cleared' \in SUBSET alerts'
    <3>1. CASE mos = "none"
      <4>1. UNCHANGED alertVars
        BY <1>1, <3>1 DEF AddSnapshot, CheckAlert
      <4>. QED  BY <2>3, <4>1 DEF alertVars
    <3>2. CASE mos = "low"
      <4>1. Dip(k, Len(log) + 1)
        BY <1>1, <3>2 DEF AddSnapshot, CheckAlert
      <4>. QED  BY <2>3, <4>1 DEF Dip
    <3>3. CASE mos = "good"
      <4>1. Recover(k)
        BY <1>1, <3>3 DEF AddSnapshot, CheckAlert
      <4>2. LatestActive(k) \subseteq alerts
        BY DEF LatestActive, ActiveAlerts
      <4>3. below' \in [Streams -> (0 .. MaxTime) \cup {NotBelow}]
        BY <4>1 DEF Recover
      <4>. QED  BY <2>3, <4>1, <4>2, <4>3 DEF Recover
    <3>. QED  BY <3>1, <3>2, <3>3 DEF Mos
  <2>5. now' \in 0 .. MaxTime /\ live' \in BOOLEAN
    BY <1>1 DEF AddSnapshot
  <2>. QED  BY <2>1, <2>2, <2>4, <2>5
<1>2. CASE EndSession
  BY <1>2 DEF EndSession, NotBelow
<1>3. CASE Tick
  BY <1>3 DEF Tick, alertVars
<1>4. CASE UNCHANGED vars
  BY <1>4 DEF vars
<1>. QED  BY <1>1, <1>2, <1>3, <1>4 DEF Next

\* Every behaviour is well typed; in particular the kept snapshots and the
\* alerts always refer to readings that were added.
THEOREM TypeCorrect == Spec => []TypeOK
BY TypeInit, TypeStep, PTL DEF Spec

-----------------------------------------------------------------------------
(* One active alert per stream *)

LEMMA AlertStep == TypeOK /\ OneActiveAlert /\ [Next]_vars => OneActiveAlert'
<1> SUFFICES ASSUME TypeOK, OneActiveAlert, [Next]_vars, live',
                    NEW k \in Streams
             PROVE  /\ k \in fired' <=> ActiveAlerts(k)' # {}
                    /\ \A a, b \in ActiveAlerts(k)' : a = b
  BY DEF OneActiveAlert
<1> USE DEF TypeOK
<1>live. live
  BY DEF Next, AddSnapshot, EndSession, Tick, vars
<1>old. /\ k \in fired <=> ActiveAlerts(k) # {}
        /\ \A a, b \in ActiveAlerts(k) : a = b
  BY <1>live DEF OneActiveAlert
<1>1. ASSUME NEW j \in Streams, NEW mos \in Mos, AddSnapshot(j, mos)
      PROVE  /\ k \in fired' <=> ActiveAlerts(k)' # {}
             /\ \A a, b \in ActiveAlerts(k)' : a = b
  <2> DEFINE id == Len(log) + 1
  <2>id. id \notin alerts /\ Len(log) \in Nat
    OBVIOUS
  \* The readings the alerts refer to are those of before.
  <2>log. /\ \A a \in alerts : log'[a] = log[a]
          /\ log'[id].stream = j
    BY <1>1, <2>id DEF AddSnapshot
  <2>1. CASE mos = "none"
    BY <1>1, <1>old, <2>log, <2>1 DEF AddSnapshot, CheckAlert, alertVars, ActiveAlerts
  <2>2. CASE mos = "low" /\ ~Due(j)
    <3>1. fired' = fired /\ alerts' = alerts /\ cleared' = cleared
      BY <1>1, <2>2 DEF AddSnapshot, CheckAlert, Dip
    <3>2. ActiveAlerts(k)' = ActiveAlerts(k)
      BY <2>log, <3>1 DEF ActiveAlerts
    <3>. QED  BY <1>old, <3>1, <3>2
  <2>3. CASE mos = "low" /\ Due(j)
    <3>1. /\ fired' = fired \cup {j} /\ alerts' = alerts \cup {id}
          /\ cleared' = cleared
      BY <1>1, <2>3 DEF AddSnapshot, CheckAlert, Dip
    <3>2. ActiveAlerts(k)' = IF j = k THEN ActiveAlerts(k) \cup {id} ELSE ActiveAlerts(k)
      BY <2>id, <2>log, <3>1 DEF ActiveAlerts
    <3>3. j = k => ActiveAlerts(k) = {}
      BY <1>old, <2>3 DEF Due
    <3>. QED  BY <1>old, <3>1, <3>2, <3>3
  <2>4. CASE mos = "good"
    <3>1. /\ fired' = fired \ {j} /\ alerts' = alerts
          /\ cleared' = IF j \in fired THEN cleared \cup LatestActive(j) ELSE cleared
      BY <1>1, <2>4 DEF AddSnapshot, CheckAlert, Recover
    <3>2. CASE j = k
      \* The only active alert of the stream is its latest.
      <4>1. LatestActive(k) = ActiveAlerts(k)
        <5>1. \A a \in ActiveAlerts(k) : a \in Nat
          BY DEF ActiveAlerts
        <5>2. \A a, b \in ActiveAlerts(k) : b <= a
          BY <1>old, <5>1
        <5>. QED  BY <5>2 DEF LatestActive
      <4>2. ActiveAlerts(k)' = {}
        BY <1>old, <2>log, <3>1, <3>2, <4>1 DEF ActiveAlerts
      <4>. QED  BY <3>1, <3>2, <4>2
    <3>3. CASE j # k
      <4>1. \A a \in LatestActive(j) : a \notin ActiveAlerts(k)
        BY <3>3 DEF LatestActive, ActiveAlerts
      <4>2. ActiveAlerts(k)' = ActiveAlerts(k)
        BY <2>log, <3>1, <4>1 DEF ActiveAlerts
      <4>. QED  BY <1>old, <3>1, <3>3, <4>2
    <3>. QED  BY <3>2, <3>3
  <2>. QED  BY <2>1, <2>2, <2>3, <2>4 DEF Mos
<1>2. CASE Tick
  BY <1>2, <1>old DEF Tick, alertVars, ActiveAlerts
<1>3. CASE EndSession
  BY <1>3 DEF EndSession
<1>4. CASE UNCHANGED vars
  BY <1>4, <1>old DEF vars, ActiveAlerts
<1>. QED  BY <1>1, <1>2, <1>3, <1>4 DEF Next

\* While the session is active, the fired set and the active alerts agree and
\* no stream has two active alerts.
THEOREM OneAlertPerStream == Spec => []OneActiveAlert
<1>1. Init => OneActiveAlert
  BY DEF Init, OneActiveAlert, ActiveAlerts
<1>. QED  BY <1>1, TypeInit, TypeStep, AlertStep, PTL DEF Spec

-----------------------------------------------------------------------------
(* The newest readings are kept *)

\* What trimming leaves is the tail of the list, and there is room for one more.
LEMMA TrimmedTail ==
    ASSUME NEW n \in Nat, NEW s \in Seq(1 .. n), Len(s) <= Cap
    PROVE  LET t == Trimmed(s)
           IN  /\ Len(t) < Cap
               /\ Len(t) >= IF Len(s) < Cap \div 2 THEN Len(s) ELSE Cap \div 2
               /\ \A i \in 1 .. Len(t) : t[i] = s[Len(s) - Len(t) + i]
<1> DEFINE h == Cap \div 2
<1>1. h \in 1 .. Cap - 1 /\ Len(s) \in Nat
  OBVIOUS
<1>2. CASE Len(s) >= Cap
  <2>1. Trimmed(s) = SubSeq(s, Len(s) - h + 1, Len(s))
    BY <1>2 DEF Trimmed
  <2>2. Len(s) - h + 1 \in 1 .. Len(s) /\ Len(s) \in 1 .. Len(s)
    BY <1>1, <1>2
  <2>3. Len(Trimmed(s)) = h
    BY <1>1, <2>1, <2>2
  <2>4. \A i \in 1 .. h : Trimmed(s)[i] = s[Len(s) - h + i]
    BY <1>1, <2>1, <2>2
  <2>. QED  BY <1>1, <1>2, <2>3, <2>4
<1>3. CASE Len(s) < Cap
  <2>1. Trimmed(s) = s
    BY <1>1, <1>3 DEF Trimmed
  <2>. QED  BY <1>1, <1>3, <2>1
<1>. QED  BY <1>1, <1>2, <1>3

LEMMA NewestStep == TypeOK /\ NewestKept /\ [Next]_vars => NewestKept'
<1> SUFFICES ASSUME TypeOK, NewestKept, [Next]_vars PROVE NewestKept'
  OBVIOUS
<1>1. ASSUME NEW k \in Streams, NEW mos \in Mos, AddSnapshot(k, mos)
      PROVE  NewestKept'
  <2> DEFINE t == Trimmed(snapshots)
             n == Len(log)
             h == Cap \div 2
  <2>1. n \in Nat /\ snapshots \in Seq(1 .. n) /\ Len(snapshots) \in Nat /\ h \in Nat
    BY DEF TypeOK
  <2>2. t \in Seq(1 .. n) /\ Len(t) \in Nat
    BY <2>1, TrimmedType
  <2>3. /\ Len(t) < Cap
        /\ Len(t) >= IF Len(snapshots) < h THEN Len(snapshots) ELSE h
        /\ \A i \in 1 .. Len(t) : t[i] = snapshots[Len(snapshots) - Len(t) + i]
        /\ Len(t) <= Len(snapshots)
    <3>1. Len(snapshots) <= Cap
      BY DEF NewestKept
    <3>2. Len(t) <= Len(snapshots)
      <4>1. CASE Len(snapshots) >= Cap
        BY <2>1, <4>1 DEF Trimmed
      <4>2. CASE ~(Len(snapshots) >= Cap)
        BY <2>1, <4>2 DEF Trimmed
      <4>. QED  BY <4>1, <4>2
    <3>. QED  BY <2>1, <3>1, <3>2, TrimmedTail
  <2>4. /\ Len(log') = n + 1
        /\ snapshots' = Append(t, n + 1)
    BY <1>1 DEF AddSnapshot, TypeOK
  <2>5. /\ Len(snapshots') = Len(t) + 1
        /\ \A i \in 1 .. Len(t) : snapshots'[i] = t[i]
        /\ snapshots'[Len(t) + 1] = n + 1
        /\ DOMAIN snapshots' = 1 .. Len(t) + 1
    BY <2>2, <2>4
  <2>6. \A i \in 1 .. Len(t) : t[i] = n - Len(t) + i
    <3> SUFFICES ASSUME NEW i \in 1 .. Len(t) PROVE t[i] = n - Len(t) + i
      OBVIOUS
    <3>1. Len(snapshots) - Len(t) + i \in 1 .. Len(snapshots)
      BY <2>1, <2>2, <2>3
    <3>2. snapshots[Len(snapshots) - Len(t) + i]
            = n - Len(snapshots) + (Len(snapshots) - Len(t) + i)
      BY <2>1, <3>1 DEF NewestKept
    <3>. QED  BY <2>1, <2>2, <2>3, <3>1, <3>2
  <2>7. \A i \in DOMAIN snapshots' :
           snapshots'[i] = Len(log') - Len(snapshots') + i
    BY <2>1, <2>2, <2>4, <2>5, <2>6
  <2>8. Len(snapshots') >= IF Len(log') < h THEN Len(log') ELSE h
    <3>1. Len(snapshots) >= IF n < h THEN n ELSE h
      BY DEF NewestKept
    <3>. QED  BY <2>1, <2>2, <2>3, <2>4, <2>5, <3>1
  <2>9. Len(snapshots') <= Cap
    BY <2>2, <2>3, <2>5
  <2>. QED  BY <2>7, <2>8, <2>9 DEF NewestKept
<1>2. CASE EndSession
  BY <1>2 DEF EndSession, NewestKept
<1>3. CASE Tick
  BY <1>3 DEF Tick, NewestKept
<1>4. CASE UNCHANGED vars
  BY <1>4 DEF vars, NewestKept
<1>. QED  BY <1>1, <1>2, <1>3, <1>4 DEF Next

\* The session holds an unbroken run of its newest readings, never more than the
\* cap, and at least half the cap of them once it has had as many.
THEOREM NewestReadingsKept == Spec => []NewestKept
<1>1. Init => NewestKept
  BY DEF Init, NewestKept
<1>. QED  BY <1>1, TypeInit, TypeStep, NewestStep, PTL DEF Spec

-----------------------------------------------------------------------------
(* Alerts and dips *)

\* Reading i is a low one of stream k, which has not recovered since.
LowSince(k, i) ==
    log[i].stream = k /\ log[i].mos = "low" /\ NoRecovery(i, Len(log))

\* While the session is active, below[k] is the time of the first reading of the
\* dip that stream k is in.
DipInv ==
    live => \A k \in Streams :
        /\ below[k] <= now
        /\ below[k] # NotBelow =>
             \E i \in 1 .. Len(log) : LowSince(k, i) /\ log[i].time = below[k]
        /\ \A i \in 1 .. Len(log) :
             LowSince(k, i) => below[k] # NotBelow /\ below[k] <= log[i].time

AlertInv ==
    /\ TypeOK /\ OneActiveAlert /\ DipInv
    /\ AlertsAreJustified /\ LongDipsAlert /\ ActiveUntilRecovery

\* Of the past a reading of k that comes after n others changes nothing, except
\* that a good one ends the dip of its stream.
ReadingAdded(k, mos, n) ==
    /\ n \in Nat /\ Len(log') = n + 1
    /\ \A i \in 1 .. n : log'[i] = log[i]
    /\ log'[n + 1].stream = k /\ log'[n + 1].mos = mos /\ log'[n + 1].time = now
    /\ \A i, j \in 1 .. n : NoRecovery(i, j)' <=> NoRecovery(i, j)
    /\ \A i \in 1 .. n : NoRecovery(i, n + 1)' <=>
           NoRecovery(i, n) /\ (log[i].stream = k => mos # "good")
    /\ NoRecovery(n + 1, n + 1)' <=> mos # "good"

LEMMA NewReading ==
  ASSUME TypeOK, NEW k \in Streams, NEW mos \in Mos, AddSnapshot(k, mos),
         NEW n, n = Len(log)
  PROVE  ReadingAdded(k, mos, n)
<1>1. n \in Nat /\ log \in Seq(Reading)
  BY DEF TypeOK
<1>2. /\ Len(log') = n + 1
      /\ \A i \in 1 .. n : log'[i] = log[i]
      /\ log'[n + 1] = [stream |-> k, mos |-> mos, time |-> now]
  BY <1>1 DEF AddSnapshot
<1>3. \A i, j \in 1 .. n : NoRecovery(i, j)' <=> NoRecovery(i, j)
  BY <1>1, <1>2 DEF NoRecovery
<1>4. log'[n + 1].stream = k /\ log'[n + 1].mos = mos /\ log'[n + 1].time = now
  BY <1>2
<1>5. \A i \in 1 .. n : NoRecovery(i, n + 1)' <=>
          NoRecovery(i, n) /\ (log[i].stream = k => mos # "good")
  <2> SUFFICES ASSUME NEW i \in 1 .. n
               PROVE  NoRecovery(i, n + 1)' <=>
                          NoRecovery(i, n) /\ (log[i].stream = k => mos # "good")
    OBVIOUS
  <2>1. \A h : h \in i .. n + 1 <=> h \in i .. n \/ h = n + 1
    BY <1>1
  <2>2. \A h \in i .. n : h \in 1 .. n
    BY <1>1
  <2>3. log'[i].stream = log[i].stream
    BY <1>2
  <2> QED
    BY <1>2, <1>4, <2>1, <2>2, <2>3 DEF NoRecovery
<1>6. NoRecovery(n + 1, n + 1)' <=> mos # "good"
  <2>1. \A h : h \in (n + 1) .. (n + 1) <=> h = n + 1
    BY <1>1
  <2> QED
    BY <1>4, <2>1 DEF NoRecovery
<1> QED
  BY <1>1, <1>2, <1>3, <1>4, <1>5, <1>6 DEF ReadingAdded

LEMMA DipStep == TypeOK /\ DipInv /\ [Next]_vars => DipInv'
<1> SUFFICES ASSUME TypeOK, DipInv, [Next]_vars, live', NEW k \in Streams
             PROVE  /\ below'[k] <= now'
                    /\ below'[k] # NotBelow =>
                         \E i \in 1 .. Len(log') : LowSince(k, i)' /\ log'[i].time = below'[k]
                    /\ \A i \in 1 .. Len(log') :
                         LowSince(k, i)' => below'[k] # NotBelow /\ below'[k] <= log'[i].time
  BY DEF DipInv
<1>0. live
  BY DEF Next, AddSnapshot, EndSession, Tick, vars
<1>1. /\ below[k] <= now
      /\ below[k] # NotBelow =>
           \E i \in 1 .. Len(log) : LowSince(k, i) /\ log[i].time = below[k]
      /\ \A i \in 1 .. Len(log) :
           LowSince(k, i) => below[k] # NotBelow /\ below[k] <= log[i].time
  BY <1>0 DEF DipInv
<1>2. now \in Nat /\ below[k] \in Nat \cup {NotBelow}
  BY DEF TypeOK
<1>3. ASSUME NEW j \in Streams, NEW mos \in Mos, AddSnapshot(j, mos)
      PROVE  /\ below'[k] <= now'
             /\ below'[k] # NotBelow =>
                  \E i \in 1 .. Len(log') : LowSince(k, i)' /\ log'[i].time = below'[k]
             /\ \A i \in 1 .. Len(log') :
                  LowSince(k, i)' => below'[k] # NotBelow /\ below'[k] <= log'[i].time
  <2>1. PICK n : n = Len(log)
    OBVIOUS
  <2>2. ReadingAdded(j, mos, n)
    BY <1>3, <2>1, NewReading
  <2> USE DEF ReadingAdded
  <2>3. \A i \in 1 .. n : LowSince(k, i)' <=> LowSince(k, i) /\ (k = j => mos # "good")
    BY <2>1, <2>2 DEF LowSince
  <2>4. LowSince(k, n + 1)' <=> k = j /\ mos = "low"
    BY <2>2 DEF LowSince
  <2>5. \A i \in 1 .. n + 1 : i \in 1 .. n \/ i = n + 1
    BY <2>2
  <2>6. now' = now /\ (k # j => below'[k] = below[k])
    BY <1>3 DEF AddSnapshot, CheckAlert, alertVars, Dip, Recover, TypeOK
  <2>7. CASE k # j \/ mos = "none"
    <3>1. below'[k] = below[k]
      BY <1>3, <2>6, <2>7 DEF AddSnapshot, CheckAlert, alertVars
    <3> QED
      BY <1>1, <2>1, <2>2, <2>3, <2>4, <2>5, <2>6, <2>7, <3>1
  <2>8. CASE k = j /\ mos = "good"
    <3>1. below'[k] = NotBelow
      BY <1>3, <2>8 DEF AddSnapshot, CheckAlert, Recover, TypeOK
    <3> QED
      BY <1>2, <2>2, <2>3, <2>4, <2>5, <2>6, <2>8, <3>1 DEF NotBelow
  <2>9. CASE k = j /\ mos = "low"
    <3>1. below'[k] = IF below[k] = NotBelow THEN now ELSE below[k]
      BY <1>3, <2>9 DEF AddSnapshot, CheckAlert, Dip, TypeOK
    <3>2. CASE below[k] = NotBelow
      <4>1. \A i \in 1 .. n : ~LowSince(k, i)'
        BY <1>1, <2>1, <2>3, <3>2
      <4> QED
        BY <1>2, <2>2, <2>3, <2>4, <2>5, <2>6, <2>9, <3>1, <3>2, <4>1 DEF NotBelow
    <3>3. CASE below[k] # NotBelow
      BY <1>1, <1>2, <2>1, <2>2, <2>3, <2>4, <2>5, <2>6, <2>9, <3>1, <3>3
    <3> QED
      BY <3>2, <3>3
  <2> QED
    BY <2>7, <2>8, <2>9 DEF Mos
<1>4. CASE Tick
  <2>1. UNCHANGED <<log, below>> /\ now' = now + 1
    BY <1>4 DEF Tick, alertVars
  <2> QED
    BY <1>1, <1>2, <2>1 DEF LowSince, NoRecovery, NotBelow
<1>5. CASE EndSession
  BY <1>5 DEF EndSession
<1>6. CASE UNCHANGED vars
  BY <1>1, <1>6 DEF vars, LowSince, NoRecovery
<1> QED
  BY <1>3, <1>4, <1>5, <1>6 DEF Next

\* An alert is raised at the end of a long dip, and stays so.
LEMMA JustifiedStep ==
  TypeOK /\ DipInv /\ AlertsAreJustified /\ [Next]_vars => AlertsAreJustified'
<1> SUFFICES ASSUME TypeOK, DipInv, AlertsAreJustified, [Next]_vars
             PROVE  AlertsAreJustified'
  OBVIOUS
<1>1. ASSUME NEW k \in Streams, NEW mos \in Mos, AddSnapshot(k, mos)
      PROVE  AlertsAreJustified'
  <2>1. PICK n : n = Len(log)
    OBVIOUS
  <2>2. ReadingAdded(k, mos, n)
    BY <1>1, <2>1, NewReading
  <2> USE DEF ReadingAdded
  <2>3. \A i, j \in 1 .. n : LongDip(i, j)' <=> LongDip(i, j)
    BY <2>2 DEF LongDip
  <2>4. ASSUME NEW a \in alerts PROVE \E i \in 1 .. a : LongDip(i, a)'
    <3>1. a \in 1 .. n
      BY <2>1 DEF TypeOK
    <3>2. PICK i \in 1 .. a : LongDip(i, a)
      BY DEF AlertsAreJustified
    <3> QED
      BY <2>2, <2>3, <3>1, <3>2
  <2>5. ASSUME mos = "low", Due(k) PROVE \E i \in 1 .. n + 1 : LongDip(i, n + 1)'
    <3>1. PICK i \in 1 .. n : LowSince(k, i) /\ log[i].time = below[k]
      BY <1>1, <2>1, <2>5 DEF DipInv, AddSnapshot, Due
    <3>2. LongDip(i, n + 1)'
      BY <2>1, <2>2, <2>5, <3>1 DEF LongDip, LowSince, Due
    <3> QED
      BY <2>2, <3>2
  <2>6. alerts' = alerts \/ (mos = "low" /\ Due(k) /\ alerts' = alerts \cup {n + 1})
    BY <1>1, <2>1 DEF AddSnapshot, CheckAlert, alertVars, Dip, Recover
  <2> QED
    BY <2>4, <2>5, <2>6 DEF AlertsAreJustified
<1>2. CASE EndSession \/ Tick \/ UNCHANGED vars
  <2>1. UNCHANGED <<log, alerts>>
    BY <1>2 DEF EndSession, Tick, vars, alertVars
  <2> QED
    BY <2>1 DEF AlertsAreJustified, LongDip, NoRecovery
<1> QED
  BY <1>1, <1>2 DEF Next

\* A dip that has become long finds its alert raised, or raises it.
LEMMA LongDipsStep ==
  TypeOK /\ OneActiveAlert /\ DipInv /\ ActiveUntilRecovery /\ LongDipsAlert /\ [Next]_vars
    => LongDipsAlert'
<1> SUFFICES ASSUME TypeOK, OneActiveAlert, DipInv, ActiveUntilRecovery, LongDipsAlert,
                    [Next]_vars
             PROVE  LongDipsAlert'
  OBVIOUS
<1>1. ASSUME NEW k \in Streams, NEW mos \in Mos, AddSnapshot(k, mos)
      PROVE  LongDipsAlert'
  <2>1. PICK n : n = Len(log)
    OBVIOUS
  <2>2. ReadingAdded(k, mos, n)
    BY <1>1, <2>1, NewReading
  <2> USE DEF ReadingAdded
  <2>3. alerts \subseteq alerts' /\ \A a \in alerts : a \in 1 .. n
    BY <1>1, <2>1 DEF AddSnapshot, CheckAlert, alertVars, Dip, Recover, TypeOK
  <2>4. SUFFICES ASSUME NEW i \in 1 .. n + 1, NEW j \in 1 .. n + 1, LongDip(i, j)'
                 PROVE  \E a \in alerts' : /\ a <= j /\ log'[a].stream = log'[j].stream
                                           /\ NoRecovery(a, j)'
    BY <2>2 DEF LongDipsAlert
  <2>5. i \in 1 .. n
    BY <2>2, <2>4 DEF LongDip
  <2>6. CASE j \in 1 .. n
    <3>1. LongDip(i, j)
      BY <2>2, <2>4, <2>5, <2>6 DEF LongDip
    <3>2. PICK a \in alerts : a <= j /\ log[a].stream = log[j].stream /\ NoRecovery(a, j)
      BY <2>1, <2>5, <2>6, <3>1 DEF LongDipsAlert
    <3> QED
      BY <2>2, <2>3, <2>6, <3>2
  <2>7. CASE j = n + 1
    <3>1. mos = "low" /\ log[i].stream = k /\ log[i].mos = "low"
          /\ now - log[i].time >= Window /\ NoRecovery(i, n)
      BY <2>2, <2>4, <2>5, <2>7 DEF LongDip
    <3>2. live /\ below[k] # NotBelow /\ below[k] <= log[i].time
      BY <1>1, <2>1, <2>5, <3>1 DEF AddSnapshot, DipInv, LowSince
    <3>3. now - below[k] >= Window
      <4>1. log[i].time \in Nat /\ below[k] \in Nat /\ now \in Nat
        <5>1. log \in Seq(Reading) /\ i \in 1 .. Len(log)
          BY <2>1, <2>5 DEF TypeOK
        <5>2. log[i] \in Reading
          BY <5>1
        <5> QED
          BY <3>2, <5>2 DEF TypeOK, Reading
      <4> QED
        BY <3>1, <3>2, <4>1
    <3>4. CASE k \in fired
      <4>1. PICK a \in ActiveAlerts(k) : TRUE
        BY <3>2, <3>4 DEF OneActiveAlert
      <4>2. a \in alerts /\ a \in 1 .. n /\ log[a].stream = k /\ NoRecovery(a, n)
        BY <2>1, <2>3, <3>2, <4>1 DEF ActiveAlerts, ActiveUntilRecovery
      <4> QED
        BY <2>2, <2>3, <2>7, <3>1, <4>2
    <3>5. CASE k \notin fired
      <4>1. Due(k)
        BY <3>2, <3>3, <3>5 DEF Due
      <4>2. n + 1 \in alerts'
        BY <1>1, <2>1, <3>1, <4>1 DEF AddSnapshot, CheckAlert, Dip
      <4> QED
        BY <2>2, <2>7, <3>1, <4>2
    <3> QED
      BY <3>4, <3>5
  <2> QED
    BY <2>2, <2>6, <2>7
<1>2. CASE EndSession \/ Tick \/ UNCHANGED vars
  <2>1. UNCHANGED <<log, alerts>>
    BY <1>2 DEF EndSession, Tick, vars, alertVars
  <2> QED
    BY <2>1 DEF LongDipsAlert, LongDip, NoRecovery
<1> QED
  BY <1>1, <1>2 DEF Next

\* A recovery clears the only active alert of its stream, and nothing else does.
LEMMA ActiveStep ==
  TypeOK /\ OneActiveAlert /\ ActiveUntilRecovery /\ [Next]_vars => ActiveUntilRecovery'
<1> SUFFICES ASSUME TypeOK, OneActiveAlert, ActiveUntilRecovery, [Next]_vars, live'
             PROVE  \A a \in alerts' : a \notin cleared' <=> NoRecovery(a, Len(log))'
  BY DEF ActiveUntilRecovery
<1>0. live
  BY DEF Next, AddSnapshot, EndSession, Tick, vars
<1>1. ASSUME NEW k \in Streams, NEW mos \in Mos, AddSnapshot(k, mos)
      PROVE  \A a \in alerts' : a \notin cleared' <=> NoRecovery(a, Len(log))'
  <2>1. PICK n : n = Len(log)
    OBVIOUS
  <2>2. ReadingAdded(k, mos, n)
    BY <1>1, <2>1, NewReading
  <2> USE DEF ReadingAdded
  <2>3. \A a \in alerts : a \in 1 .. n /\ (a \notin cleared <=> NoRecovery(a, n))
    BY <1>0, <2>1 DEF TypeOK, ActiveUntilRecovery
  <2>4. SUFFICES \A a \in alerts' : a \notin cleared' <=> NoRecovery(a, n + 1)'
    BY <2>2
  <2>5. CASE mos # "good"
    <3>1. cleared' = cleared /\ alerts' \subseteq alerts \cup {n + 1}
      BY <1>1, <2>1, <2>5 DEF AddSnapshot, CheckAlert, alertVars, Dip, Mos
    <3>2. n + 1 \notin cleared
      BY <2>2, <2>3 DEF TypeOK
    <3> QED
      BY <2>2, <2>3, <2>5, <3>1, <3>2
  <2>6. CASE mos = "good"
    <3>1. /\ alerts' = alerts
          /\ cleared' = IF k \in fired THEN cleared \cup LatestActive(k) ELSE cleared
      BY <1>1, <2>6 DEF AddSnapshot, CheckAlert, Recover
    <3>2. \A a, b \in ActiveAlerts(k) : a = b
      BY <1>0 DEF OneActiveAlert
    <3>3. LatestActive(k) = ActiveAlerts(k)
      <4>1. \A a \in ActiveAlerts(k) : a \in Nat
        BY DEF ActiveAlerts, TypeOK
      <4> QED
        BY <3>2, <4>1 DEF LatestActive
    <3>4. k \notin fired => ActiveAlerts(k) = {}
      BY <1>0 DEF OneActiveAlert
    <3>5. \A a \in alerts : a \in cleared' <=> a \in cleared \/ log[a].stream = k
      BY <3>1, <3>3, <3>4 DEF ActiveAlerts
    <3> QED
      BY <2>2, <2>3, <2>6, <3>1, <3>5
  <2> QED
    BY <2>5, <2>6
<1>2. CASE Tick \/ UNCHANGED vars
  <2>1. UNCHANGED <<log, alerts, cleared>>
    BY <1>2 DEF Tick, vars, alertVars
  <2> QED
    BY <1>0, <2>1 DEF ActiveUntilRecovery, NoRecovery
<1>3. CASE EndSession
  BY <1>3 DEF EndSession
<1> QED
  BY <1>1, <1>2, <1>3 DEF Next

LEMMA AlertsInvariant == Spec => []AlertInv
<1>1. Init => AlertInv
  <2> SUFFICES ASSUME Init PROVE AlertInv
    OBVIOUS
  <2>1. TypeOK
    BY TypeInit
  <2>2. OneActiveAlert /\ DipInv
    BY DEF Init, OneActiveAlert, ActiveAlerts, DipInv, NotBelow
  <2>3. AlertsAreJustified /\ LongDipsAlert /\ ActiveUntilRecovery
    BY DEF Init, AlertsAreJustified, LongDipsAlert, ActiveUntilRecovery
  <2> QED
    BY <2>1, <2>2, <2>3 DEF AlertInv
<1>2. AlertInv /\ [Next]_vars => AlertInv'
  BY TypeStep, AlertStep, DipStep, JustifiedStep, LongDipsStep, ActiveStep DEF AlertInv
<1> QED
  BY <1>1, <1>2, PTL DEF Spec

\* An alert means what AlertEvent says: the MOS was below the floor for at least
\* the window, without recovering, when it was raised.
THEOREM AlertsMeanLongDips == Spec => []AlertsAreJustified
BY AlertsInvariant, PTL DEF AlertInv

\* Every dip that lasts as long as the window raises an alert before it ends.
THEOREM LongDipsRaiseAlerts == Spec => []LongDipsAlert
BY AlertsInvariant, PTL DEF AlertInv

\* An alert is active exactly until its stream recovers.
THEOREM AlertsLastUntilRecovery == Spec => []ActiveUntilRecovery
BY AlertsInvariant, PTL DEF AlertInv
=============================================================================
