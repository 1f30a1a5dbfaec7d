------------------------- MODULE PlanWorkersProofs -------------------------
(***************************************************************************)
(* What holds of the video worker for any number of readings, of the web   *)
(* worker however many pages fit into a window, each alone, and of both    *)
(* under the executor that cancels them.                                   *)
(***************************************************************************)
EXTENDS PlanWorkers, TLAPS

-----------------------------------------------------------------------------
(* The video worker *)

\* A process runs, and is read, only where the worker looks after it.
Watched ==
    /\ NoOrphan
    /\ reader => pc = "wait"
    /\ pc = "wait" /\ ~reader => proc # "running"

\* A worker that has ended, or not begun, has nothing left to report.
Flushed ==
    /\ win + reported = parsed
    /\ pc \in {"created", "ended"} => win = 0

IInv == TypeOK /\ Watched /\ Flushed

\* The invariant holds at the start.
LEMMA InitInvariant == ASSUME Init PROVE IInv
<1>1. TypeOK
  <2>1. 0 \in 0 .. MaxReadings
    BY VideoAssumption
  <2> QED
    BY <2>1, Zenon DEF Init, TypeOK
<1>2. Watched
  BY DEF Init, Watched, NoOrphan
<1>3. Flushed
  BY DEF Init, Flushed
<1> QED
  BY <1>1, <1>2, <1>3 DEF IInv

\* Steps that count no reading leave the sum alone, and end only when flushed.
LEMMA FlushedStable ==
  ASSUME IInv, UNCHANGED readings,
         pc' \in {"created", "ended"} => pc \in {"created", "ended"}
  PROVE  Flushed'
  BY DEF IInv, Flushed, readings

\* Every step of the worker's task keeps the invariant.
LEMMA WorkInvariant == ASSUME IInv, Work PROVE IInv'
<1> USE DEF IInv, control, readings
<1>1. CASE Begin
  BY <1>1, FlushedStable DEF Begin, Loop, TypeOK, Watched, NoOrphan, Await
<1>2. CASE Spawn
  <2>1. TypeOK'
    BY <1>2 DEF Spawn, AfterRun, Loop, TypeOK, Await
  <2>2. Watched'
    BY <1>2 DEF Spawn, AfterRun, Loop, TypeOK, Watched, NoOrphan
  <2>3. Flushed'
    BY <1>2, FlushedStable DEF Spawn, AfterRun, Loop
  <2> QED
    BY <2>1, <2>2, <2>3
<1>3. CASE Woken
  BY <1>3, FlushedStable DEF Woken, Loop, TypeOK, Watched, NoOrphan, Await
<1>4. CASE Reap
  BY <1>4, FlushedStable DEF Reap, AfterKill, AfterRun, Loop,
              TypeOK, Watched, NoOrphan, Await
<1>5. CASE Killed
  BY <1>5, FlushedStable DEF Killed, AfterRun, Loop, TypeOK, Watched, NoOrphan, Await
<1>6. CASE PauseOver
  BY <1>6, FlushedStable DEF PauseOver, Loop, TypeOK, Watched, NoOrphan, Await
<1>7. CASE Close
  <2>1. TypeOK'
    <3>1. parsed' \in 0 .. MaxReadings /\ win' \in 0 .. MaxReadings
          /\ reported' \in 0 .. MaxReadings
      BY <1>7, VideoAssumption DEF Close, Flushed, TypeOK
    <3> QED
      BY <1>7, <3>1 DEF Close, TypeOK, Await
  <2>2. Watched'
    BY <1>7 DEF Close, Flushed, TypeOK, Watched, NoOrphan
  <2>3. Flushed'
    BY <1>7 DEF Close, Flushed, TypeOK
  <2> QED
    BY <2>1, <2>2, <2>3
<1> QED
  BY <1>1, <1>2, <1>3, <1>4, <1>5, <1>6, <1>7 DEF Work

\* And so does everything that happens around it.
LEMMA OthersInvariant == ASSUME IInv, Beside \/ Cancel PROVE IInv'
<1> USE DEF IInv, control, readings
<1>1. CASE ProcExit
  BY <1>1, FlushedStable DEF ProcExit, TypeOK, Watched, NoOrphan, Await
<1>2. CASE Parse
  BY <1>2, VideoAssumption DEF Parse, Flushed, TypeOK, Watched, NoOrphan, Await
<1>3. CASE ReadDone
  BY <1>3, FlushedStable DEF ReadDone, TypeOK, Watched, NoOrphan, Await
<1>4. CASE Emit
  <2>1. TypeOK'
    <3>1. parsed' \in 0 .. MaxReadings /\ win' \in 0 .. MaxReadings
          /\ reported' \in 0 .. MaxReadings
      BY <1>4, VideoAssumption DEF Emit, Flushed, TypeOK
    <3> QED
      BY <1>4, <3>1 DEF Emit, TypeOK, Await
  <2>2. Watched'
    BY <1>4 DEF Emit, Flushed, TypeOK, Watched, NoOrphan
  <2>3. Flushed'
    BY <1>4 DEF Emit, Flushed, TypeOK
  <2> QED
    BY <2>1, <2>2, <2>3
<1>5. CASE Expire
  <2>1. TypeOK'
    BY <1>5 DEF Expire, TypeOK, Await
  <2>2. Watched'
    BY <1>5 DEF Expire, TypeOK, Watched, NoOrphan
  <2>3. Flushed'
    BY <1>5, FlushedStable DEF Expire
  <2> QED
    BY <2>1, <2>2, <2>3
<1>6. CASE Stop
  <2>1. TypeOK'
    BY <1>6 DEF Stop, AfterKill, TypeOK, Await
  <2>2. Watched'
    BY <1>6 DEF Stop, AfterKill, TypeOK, Watched, NoOrphan
  <2>3. Flushed'
    BY <1>6, FlushedStable DEF Stop
  <2> QED
    BY <2>1, <2>2, <2>3
<1>7. CASE Cancel
  BY <1>7, FlushedStable DEF Cancel, AfterKill, AfterCancel,
              TypeOK, Watched, NoOrphan, Await
<1> QED
  BY <1>1, <1>2, <1>3, <1>4, <1>5, <1>6, <1>7 DEF Beside

\* The invariant holds in every state.
LEMMA Invariant == Spec => []IInv
<1>1. IInv /\ UNCHANGED vars => IInv'
  BY DEF IInv, vars, control, readings, TypeOK, Watched, NoOrphan, Flushed, Await
<1>2. IInv /\ [Next]_vars => IInv'
  BY <1>1, WorkInvariant, OthersInvariant DEF Next
<1> QED
  BY <1>2, InitInvariant, PTL DEF Spec

\* The state of the worker is always of its type.
THEOREM TypeCorrect == Spec => []TypeOK
<1>1. IInv => TypeOK
  BY DEF IInv
<1> QED
  BY <1>1, Invariant, PTL

\* However a download ends, and wherever the task is stopped or cancelled, no
\* yt-dlp process runs without a worker that watches it.
THEOREM NoProcessLeft == Spec => []NoOrphan
<1>1. IInv => NoOrphan
  BY DEF IInv, Watched
<1> QED
  BY <1>1, Invariant, PTL

\* Every reading is in exactly one snapshot when the worker ends.
THEOREM EveryReadingReported == Spec => []ReadingsReported
<1>1. IInv => ReadingsReported
  BY DEF IInv, TypeOK, Flushed, ReadingsReported
<1> QED
  BY <1>1, Invariant, PTL

\* A worker that was stopped, or whose time is over, starts no other download.
THEOREM NoDownloadAfterEnd == Spec => NoLateDownload
<1> USE DEF control, readings
<1>1. ASSUME stopSet \/ expired, [Next]_vars, pc # "spawn", pc' = "spawn"
      PROVE FALSE
  <2>1. CASE Work
    BY <1>1, <2>1 DEF Work, Begin, Spawn, Woken, Reap, Killed, PauseOver, Close,
                      AfterRun, Loop
  <2>2. CASE Beside \/ Cancel
    BY <1>1, <2>2 DEF Beside, ProcExit, Parse, ReadDone, Emit, Expire, Stop,
                      Cancel, AfterCancel
  <2> QED
    BY <1>1, <2>1, <2>2 DEF Next, vars
<1>2. [Next]_vars => [stopSet \/ expired => (pc' = "spawn" => pc = "spawn")]_vars
  BY <1>1
<1> QED
  BY <1>2, PTL DEF Spec, NoLateDownload

\* Every step of the worker is one a traffic worker may take, or none.
LEMMA VideoStepMaps ==
  ASSUME IInv, [Next]_vars PROVE [Abstract!WorkerNext]_(Abstract!workerVars)
<1> USE DEF control, readings, Downloading
<1> USE DEF IInv, Abstract!WorkerNext, Abstract!workerVars
<1>1. CASE Begin
  BY <1>1 DEF Begin, Loop, Abstract!Start, Abstract!Download, Flushed
<1>2. CASE Spawn
  BY <1>2 DEF Spawn, AfterRun, Loop, Abstract!Progress
<1>3. CASE Woken
  BY <1>3 DEF Woken, Loop, Abstract!Progress
<1>4. CASE Reap
  BY <1>4 DEF Reap, AfterRun, Loop, Abstract!Progress
<1>5. CASE Killed
  BY <1>5 DEF Killed, AfterRun, Loop, Abstract!Progress
<1>6. CASE PauseOver
  BY <1>6 DEF PauseOver, Loop, Abstract!Download, Abstract!Progress
<1>7. CASE Close
  BY <1>7 DEF Close, Abstract!Finish, Flushed, TypeOK
<1>8. CASE Parse
  BY <1>8 DEF Parse, Abstract!Progress, Watched, TypeOK
<1>9. CASE Emit
  BY <1>9 DEF Emit, Abstract!Progress, Await, Flushed, TypeOK
<1>10. CASE ProcExit \/ ReadDone \/ Stop \/ Expire
  BY <1>10 DEF ProcExit, ReadDone, Stop, Expire, Abstract!Ask
<1>11. CASE Cancel
  BY <1>11 DEF Cancel, AfterCancel, Abstract!Start, Abstract!Progress, Flushed, TypeOK
<1>12. CASE UNCHANGED vars
  BY <1>12 DEF vars
<1> QED
  BY <1>1, <1>2, <1>3, <1>4, <1>5, <1>6, <1>7, <1>8, <1>9, <1>10, <1>11, <1>12
     DEF Next, Work, Beside

LEMMA VideoInitMaps == Init => Abstract!WorkerInit
  BY DEF Init, Abstract!WorkerInit, Downloading

\* Any other traffic worker could do what this one does: nothing begins after the
\* end was asked for, and nothing that was measured is left unreported.
THEOREM VideoImplementsTrafficWorker == Spec => ImplementsTrafficWorker
  BY VideoInitMaps, VideoStepMaps, Invariant, PTL
     DEF Spec, ImplementsTrafficWorker, Abstract!WorkerSpec

-----------------------------------------------------------------------------
(* The web worker *)

\* The window holds exactly the pages that are in no snapshot yet, and is empty
\* before the worker begins and when it has ended.
WebKept ==
    /\ webWin = webOwed
    /\ webPc \in {"created", "ended"} => webWin = 0

WebInv == Web!TypeOK /\ WebKept

\* The invariant holds at the start.
LEMMA WebInitInvariant == ASSUME Web!Init PROVE WebInv
<1>1. Web!TypeOK
  BY DEF Web!Init, Web!TypeOK
<1>2. WebKept
  BY DEF Web!Init, WebKept
<1> QED
  BY <1>1, <1>2 DEF WebInv

\* What a fetch adds to the window it adds to what is owed; a report clears both.
LEMMA WebGoOnInvariant ==
  ASSUME WebInv, UNCHANGED Web!control,
         NEW k \in Nat, Web!GoOn(k, k)
  PROVE  WebInv'
<1>1. webWin' \in Nat /\ webWin' = webOwed'
  BY DEF Web!GoOn
<1>2. webPc' = "pause" /\ webFetched' = FALSE
  BY DEF Web!GoOn
<1>3. Web!TypeOK'
  BY <1>1, <1>2 DEF WebInv, Web!TypeOK, Web!control
<1>4. WebKept'
  BY <1>1, <1>2 DEF WebKept
<1> QED
  BY <1>3, <1>4 DEF WebInv

\* Every step keeps the invariant.
LEMMA WebNextInvariant == ASSUME WebInv, [Web!Next]_(Web!vars) PROVE WebInv'
<1> USE DEF WebInv, Web!pages
<1>1. CASE Web!Begin
  <2>1. Web!TypeOK'
    BY <1>1 DEF Web!Begin, Web!Loop, Web!TypeOK, Web!control
  <2>2. WebKept'
    BY <1>1 DEF Web!Begin, Web!Loop, WebKept, Web!TypeOK
  <2> QED
    BY <2>1, <2>2
<1>2. CASE Web!Waited
  <2>1. CASE webFetched
    BY <1>2, <2>1, WebGoOnInvariant DEF Web!Waited, WebKept, Web!TypeOK
  <2>2. CASE ~webFetched
    <3>1. webWin + 1 \in Nat /\ Web!GoOn(webWin + 1, webWin + 1)
      BY <1>2, <2>2 DEF Web!Waited, WebKept, Web!TypeOK
    <3> QED
      BY <1>2, <3>1, WebGoOnInvariant DEF Web!Waited
  <2> QED
    BY <2>1, <2>2
<1>3. CASE Web!PauseOver
  <2>1. Web!TypeOK'
    BY <1>3 DEF Web!PauseOver, Web!Loop, Web!TypeOK, Web!control
  <2>2. WebKept'
    BY <1>3 DEF Web!PauseOver, Web!Loop, WebKept
  <2> QED
    BY <2>1, <2>2
<1>4. CASE Web!Close
  <2>1. webWin' = 0 /\ webOwed' = 0
    BY <1>4 DEF Web!Close, WebKept, Web!TypeOK
  <2>2. Web!TypeOK'
    BY <1>4, <2>1 DEF Web!Close, Web!TypeOK, Web!control
  <2>3. WebKept'
    BY <1>4, <2>1 DEF Web!Close, WebKept
  <2> QED
    BY <2>2, <2>3
<1>5. CASE Web!FetchPage
  <2>1. webWin' = webOwed' /\ webWin' \in Nat
    BY <1>5 DEF Web!FetchPage, WebKept, Web!TypeOK
  <2>2. Web!TypeOK'
    BY <1>5, <2>1 DEF Web!FetchPage, Web!TypeOK, Web!control
  <2>3. WebKept'
    BY <1>5, <2>1 DEF Web!FetchPage, WebKept
  <2> QED
    BY <2>2, <2>3
<1>6. CASE Web!Expire \/ Web!Stop
  <2>1. Web!TypeOK'
    BY <1>6 DEF Web!Expire, Web!Stop, Web!TypeOK
  <2>2. WebKept'
    BY <1>6 DEF Web!Expire, Web!Stop, WebKept
  <2> QED
    BY <2>1, <2>2
<1>7. CASE Web!Cancel
  <2>1. Web!TypeOK'
    BY <1>7 DEF Web!Cancel, Web!AfterCancel, Web!TypeOK
  <2>2. WebKept'
    BY <1>7 DEF Web!Cancel, Web!AfterCancel, WebKept
  <2> QED
    BY <2>1, <2>2
<1>8. CASE UNCHANGED Web!vars
  BY <1>8 DEF Web!vars, Web!control, Web!TypeOK, WebKept
<1> QED
  BY <1>1, <1>2, <1>3, <1>4, <1>5, <1>6, <1>7, <1>8 DEF Web!Next, Web!Work, Web!Beside

\* The invariant holds in every state.
LEMMA WebInvariant == Web!Spec => []WebInv
  BY WebInitInvariant, WebNextInvariant, PTL DEF Web!Spec

\* The state of the worker is always of its type.
THEOREM WebTypeCorrect == Web!Spec => []Web!TypeOK
<1>1. WebInv => Web!TypeOK
  BY DEF WebInv
<1> QED
  BY <1>1, WebInvariant, PTL

\* Every step of the worker is one a traffic worker may take, or none.
LEMMA WebStepMaps ==
  ASSUME WebInv, [Web!Next]_(Web!vars) PROVE [Web!Abstract!WorkerNext]_(Web!Abstract!workerVars)
<1> USE DEF Web!control, Web!pages
<1> USE DEF WebInv, Web!Abstract!WorkerNext, Web!Abstract!workerVars
<1>1. CASE Web!Begin
  BY <1>1 DEF Web!Begin, Web!Loop, Web!Abstract!Start, Web!Abstract!Download
<1>2. CASE Web!Waited
  BY <1>2 DEF Web!Waited, Web!GoOn, WebKept, Web!TypeOK, Web!Abstract!Progress
<1>3. CASE Web!PauseOver
  BY <1>3 DEF Web!PauseOver, Web!Loop, Web!Abstract!Download, Web!Abstract!Progress
<1>4. CASE Web!Close
  BY <1>4 DEF Web!Close, WebKept, Web!TypeOK, Web!Abstract!Finish
<1>5. CASE Web!FetchPage
  BY <1>5 DEF Web!FetchPage, Web!Abstract!Progress
<1>6. CASE Web!Expire \/ Web!Stop
  BY <1>6 DEF Web!Expire, Web!Stop, Web!Abstract!Ask
<1>7. CASE Web!Cancel
  BY <1>7 DEF Web!Cancel, Web!AfterCancel, Web!Abstract!Start, Web!Abstract!Progress
<1>8. CASE UNCHANGED Web!vars
  BY <1>8 DEF Web!vars
<1> QED
  BY <1>1, <1>2, <1>3, <1>4, <1>5, <1>6, <1>7, <1>8 DEF Web!Next, Web!Work, Web!Beside

LEMMA WebInitMaps == Web!Init => Web!Abstract!WorkerInit
  BY DEF Web!Init, Web!Abstract!WorkerInit

\* Any other traffic worker could do what this one does: no page is begun after
\* the end was asked for, and every page whose fetch has ended is reported once,
\* however the worker ends.
THEOREM WebIsTrafficWorker == Web!Spec => WebImplementsTrafficWorker
  BY WebInitMaps, WebStepMaps, WebInvariant, PTL
     DEF Web!Spec, WebImplementsTrafficWorker, Web!ImplementsTrafficWorker, Web!Abstract!WorkerSpec

-----------------------------------------------------------------------------
(* Both workers under the executor *)

\* A step of the plan is a step of either worker or leaves it alone.
LEMMA PlanStepOfVideo == ASSUME [PlanNext]_planVars PROVE [Next]_vars
<1> USE DEF Next
<1>1. CASE VideoWork
  BY <1>1 DEF VideoWork
<1>2. CASE Beside
  BY <1>2
<1>3. CASE WebWork \/ (Web!Beside /\ UNCHANGED <<vars, execVars>>)
  BY <1>3 DEF WebWork
<1>4. CASE StopPlan \/ Watchdog
  BY <1>4 DEF StopPlan, Watchdog
<1>5. CASE Execute
  BY <1>5 DEF Execute, CancelTasks, Gathered
<1>6. CASE UNCHANGED planVars
  BY <1>6 DEF planVars
<1> QED
  BY <1>1, <1>2, <1>3, <1>4, <1>5, <1>6 DEF PlanNext

LEMMA PlanStepOfWeb == ASSUME [PlanNext]_planVars PROVE [Web!Next]_(Web!vars)
<1> USE DEF Web!Next
<1>1. UNCHANGED <<timed, webVars>> => UNCHANGED Web!vars
  BY DEF webVars, Web!vars, Web!control, Web!pages
<1>2. [Next]_vars => UNCHANGED timed
  BY DEF Next, Work, Begin, Spawn, Woken, Reap, Killed, PauseOver, Close, Beside, ProcExit,
         Parse, ReadDone, Emit, Expire, Stop, Cancel, vars, control
<1>3. UNCHANGED timed
  BY <1>2, PlanStepOfVideo
<1>4. CASE VideoWork \/ (Beside /\ UNCHANGED <<webVars, execVars>>)
  BY <1>1, <1>3, <1>4 DEF VideoWork
<1>5. CASE WebWork
  BY <1>5 DEF WebWork
<1>6. CASE Web!Beside
  BY <1>6
<1>7. CASE StopPlan \/ Watchdog
  BY <1>1, <1>3, <1>7 DEF StopPlan, Watchdog
<1>8. CASE Execute
  BY <1>1, <1>3, <1>8 DEF Execute, CancelTasks, Gathered
<1>9. CASE UNCHANGED planVars
  BY <1>1, <1>3, <1>9 DEF planVars
<1> QED
  BY <1>4, <1>5, <1>6, <1>7, <1>8, <1>9 DEF PlanNext

\* A worker that has ended does not begin again.
LEMMA EndedForGood ==
  ASSUME [PlanNext]_planVars
  PROVE  /\ pc = "ended" => pc' = "ended"
         /\ webPc = "ended" => webPc' = "ended"
<1>1. [Next]_vars => (pc = "ended" => pc' = "ended")
  BY DEF Next, Work, Begin, Spawn, Woken, Reap, Killed, PauseOver, Close, Beside, ProcExit,
         Parse, ReadDone, Emit, Expire, Stop, Cancel, vars
<1>2. [Web!Next]_(Web!vars) => (webPc = "ended" => webPc' = "ended")
  BY DEF Web!Next, Web!Work, Web!Begin, Web!Waited, Web!PauseOver, Web!Close, Web!Beside,
         Web!FetchPage, Web!Expire, Web!Stop, Web!Cancel, Web!vars
<1> QED
  BY <1>1, <1>2, PlanStepOfVideo, PlanStepOfWeb

\* The executor goes on when both workers have ended.
Gone == stage = "clean" => pc = "ended" /\ webPc = "ended"

ExecutorTyped == stage \in {"waiting", "gathering", "clean"} /\ stopEvent \in BOOLEAN

PlanInv == IInv /\ WebInv /\ ExecutorTyped /\ Gone

LEMMA PlanInitInvariant == ASSUME PlanInit PROVE PlanInv
  BY InitInvariant, WebInitInvariant DEF PlanInit, PlanInv, ExecutorTyped, Gone

LEMMA PlanNextInvariant == ASSUME PlanInv, [PlanNext]_planVars PROVE PlanInv'
<1>1. IInv'
  <2>1. IInv /\ UNCHANGED vars => IInv'
    BY DEF IInv, vars, control, readings, TypeOK, Watched, NoOrphan, Flushed, Await
  <2> QED
    BY <2>1, PlanStepOfVideo, WorkInvariant, OthersInvariant DEF PlanInv, Next
<1>2. WebInv'
  BY PlanStepOfWeb, WebNextInvariant DEF PlanInv
<1>3. ExecutorTyped'
  BY DEF PlanInv, ExecutorTyped, PlanNext, planVars, execVars, VideoWork, WebWork, StopPlan,
         Watchdog, Execute, CancelTasks, Gathered
<1>4. Gone'
  <2>1. CASE Gathered
    BY <2>1, EndedForGood DEF Gathered, Gone
  <2>2. CASE ~Gathered
    <3>1. stage' = "clean" => stage = "clean"
      BY <2>2 DEF PlanNext, planVars, execVars, VideoWork, WebWork, StopPlan, Watchdog,
                  Execute, CancelTasks
    <3> QED
      BY <3>1, EndedForGood DEF PlanInv, Gone
  <2> QED
    BY <2>1, <2>2
<1> QED
  BY <1>1, <1>2, <1>3, <1>4 DEF PlanInv

LEMMA PlanInvariant == PlanSpec => []PlanInv
  BY PlanInitInvariant, PlanNextInvariant, PTL DEF PlanSpec

\* The executor and both workers are always of their types.
THEOREM PlanTypeCorrect == PlanSpec => []PlanTypeOK
<1>1. PlanInv => PlanTypeOK
  BY DEF PlanInv, IInv, WebInv, ExecutorTyped, PlanTypeOK
<1> QED
  BY <1>1, PlanInvariant, PTL

\* When the executor goes on to log users off and to remove aliases nothing is
\* left that could use one, and everything that was measured has been reported -
\* wherever in their awaits the cancellations struck the workers.
THEOREM TeardownLeavesNothing == PlanSpec => []NothingLeft
<1>1. PlanInv => NothingLeft
  <2> SUFFICES ASSUME PlanInv, stage = "clean"
               PROVE  /\ pc = "ended" /\ webPc = "ended"
                      /\ proc # "running" /\ ~reader /\ reported = parsed
                      /\ webOwed = 0
    BY DEF NothingLeft
  <2>1. pc = "ended" /\ webPc = "ended"
    BY DEF PlanInv, Gone
  <2>2. proc # "running" /\ ~reader
    BY <2>1 DEF PlanInv, IInv, Watched, NoOrphan
  <2>3. reported = parsed
    BY <2>1 DEF PlanInv, IInv, TypeOK, Flushed
  <2>4. webOwed = 0
    BY <2>1 DEF PlanInv, WebInv, WebKept
  <2> QED
    BY <2>1, <2>2, <2>3, <2>4
<1> QED
  BY <1>1, PlanInvariant, PTL

\* Nor does the executor ever leave a yt-dlp process to itself before that.
THEOREM PlanLeavesNoOrphan == PlanSpec => []NoOrphan
<1>1. PlanInv => NoOrphan
  BY DEF PlanInv, IInv, Watched
<1> QED
  BY <1>1, PlanInvariant, PTL

\* Under the executor both workers are still the traffic workers it counts on.
THEOREM PlanRunsTrafficWorkers ==
  PlanSpec => ImplementsTrafficWorker /\ WebImplementsTrafficWorker
<1>1. PlanInv /\ [PlanNext]_planVars =>
         /\ [Abstract!WorkerNext]_(Abstract!workerVars)
         /\ [Web!Abstract!WorkerNext]_(Web!Abstract!workerVars)
  BY PlanStepOfVideo, PlanStepOfWeb, VideoStepMaps, WebStepMaps DEF PlanInv
<1>2. PlanInit => Abstract!WorkerInit /\ Web!Abstract!WorkerInit
  BY VideoInitMaps, WebInitMaps DEF PlanInit
<1>3. PlanSpec => ImplementsTrafficWorker
  BY <1>1, <1>2, PlanInvariant, PTL
     DEF PlanSpec, ImplementsTrafficWorker, Abstract!WorkerSpec
<1>4. PlanSpec => WebImplementsTrafficWorker
  BY <1>1, <1>2, PlanInvariant, PTL
     DEF PlanSpec, WebImplementsTrafficWorker, Web!ImplementsTrafficWorker, Web!Abstract!WorkerSpec
<1> QED
  BY <1>3, <1>4
=============================================================================
