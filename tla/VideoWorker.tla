---------------------------- MODULE VideoWorker ----------------------------
(***************************************************************************)
(* agent/workers/youtube_worker.py, class YoutubeWorker: a task that runs  *)
(* yt-dlp again and again until its time is over, it is stopped, or the    *)
(* executor cancels it; beside it a task that reads the output of yt-dlp   *)
(* and one that reports what was read.                                     *)
(*                                                                         *)
(* pc is the await at which the worker's task is suspended.  A reading is  *)
(* a progress line with a rate above 0.                                    *)
(***************************************************************************)
EXTENDS Naturals

CONSTANT MaxReadings          \* bound: readings

ASSUME VideoAssumption == MaxReadings \in Nat

VARIABLES
    timed,        \* was a duration given?
    expired,      \* has the deadline passed?
    stopSet,      \* _stop_event
    cancelled,    \* has the executor cancelled the task?
    pc,           \* the await, "created" or "ended"
    proc,         \* the latest yt-dlp process: "none", "running" or "gone"
    reader,       \* does read_task still run?
    parsed,       \* readings so far
    win,          \* those in the current window
    reported      \* those in a snapshot

control == <<timed, expired, stopSet, cancelled>>
readings == <<parsed, win, reported>>
vars == <<control, pc, proc, reader, readings>>

Await == {"spawn", "wait", "reap", "kill", "pause", "close"}

TypeOK ==
    /\ timed \in BOOLEAN /\ expired \in BOOLEAN
    /\ stopSet \in BOOLEAN /\ cancelled \in BOOLEAN /\ reader \in BOOLEAN
    /\ pc \in Await \cup {"created", "ended"}
    /\ proc \in {"none", "running", "gone"}
    /\ parsed \in 0 .. MaxReadings
    /\ win \in 0 .. MaxReadings /\ reported \in 0 .. MaxReadings

Init ==
    /\ timed \in BOOLEAN
    /\ expired = FALSE /\ stopSet = FALSE /\ cancelled = FALSE
    /\ pc = "created"
    /\ proc = "none" /\ reader = FALSE
    /\ parsed = 0 /\ win = 0 /\ reported = 0

AfterKill == IF proc = "running" THEN "gone" ELSE proc

-----------------------------------------------------------------------------
(* The worker's task: run() and _run_once() *)

\* The head of the loop: another download, or the finally block of run(), which
\* cancels the snapshot loop and awaits its end.
Loop == pc' = IF stopSet \/ expired THEN "close" ELSE "spawn"

\* After a download: a pause of a second, unless the worker was stopped.
AfterRun == IF stopSet THEN Loop ELSE pc' = "pause"

\* yt-dlp may not be installed at all.
Begin ==
    /\ pc = "created"
    /\ pc' = "ended" \/ Loop
    /\ UNCHANGED <<control, proc, reader, readings>>

\* create_subprocess_exec returns or raises.
Spawn ==
    /\ pc = "spawn"
    /\ \/ pc' = "wait" /\ proc' = "running" /\ reader' = TRUE
       \/ AfterRun /\ UNCHANGED <<proc, reader>>
    /\ UNCHANGED <<control, readings>>

\* Mutant: asyncio.wait has no timeout.
WokenWithoutTimeout ==
    /\ pc = "wait"
    /\ ~reader \/ stopSet
    /\ pc' = "reap"
    /\ reader' = FALSE
    /\ UNCHANGED <<control, proc, readings>>

\* asyncio.wait returns: the output is over, stop() was called, or it timed out.
\* Unless both tasks are done, the others are cancelled and awaited.
Woken ==
    /\ pc = "wait"
    /\ ~reader \/ stopSet \/ expired
    /\ IF ~reader /\ stopSet THEN Loop ELSE pc' = "reap"
    /\ reader' = FALSE
    /\ UNCHANGED <<control, proc, readings>>

\* A process that still runs is killed, and its end awaited for three seconds.
Reap ==
    /\ pc = "reap"
    /\ IF proc = "running" THEN pc' = "kill" ELSE AfterRun
    /\ proc' = AfterKill
    /\ UNCHANGED <<control, reader, readings>>

Killed ==
    /\ pc = "kill"
    /\ AfterRun
    /\ UNCHANGED <<control, proc, reader, readings>>

PauseOver ==
    /\ pc = "pause"
    /\ Loop
    /\ UNCHANGED <<control, proc, reader, readings>>

\* Mutant: the last window is dropped.
CloseWithoutFlush ==
    /\ pc = "close"
    /\ pc' = "ended"
    /\ UNCHANGED <<control, proc, reader, readings>>

\* The rest of the finally block: the last window is reported.
Close ==
    /\ pc = "close"
    /\ pc' = "ended"
    /\ reported' = reported + win /\ win' = 0
    /\ UNCHANGED <<control, proc, reader, parsed>>

-----------------------------------------------------------------------------
(* yt-dlp, the tasks beside the worker, the clock and the executor *)

ProcExit ==
    /\ proc = "running"
    /\ proc' = "gone"
    /\ UNCHANGED <<control, pc, reader, readings>>

\* _read_output and _parse_progress_line; the pipe outlives the process.
Parse ==
    /\ reader
    /\ parsed < MaxReadings
    /\ parsed' = parsed + 1 /\ win' = win + 1
    /\ UNCHANGED <<control, pc, proc, reader, reported>>

ReadDone ==
    /\ reader /\ proc = "gone"
    /\ reader' = FALSE
    /\ UNCHANGED <<control, pc, proc, readings>>

\* _snapshot_loop and _emit_snapshot: a window without readings is not reported.
Emit ==
    /\ pc \in Await \ {"close"} /\ ~stopSet /\ win > 0
    /\ reported' = reported + win /\ win' = 0
    /\ UNCHANGED <<control, pc, proc, reader, parsed>>

Expire ==
    /\ timed /\ ~expired
    /\ expired' = TRUE
    /\ UNCHANGED <<timed, stopSet, cancelled, pc, proc, reader, readings>>

Stop ==
    /\ ~stopSet
    /\ stopSet' = TRUE
    /\ proc' = AfterKill
    /\ UNCHANGED <<timed, expired, cancelled, pc, reader, readings>>

\* Where a CancelledError takes the task.  The loop that awaits the cancelled
\* tasks, and the finally block, swallow it; so does the wait_for of Python 3.11
\* if the killed process has just ended.
AfterCancel(at) ==
    CASE at = "created" -> {"ended"}
      [] at = "kill" -> {"kill", "close"}
      [] at \in {"spawn", "wait", "pause"} -> {"close"}
      [] OTHER -> {at}

\* Mutant: _run_once has no handler for CancelledError.
CancelWithoutKill ==
    /\ pc # "ended" /\ ~cancelled
    /\ cancelled' = TRUE
    /\ pc' \in AfterCancel(pc)
    /\ reader' = (reader /\ pc # "wait")
    /\ UNCHANGED <<timed, expired, stopSet, proc, readings>>

\* PlanExecutor._teardown.  While it waits, _run_once kills yt-dlp and ends the
\* reader; asyncio itself kills a process whose creation is cancelled.
Cancel ==
    /\ pc # "ended" /\ ~cancelled
    /\ cancelled' = TRUE
    /\ pc' \in AfterCancel(pc)
    /\ proc' = IF pc = "wait" THEN AfterKill ELSE proc
    /\ reader' = (reader /\ pc # "wait")
    /\ UNCHANGED <<timed, expired, stopSet, readings>>

-----------------------------------------------------------------------------

Work == Begin \/ Spawn \/ Woken \/ Reap \/ Killed \/ PauseOver \/ Close
Beside == ProcExit \/ Parse \/ ReadDone \/ Emit \/ Expire \/ Stop
Next == Work \/ Beside \/ Cancel

\* Every await of the worker has a timeout, ends when its process is killed, or
\* ends when asyncio has created the process.  A download need not end.
Fairness == WF_vars(Work) /\ WF_vars(Expire)

Spec == Init /\ [][Next]_vars /\ Fairness

-----------------------------------------------------------------------------

\* yt-dlp runs only while the worker watches it: however a download ends, and
\* wherever the worker is cancelled or stopped, no process is left behind.
NoOrphan == proc = "running" => pc \in {"wait", "reap"}

\* Every reading is reported once, in the end: the last window is flushed, also
\* when the worker is cancelled, and no window is reported twice.
ReadingsReported ==
    /\ win + reported = parsed
    /\ pc = "ended" => reported = parsed

\* No download starts after stop() or the deadline, neither from the loop nor
\* from the pause, where both may have come unnoticed.
NoLateDownload == [][stopSet \/ expired => (pc' = "spawn" => pc = "spawn")]_vars

\* The executor may treat the worker as any other: it begins no download when it
\* was stopped or its time is over, measures only while one is in progress, and
\* when it ends every reading is in exactly one snapshot.
Downloading == {"spawn", "wait", "reap", "kill"}
Abstract == INSTANCE TrafficWorker WITH
    phase <- IF pc = "created" THEN "new" ELSE IF pc = "ended" THEN "over" ELSE "on",
    asked <- stopSet \/ expired,
    busy  <- pc \in Downloading,
    owed  <- parsed - reported
ImplementsTrafficWorker == Abstract!WorkerSpec

=============================================================================
