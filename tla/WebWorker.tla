----------------------------- MODULE WebWorker -----------------------------
(***************************************************************************)
(* agent/workers/web_worker.py, class WebWorker: a task that fetches one   *)
(* page after another until its time is over, it is stopped, or the        *)
(* executor cancels it.  A page counts once, loaded or failed, in the      *)
(* window in which its fetch ends; a window is reported when the interval  *)
(* has passed, which is looked at between two pages only.                  *)
(*                                                                         *)
(* pc is the await at which the worker's task is suspended.  wait_for runs *)
(* the fetch as a task of its own, which may be done (fetched) before the  *)
(* worker goes on.                                                         *)
(***************************************************************************)
EXTENDS Naturals

CONSTANT MaxWindow            \* bound: pages in a report interval

VARIABLES
    timed,        \* was a duration given?
    expired,      \* has the deadline passed?
    stopSet,      \* _stop_event
    cancelled,    \* has the executor cancelled the task?
    pc,           \* the await, "created" or "ended"
    fetched,      \* is the task of the current fetch done?
    win,          \* pages in the current window: _win_ok + _win_err
    owed          \* pages whose fetch has ended that are in no snapshot

control == <<timed, expired, stopSet, cancelled>>
pages == <<win, owed>>
vars == <<control, pc, fetched, pages>>

TypeOK ==
    /\ timed \in BOOLEAN /\ expired \in BOOLEAN
    /\ stopSet \in BOOLEAN /\ cancelled \in BOOLEAN /\ fetched \in BOOLEAN
    /\ pc \in {"created", "fetch", "pause", "close", "ended"}
    /\ win \in Nat /\ owed \in Nat

Init ==
    /\ timed \in BOOLEAN
    /\ expired = FALSE /\ stopSet = FALSE /\ cancelled = FALSE
    /\ pc = "created" /\ fetched = FALSE
    /\ win = 0 /\ owed = 0

-----------------------------------------------------------------------------
(* The worker's task: run() and _browse_loop() *)

\* Mutant: the deadline is not looked at between two pages.
LoopWithoutDeadline ==
    /\ pc' = IF stopSet THEN "close" ELSE "fetch"
    /\ fetched' = FALSE

\* The head of the loop: another page, or the session is closed.
Loop ==
    /\ pc' = IF stopSet \/ expired THEN "close" ELSE "fetch"
    /\ fetched' = FALSE

\* aiohttp may not be installed at all.
Begin ==
    /\ pc = "created"
    /\ \/ pc' = "ended" /\ UNCHANGED fetched
       \/ Loop
    /\ UNCHANGED <<control, pages>>

\* After a fetch that leaves w pages in the window and o in no snapshot: the
\* window is reported if the interval is over, and a pause follows.
GoOn(w, o) ==
    /\ pc' = "pause" /\ fetched' = FALSE
    /\ \/ win' = 0 /\ owed' = o - w
       \/ w < MaxWindow /\ win' = w /\ owed' = o

\* Mutant: the fetch has no time limit.
WaitedForEver ==
    /\ pc = "fetch" /\ fetched
    /\ GoOn(win, owed)
    /\ UNCHANGED control

\* wait_for returns, or its limit strikes before the fetch has ended: then the
\* fetch is cancelled and counted as an error here.
Waited ==
    /\ pc = "fetch"
    /\ IF fetched THEN GoOn(win, owed) ELSE GoOn(win + 1, owed + 1)
    /\ UNCHANGED control

\* The pause is over, or stop() ends it.
PauseOver ==
    /\ pc = "pause"
    /\ Loop
    /\ UNCHANGED <<control, pages>>

\* The session is closed and the finally block flushes the last window.
Close ==
    /\ pc = "close"
    /\ pc' = "ended"
    /\ win' = 0 /\ owed' = owed - win
    /\ UNCHANGED <<control, fetched>>

-----------------------------------------------------------------------------
(* The task of the fetch, the clock and the executor *)

\* _fetch_page: the page is loaded, or the request fails by itself.
FetchPage ==
    /\ pc = "fetch" /\ ~fetched
    /\ fetched' = TRUE
    /\ win' = win + 1 /\ owed' = owed + 1
    /\ UNCHANGED <<control, pc>>

Expire ==
    /\ timed /\ ~expired
    /\ expired' = TRUE
    /\ UNCHANGED <<timed, stopSet, cancelled, pc, fetched, pages>>

Stop ==
    /\ ~stopSet
    /\ stopSet' = TRUE
    /\ UNCHANGED <<timed, expired, cancelled, pc, fetched, pages>>

\* Where a CancelledError takes the task.  The wait_for of Python 3.11 returns
\* the result of a fetch that is done and forgets the cancellation; that of 3.12
\* does not.
AfterCancel(at) ==
    CASE at = "created" -> {"ended"}
      [] at = "fetch" /\ fetched -> {"fetch", "close"}
      [] at \in {"fetch", "pause"} -> {"close"}
      [] OTHER -> {at}

\* PlanExecutor._teardown.  A fetch that is not done is cancelled with the
\* worker and counts for nothing.
Cancel ==
    /\ pc # "ended" /\ ~cancelled
    /\ cancelled' = TRUE
    /\ pc' \in AfterCancel(pc)
    /\ UNCHANGED <<timed, expired, stopSet, fetched, pages>>

-----------------------------------------------------------------------------

Work == Begin \/ Waited \/ PauseOver \/ Close
Beside == FetchPage \/ Expire \/ Stop
Next == Work \/ Beside \/ Cancel

\* Every await of the worker has a time limit.
Fairness == WF_vars(Work) /\ WF_vars(Expire)

Spec == Init /\ [][Next]_vars /\ Fairness

-----------------------------------------------------------------------------

\* The executor may treat the worker as any other: it begins no page when it was
\* stopped or its time is over, and when it ends every page whose fetch had
\* ended, also one the time limit ended, is in exactly one snapshot.
Abstract == INSTANCE TrafficWorker WITH
    phase <- IF pc = "created" THEN "new" ELSE IF pc = "ended" THEN "over" ELSE "on",
    asked <- stopSet \/ expired,
    busy  <- pc = "fetch",
    owed  <- owed
ImplementsTrafficWorker == Abstract!WorkerSpec

=============================================================================
