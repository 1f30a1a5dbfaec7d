--------------------------- MODULE TrafficWorker ---------------------------
(***************************************************************************)
(* What the plan executor may rely on of a traffic worker, whatever kind   *)
(* of traffic it makes.  A worker downloads one thing after another and    *)
(* takes measurements while it does; the measurements it owes are reported *)
(* now and then and, all of them, before it is over.  Once it is asked to  *)
(* end, by stop() or by its deadline, it begins no other download.         *)
(*                                                                         *)
(* WebWorker.tla and VideoWorker.tla implement this module.                *)
(***************************************************************************)
EXTENDS Naturals

VARIABLES
    phase,        \* "new", "on" or "over"
    asked,        \* stop() was called or the deadline has passed
    busy,         \* a download is in progress
    owed          \* measurements taken and not reported

workerVars == <<phase, asked, busy, owed>>

WorkerInit == phase = "new" /\ asked = FALSE /\ busy = FALSE /\ owed = 0

\* The task runs for the first time; it may find that it cannot work.
Start ==
    /\ phase = "new"
    /\ phase' \in {"on", "over"}
    /\ UNCHANGED <<asked, busy, owed>>

\* A download begins.
Download ==
    /\ phase \in {"new", "on"} /\ ~busy /\ ~asked
    /\ phase' = "on" /\ busy' = TRUE
    /\ UNCHANGED <<asked, owed>>

\* A download yields a measurement, or ends, or what is owed is reported.
Progress ==
    /\ phase = "on"
    /\ busy' => busy
    /\ \/ owed' \in {owed, 0}
       \/ busy /\ owed' = owed + 1
    /\ UNCHANGED <<phase, asked>>

Finish ==
    /\ phase = "on"
    /\ phase' = "over" /\ busy' = FALSE /\ owed' = 0
    /\ UNCHANGED asked

Ask ==
    /\ asked' = TRUE
    /\ UNCHANGED <<phase, busy, owed>>

WorkerNext == Start \/ Download \/ Progress \/ Finish \/ Ask

WorkerSpec == WorkerInit /\ [][WorkerNext]_workerVars
=============================================================================
