---------------------------- MODULE StreamStats -----------------------------
(***************************************************************************)
(* agent/workers/udp_receiver.py, class StreamState: how one end of a call *)
(* counts the packets of its stream, and what a snapshot says was lost in  *)
(* the window since the previous one.  Latency and jitter are left out.    *)
(***************************************************************************)
EXTENDS Integers

None == -1

\* count is recv_count_window, start is _window_start_seq.
Counters == [first : Nat \cup {None}, last : Nat \cup {None},
             start : Nat \cup {None}, count : Nat, total : Nat]

Fresh == [first |-> None, last |-> None, start |-> None, count |-> 0, total |-> 0]

\* record_packet.
RecordPacket(st, seq) ==
    [first |-> IF st.first = None THEN seq ELSE st.first,
     start |-> IF st.first = None THEN seq ELSE st.start,
     last  |-> IF seq > st.last THEN seq ELSE st.last,
     count |-> st.count + 1,
     total |-> st.total + 1]

\* snapshot: what was expected and what was lost in the window ...
Expected(st) ==
    IF st.start = None \/ st.last = None THEN 0 ELSE st.last - st.start + 1

Lost(st) == IF st.count < Expected(st) THEN Expected(st) - st.count ELSE 0

\* Mutant: the next window starts with the last packet of this one.
NextWindowOverlaps(st) ==
    [first |-> st.first, last |-> st.last, count |-> 0, total |-> st.total,
     start |-> IF st.last = None THEN 0 ELSE st.last]

\* ... and the start of the next one ("last_seq or 0" plus one).
NextWindow(st) ==
    [first |-> st.first, last |-> st.last, count |-> 0, total |-> st.total,
     start |-> IF st.last = None THEN 1 ELSE st.last + 1]
=============================================================================
