----------------------------- MODULE MCOSAlarm -----------------------------
(* Small instances of the alarms for TLC. *)
EXTENDS OSAlarm

CONSTANTS a1, a2, a3

\* The fields of an alarm that is not set are written before they are read.
AlarmView ==
    LET field(a) == [next   |-> AlarmQueue.next[a],
                     prev   |-> AlarmQueue.prev[a],
                     end    |-> end[a],
                     period |-> period[a],
                     start  |-> IF period[a] > 0 THEN start[a] ELSE NULL]
    IN  <<AlarmQueue.head, AlarmQueue.tail, [a \in handler |-> field(a)],
          now, timer, running, final>>
=============================================================================
