--------------------------- MODULE MutexService ---------------------------
(***************************************************************************)
(* What OSMutex promises its callers: a recursive lock that the running    *)
(* thread takes, that only its holder gives back, and that passes on from  *)
(* a holder that is gone.  Queues, priorities and retries do not appear;   *)
(* any live thread may run next.                                           *)
(***************************************************************************)
EXTENDS Naturals

CONSTANTS Thread, Mutex, NULL, Main, Depth

VARIABLES holder, count, alive, running

Init ==
    /\ holder = [m \in Mutex |-> NULL]
    /\ count = [m \in Mutex |-> 0]
    /\ alive = {Main} /\ running = Main

Acquire(m) ==
    /\ running \in alive /\ holder[m] \in {NULL, running} /\ count[m] < Depth
    /\ holder' = [holder EXCEPT ![m] = running]
    /\ count' = [count EXCEPT ![m] = @ + 1]
    /\ UNCHANGED alive

Release(m) ==
    /\ running \in alive /\ holder[m] = running
    /\ count' = [count EXCEPT ![m] = @ - 1]
    /\ holder' = [holder EXCEPT ![m] = IF count[m] = 1 THEN NULL ELSE @]
    /\ UNCHANGED alive

\* The mutexes of a thread that is gone become free, whatever their depth.
Abandon(m) ==
    /\ holder[m] \notin alive \cup {NULL}
    /\ holder' = [holder EXCEPT ![m] = NULL]
    /\ count' = [count EXCEPT ![m] = 0]
    /\ UNCHANGED alive

\* A new thread holds nothing.
Start(t) ==
    /\ t \notin alive /\ \A m \in Mutex : holder[m] # t
    /\ alive' = alive \cup {t}
    /\ UNCHANGED <<holder, count>>

End(t) ==
    /\ t \in alive
    /\ alive' = alive \ {t}
    /\ UNCHANGED <<holder, count>>

Switch == UNCHANGED <<holder, count, alive>>

Next ==
    /\ \/ Switch
       \/ \E t \in Thread : Start(t) \/ End(t)
       \/ \E m \in Mutex : Acquire(m) \/ Release(m) \/ Abandon(m)
    /\ running' \in alive' \cup {NULL}

Spec == Init /\ [][Next]_<<holder, count, alive, running>>
=============================================================================
