--------------------------- MODULE AlarmService ---------------------------
(***************************************************************************)
(* What the alarms of revolution/OS promise: an alarm expires after its    *)
(* time and never before it, once each time it is set, the earliest one    *)
(* first; a periodic one keeps to its grid and skips the points it missed; *)
(* a cancelled one does not expire.                                        *)
(***************************************************************************)
EXTENDS Integers

CONSTANTS
    Alarm,
    Kept,      \* the alarms that a shutdown does not cancel
    NULL

VARIABLES
    pending,   \* the alarms that are set
    due,       \* when a pending alarm expires
    every,     \* its period, 0 when it expires once
    now,
    running,   \* the alarm whose handler runs, or NULL
    down       \* the system is shut down, and nothing expires any more

Init == pending = {} /\ now = 0 /\ running = NULL /\ down = FALSE

Set(a) ==
    /\ ~down /\ a \notin pending
    /\ pending' = pending \cup {a}
    /\ due'[a] >= now
    /\ UNCHANGED <<now, running, down>>

Cancel(a) == pending' = pending \ {a} /\ UNCHANGED <<now, running, down>>

Expire(a) ==
    /\ ~down /\ running = NULL /\ a \in pending
    /\ due[a] <= now
    /\ \A b \in pending : due[a] <= due[b]
    /\ running' = a
    /\ IF every[a] = 0
       THEN pending' = pending \ {a}
       ELSE /\ UNCHANGED pending
            /\ now < due'[a] /\ due'[a] <= now + every[a]
            /\ (due'[a] - due[a]) % every[a] = 0
    /\ UNCHANGED <<now, down>>

HandlerReturns ==
    running # NULL /\ running' = NULL /\ UNCHANGED <<pending, now, down>>

Shutdown ==
    ~down /\ down' = TRUE /\ pending' = pending \cap Kept
      /\ UNCHANGED <<now, running>>

TimePasses == now' = now + 1 /\ UNCHANGED <<pending, running, down>>

\* Nothing changes the time or the period of an alarm while it is pending.
Undisturbed(a) ==
    a \in pending \cap pending' => due'[a] = due[a] /\ every'[a] = every[a]

Next ==
    \/ \E a \in Alarm : /\ Set(a) \/ Cancel(a)
                        /\ \A b \in Alarm : Undisturbed(b)
    \/ \E a \in Alarm : /\ Expire(a) /\ every'[a] = every[a]
                        /\ \A b \in Alarm \ {a} : Undisturbed(b)
    \/ /\ HandlerReturns \/ Shutdown \/ TimePasses
       /\ \A b \in Alarm : Undisturbed(b)

Spec == Init /\ [][Next]_<<pending, due, every, now, running, down>>
=============================================================================
