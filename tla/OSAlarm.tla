------------------------------ MODULE OSAlarm ------------------------------
(***************************************************************************)
(* revolution/OS/OSAlarm.c: the doubly linked list of the alarms that are  *)
(* set, ordered by the time at which they end, the decrementer that is set *)
(* for the first of them, and the exception handler that takes one alarm   *)
(* off the list, sets a periodic one again and calls the alarm's handler.  *)
(*                                                                         *)
(* Every function disables interrupts, so that it is one step; a handler   *)
(* is several steps of the program's code, in which nothing else but time  *)
(* goes on.                                                                *)
(***************************************************************************)
EXTENDS Integers, FiniteSets, FiniteSetsExt

CONSTANTS
    Alarm,         \* the OSAlarm structures of the program
    DVDAlarm,      \* those for which __DVDTestAlarm holds
    Ticks,         \* the ticks the program passes to OSSetAlarm
    Periods,       \* the periods it passes to OSSetPeriodicAlarm
    MaxDecrement,  \* the largest value of the decrementer (0x7FFFFFFF)
    MaxTime,       \* bound: the program sets alarms before this time
    NULL

ASSUME AlarmAssumption ==
    /\ IsFiniteSet(Alarm) /\ DVDAlarm \subseteq Alarm
    /\ NULL \notin Alarm /\ NULL \notin Int
    /\ Ticks \subseteq Nat /\ Periods \subseteq Nat \ {0}
    /\ MaxDecrement \in Nat /\ MaxTime \in Nat

VARIABLES
    AlarmQueue,    \* head and tail, and the links of the OSAlarm structures
    handler,       \* the alarms whose handler is not NULL
    end, period, start,
    now,           \* __OSGetSystemTime
    timer,         \* when the decrementer raises its exception, or NULL
    running,       \* the alarm whose handler runs, or NULL
    final          \* OnReset(TRUE) was called: interrupts stay disabled

alarmVars == <<handler, end, period, start>>
vars == <<AlarmQueue, alarmVars, now, timer, running, final>>

-----------------------------------------------------------------------------
(* The decrementer counts down with the time base and raises its exception  *)
(* when it passes zero.                                                      *)

SetTimer(time) ==
    LET timeLeft == time - now
    IN  now + 1 + (IF timeLeft < 0 THEN 0
                   ELSE IF timeLeft <= MaxDecrement THEN timeLeft
                   ELSE MaxDecrement)

\* Mutant: the exception handler leaves the decrementer alone.
TimerForNone(queue, at) == NULL

\* What the exception handler sets the decrementer to, if there is an alarm.
TimerForHead(queue, at) ==
    IF queue.head = NULL THEN NULL ELSE SetTimer(at[queue.head])

-----------------------------------------------------------------------------
(* The list. *)

Node(queue, i) ==
    LET node[j \in 0 .. i] ==
          IF j = 0 THEN queue.head
          ELSE IF node[j - 1] = NULL THEN NULL ELSE queue.next[node[j - 1]]
    IN  node[i]

\* Where the loop of InsertAlarm stops: at the first alarm that ends later.
FirstAfter(queue, time) ==
    LET stop(i) == Node(queue, i) # NULL => end[Node(queue, i)] > time
    IN  Node(queue, Min({i \in 0 .. Cardinality(Alarm) : stop(i)}))

\* Links a in front of iter, or at the end of the list.
LinkBefore(queue, a, iter) ==
    LET prev == IF iter = NULL THEN queue.tail ELSE queue.prev[iter]
        linked == [queue EXCEPT !.next[a] = iter, !.prev[a] = prev]
        before == IF iter = NULL THEN [linked EXCEPT !.tail = a]
                                 ELSE [linked EXCEPT !.prev[iter] = a]
    IN  IF prev = NULL THEN [before EXCEPT !.head = a]
                       ELSE [before EXCEPT !.next[prev] = a]

Insert(queue, a, time) == LinkBefore(queue, a, FirstAfter(queue, time))

\* Mutant: tail is left alone.
UnlinkKeepsTail(queue, a) ==
    LET next == queue.next[a]
        prev == queue.prev[a]
        right == IF next = NULL THEN queue
                                ELSE [queue EXCEPT !.prev[next] = prev]
    IN  IF prev = NULL THEN [right EXCEPT !.head = next]
                       ELSE [right EXCEPT !.next[prev] = next]

Unlink(queue, a) ==
    LET next == queue.next[a]
        prev == queue.prev[a]
        right == IF next = NULL THEN [queue EXCEPT !.tail = prev]
                                ELSE [queue EXCEPT !.prev[next] = prev]
    IN  IF prev = NULL THEN [right EXCEPT !.head = next]
                       ELSE [right EXCEPT !.next[prev] = next]

\* Mutant: a periodic alarm starts again from the present time.
PeriodicEndDrifts(from, every) ==
    IF from < now THEN now + every ELSE from

\* The first point of a periodic alarm's grid that is still to come.
PeriodicEnd(from, every) ==
    IF from < now THEN from + every * ((now - from) \div every + 1) ELSE from

-----------------------------------------------------------------------------
(* The calls.  The threads of the program make them while no handler runs,   *)
(* a handler makes them on its own alarm or on others.                       *)

Init ==
    /\ AlarmQueue = [head |-> NULL, tail |-> NULL,
                     prev |-> [a \in Alarm |-> NULL],
                     next |-> [a \in Alarm |-> NULL]]
    /\ handler = {} /\ end = [a \in Alarm |-> 0]
    /\ period = [a \in Alarm |-> 0] /\ start = [a \in Alarm |-> 0]
    /\ now = 0 /\ timer = NULL /\ running = NULL /\ final = FALSE

\* Mutant: the decrementer is set only for the first alarm of an empty list.
InsertAlarmNoTimer(a, time) ==
    /\ AlarmQueue' = Insert(AlarmQueue, a, time)
    /\ handler' = handler \cup {a}
    /\ end' = [end EXCEPT ![a] = time]
    /\ timer' = IF AlarmQueue.head = NULL THEN SetTimer(time) ELSE timer

InsertAlarm(a, time) ==
    /\ AlarmQueue' = Insert(AlarmQueue, a, time)
    /\ handler' = handler \cup {a}
    /\ end' = [end EXCEPT ![a] = time]
    /\ timer' = IF AlarmQueue'.head = a THEN SetTimer(time) ELSE timer

\* An alarm must not be set while it is in the list: the callers' obligation,
\* which InsertAlarm does not check.
MaySet(a) == ~final /\ now < MaxTime /\ a \notin handler

OSSetAlarm(a) ==
    /\ MaySet(a)
    /\ \E tick \in Ticks : InsertAlarm(a, now + tick)
    /\ period' = [period EXCEPT ![a] = 0]
    /\ UNCHANGED <<start, now, running, final>>

\* The callers start the period with OSGetTime().
OSSetPeriodicAlarm(a) ==
    /\ MaySet(a)
    /\ \E p \in Periods :
         /\ period' = [period EXCEPT ![a] = p]
         /\ start' = [start EXCEPT ![a] = now]
         /\ InsertAlarm(a, PeriodicEnd(now, p))
    /\ UNCHANGED <<now, running, final>>

\* The body of OSCancelAlarm on s, the list, handlers and timer.
Cancel(s, a) ==
    LET rest == Unlink(s.queue, a)
        first == s.queue.prev[a] = NULL /\ rest.head # NULL
    IN  IF a \notin s.handler THEN s
        ELSE [s EXCEPT !.queue = rest, !.handler = @ \ {a},
                       !.timer = IF first THEN SetTimer(end[rest.head]) ELSE @]

Alarms == [queue |-> AlarmQueue, handler |-> handler, timer |-> timer]

Become(s) ==
    /\ AlarmQueue' = s.queue /\ handler' = s.handler /\ timer' = s.timer
    /\ UNCHANGED <<end, period, start, now>>

OSCancelAlarm(a) ==
    /\ ~final /\ a \in handler
    /\ Become(Cancel(Alarms, a))
    /\ UNCHANGED <<running, final>>

\* Mutant: the pair of iterators moves on by one alarm too many.
ResetSkips(r) ==
    LET s == IF r.iter \in DVDAlarm THEN r.s ELSE Cancel(r.s, r.iter)
        after == IF r.next = NULL THEN NULL ELSE s.queue.next[r.next]
    IN  IF r.iter = NULL THEN r
        ELSE [s |-> s, iter |-> after,
              next |-> IF after = NULL THEN NULL ELSE s.queue.next[after]]

\* One turn of the loop of OnReset, which reads next one alarm ahead.
ResetOne(r) ==
    LET s == IF r.iter \in DVDAlarm THEN r.s ELSE Cancel(r.s, r.iter)
    IN  IF r.iter = NULL THEN r
        ELSE [s |-> s, iter |-> r.next,
              next |-> IF r.next = NULL THEN NULL ELSE s.queue.next[r.next]]

\* OnReset(TRUE, event), which __OSShutdownDevices calls with interrupts
\* disabled for good.
OnReset ==
    LET head == AlarmQueue.head
        next == IF head = NULL THEN NULL ELSE AlarmQueue.next[head]
        loop[n \in 0 .. Cardinality(Alarm)] ==
          IF n = 0 THEN [s |-> Alarms, iter |-> head, next |-> next]
          ELSE ResetOne(loop[n - 1])
    IN  /\ ~final /\ running = NULL
        /\ Become(loop[Cardinality(Alarm)].s)
        /\ final' = TRUE
        /\ UNCHANGED running

-----------------------------------------------------------------------------
(* Time, the exception and the end of a handler. *)

\* Beyond MaxTime time goes on only to the end of the alarms set before it.
TimeGoesOn ==
    /\ \/ now < MaxTime
       \/ /\ running = NULL /\ AlarmQueue.head # NULL
          /\ end[AlarmQueue.head] < MaxTime /\ timer # NULL /\ now < timer
    /\ ~final

Tick ==
    /\ TimeGoesOn
    /\ now' = now + 1
    /\ UNCHANGED <<AlarmQueue, alarmVars, timer, running, final>>

Raised == timer # NULL /\ timer <= now

\* The exception is early when the decrementer could not hold the time that
\* is left, or when it was raised before the timer was set again.
DecrementerEarly ==
    /\ running = NULL /\ ~final
    /\ AlarmQueue.head # NULL => now < end[AlarmQueue.head]
    /\ timer' = TimerForHead(AlarmQueue, end)
    /\ UNCHANGED <<AlarmQueue, alarmVars, now, running, final>>

\* The first alarm leaves the list; a periodic one is set again.
TakeFirst(alarm) ==
    LET rest == Unlink(AlarmQueue, alarm)
        time == PeriodicEnd(start[alarm], period[alarm])
    IN  /\ IF period[alarm] > 0
           THEN /\ AlarmQueue' = Insert(rest, alarm, time)
                /\ end' = [end EXCEPT ![alarm] = time]
                /\ UNCHANGED handler
           ELSE /\ AlarmQueue' = rest
                /\ handler' = handler \ {alarm}
                /\ UNCHANGED end
        /\ timer' = TimerForHead(AlarmQueue', end')

DecrementerExceptionCallback ==
    LET alarm == AlarmQueue.head
    IN  /\ running = NULL /\ ~final /\ Raised
        /\ alarm # NULL /\ end[alarm] <= now
        /\ TakeFirst(alarm)
        /\ running' = alarm
        /\ UNCHANGED <<period, start, now, final>>

HandlerReturns ==
    /\ running # NULL
    /\ running' = NULL
    /\ UNCHANGED <<AlarmQueue, alarmVars, now, timer, final>>

Next ==
    \/ \E a \in Alarm :
         OSSetAlarm(a) \/ OSSetPeriodicAlarm(a) \/ OSCancelAlarm(a)
    \/ OnReset \/ Tick \/ DecrementerEarly \/ DecrementerExceptionCallback
    \/ HandlerReturns

Spec == Init /\ [][Next]_vars

\* Time passes, handlers return, and interrupts are enabled again, so that an
\* exception that was raised is taken.  Each of these steps disables itself or
\* can be taken a bounded number of times, so that weak fairness says that its
\* condition does not hold for ever.
Fairness ==
    /\ []<>~TimeGoesOn
    /\ []<>(running = NULL)
    /\ []<>~(Raised /\ running = NULL /\ ~final)

FairSpec == Spec /\ Fairness

-----------------------------------------------------------------------------
(* Properties. *)

List == [i \in 1 .. Cardinality(handler) |-> Node(AlarmQueue, i - 1)]

\* The links are those of a doubly linked list of exactly the alarms that are
\* set, from head to tail and back, in the order in which they end.
AlarmListExact ==
    /\ {List[i] : i \in DOMAIN List} = handler
    /\ Node(AlarmQueue, Cardinality(handler)) = NULL
    /\ AlarmQueue.tail = IF handler = {} THEN NULL
                         ELSE List[Cardinality(handler)]
    /\ \A i \in DOMAIN List :
         /\ AlarmQueue.prev[List[i]] = IF i = 1 THEN NULL ELSE List[i - 1]
         /\ i > 1 => end[List[i - 1]] <= end[List[i]]

\* No alarm is forgotten: the decrementer raises its exception when the first
\* alarm is due, at the latest, whatever was set, cancelled and taken before.
TimerCoversFirstAlarm ==
    AlarmQueue.head # NULL /\ ~final
      => timer # NULL /\ timer <= Max({now, end[AlarmQueue.head]}) + 1

\* The list, the timer and the exception handler implement the alarm service.
Service == INSTANCE AlarmService
             WITH pending <- handler, due <- end, every <- period,
                  Kept <- DVDAlarm, down <- final
ImplementsAlarmService == Service!Spec

\* An alarm that is set expires unless it is cancelled.
AlarmExpires ==
    \A a \in Alarm :
      a \in handler /\ end[a] < MaxTime
        ~> a \notin handler \/ running = a \/ final
=============================================================================
