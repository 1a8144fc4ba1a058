----------------------------- MODULE OSThread -----------------------------
(***************************************************************************)
(* revolution/OS/OSThread.c: the calls on threads and thread queues, the   *)
(* idle loop, and the interrupts that call into the kernel; with the       *)
(* mutexes of OSMutex this is the whole kernel.                            *)
(***************************************************************************)
EXTENDS OSMutex

CONSTANTS
    Priorities,    \* the priorities the program passes to the kernel
    Detached,      \* the values of OS_THREAD_DETACHED it creates threads with
    MaxSuspend     \* bound on OSThread.suspend

ASSUME ThreadAssumption ==
    /\ Priorities \subseteq Priority
    /\ Detached \subseteq BOOLEAN
    /\ MaxSuspend \in Nat \ {0}

-----------------------------------------------------------------------------
(* __OSThreadInit: main runs on DefaultThread; the other OSThread structures *)
(* are still zero.                                                           *)

Init ==
    /\ k = [current      |-> DefaultThread,
            RunQueueHint |-> FALSE,
            Reschedule   |-> 0,
            RunQueueBits |-> {},
            q        |-> [x \in RunQueues \cup BlockingQueues |-> <<>>],
            state    |-> [t \in Thread |-> IF t = DefaultThread
                                           THEN "RUNNING" ELSE "EXITED"],
            suspend  |-> [t \in Thread |-> 0],
            base     |-> [t \in Thread |-> DefaultPriority],
            priority |-> [t \in Thread |-> DefaultPriority],
            queue    |-> [t \in Thread |-> NULL],
            mutex    |-> [t \in Thread |-> NULL],
            detached |-> {DefaultThread},
            active   |-> {DefaultThread},
            alarms   |-> {}]
    /\ owner = [m \in Mutex |-> NULL]
    /\ lock = [m \in Mutex |-> 0]
    /\ mutexQueue = [t \in Thread |-> <<>>]
    /\ pc = [t \in Thread |-> UserCode]

-----------------------------------------------------------------------------
(* Creation and termination. *)

\* The storage of a thread is reused only when the thread is gone and nothing
\* refers to it: the callers' obligation, which the kernel does not check.
Reusable(t) ==
    /\ k.state[t] = "EXITED" /\ t \notin k.active
    /\ mutexQueue[t] = <<>>
    /\ k.q[JoinQueue(t)] = <<>>
    /\ \A u \in Thread : pc[u] # Terminating(t)
    /\ pc[t] \notin {Terminating(u) : u \in Thread}

OSCreateThread(t) ==
    /\ Call("OSCreateThread") /\ Reusable(t)
    /\ \E prio \in Priorities, detached \in Detached :
         k' = [k EXCEPT !.state[t] = "READY",
                        !.detached = IF detached THEN @ \cup {t} ELSE @ \ {t},
                        !.base[t] = prio,
                        !.priority[t] = prio,
                        !.suspend[t] = 1,
                        !.mutex[t] = NULL,
                        !.active = @ \cup {t}]
    /\ Return(t)
    /\ UNCHANGED mutexVars

\* A detached thread leaves the active queue at once, another one is left for
\* its joiner.
Terminate(kk, t) ==
    IF t \in kk.detached
    THEN [kk EXCEPT !.active = @ \ {t}, !.state[t] = "EXITED"]
    ELSE [kk EXCEPT !.state[t] = "MORIBUND"]

Reap(kk, t) == [kk EXCEPT !.active = @ \ {t}, !.state[t] = "EXITED"]

OSExitThread ==
    /\ Call("OSExitThread") /\ MayBlock
    /\ k' = Terminate(k, k.current)
    /\ Resumes(k.current, Terminating(k.current))
    /\ UNCHANGED mutexVars

\* Mutant: a sleeping thread stays in its wait queue.
WithdrawFromRunQueue(kk, t) ==
    CASE kk.state[t] = "READY" /\ kk.suspend[t] <= 0 -> UnsetRun(kk, t)
      [] kk.state[t] = "RUNNING" -> [kk EXCEPT !.RunQueueHint = TRUE]
      [] OTHER -> kk

\* What OSCancelThread does to the queue the thread is in.
Withdraw(kk, t) ==
    CASE kk.state[t] = "READY" /\ kk.suspend[t] <= 0 -> UnsetRun(kk, t)
      [] kk.state[t] = "RUNNING" -> [kk EXCEPT !.RunQueueHint = TRUE]
      [] kk.state[t] = "SLEEPING" ->
           LET off == [kk EXCEPT !.q[kk.queue[t]] = Unlink(@, t),
                                 !.queue[t] = NULL]
           IN  IF kk.suspend[t] <= 0 THEN UpdateBlocker(off, t) ELSE off
      [] OTHER -> kk

\* A thread of a deadlock waits, through the owners, for itself.
Deadlocked(t) ==
    LET at[n \in 0 .. Cardinality(Thread)] ==
          IF n = 0 THEN t
          ELSE IF at[n - 1] = NULL THEN NULL ELSE BlockedBy(k, at[n - 1])
    IN  \E n \in 1 .. Cardinality(Thread) : at[n] = t

\* A deadlocked thread is not cancelled: UpdatePriority would come back to it
\* while it still counts as asleep but its queue pointer is already NULL.  Nor
\* is a thread in OSSleepTicks, whose alarm would stay set.
OSCancelThread(t) ==
    /\ Call("OSCancelThread")
    /\ t = k.current => MayBlock
    /\ ~Deadlocked(t) /\ t \notin k.alarms
    /\ ~Terminated(k, t)
    /\ k' = Terminate(Withdraw(k, t), t)
    /\ Resumes(k.current, Terminating(t))
    /\ UNCHANGED mutexVars

\* Mutant: the joiner is not woken.
TerminateWithoutJoiner(t) ==
    /\ Continues(Terminating(t)) /\ mutexQueue[t] = <<>>
    /\ k' = __OSReschedule(IF k.current = t
                           THEN [k EXCEPT !.RunQueueHint = TRUE] ELSE k)
    /\ Return(k.current)
    /\ UNCHANGED mutexVars

\* The end of OSExitThread and OSCancelThread, once __OSUnlockAllMutex is done:
\* wake the joiner; a thread that terminated itself gives the processor away.
TerminateEnd(t) ==
    LET woken == WakeupThread(k, JoinQueue(t))
        leaves == k.current = t /\ woken.current = t
    IN  /\ Continues(Terminating(t))
        /\ mutexQueue[t] = <<>>
        /\ k' = IF leaves
                THEN __OSReschedule([woken EXCEPT !.RunQueueHint = TRUE])
                ELSE woken
        /\ Return(k.current)
        /\ UNCHANGED mutexVars

\* A thread joins another one that nobody has joined yet: with a second call
\* after the first one has returned, OSJoinThread would sleep forever.
OSJoinThread(t) ==
    /\ Call("OSJoinThread")
    /\ t \in k.active \ {k.current}
    /\ \/ /\ t \notin k.detached /\ k.state[t] # "MORIBUND"
          /\ k.q[JoinQueue(t)] = <<>>
          /\ MayBlock
          /\ k' = SleepThread(k, JoinQueue(t))
          /\ Resumes(k.current, Joining(t))
       \/ /\ k.state[t] = "MORIBUND"
          /\ k' = Reap(k, t)
          /\ UNCHANGED pc
    /\ UNCHANGED mutexVars

\* The joiner is back from OSSleepThread; another joiner or OSDetachThread may
\* have been first.
OSJoinThreadReturn(t) ==
    /\ Continues(Joining(t))
    /\ k' = IF t \in k.active /\ k.state[t] = "MORIBUND" THEN Reap(k, t) ELSE k
    /\ Return(k.current)
    /\ UNCHANGED mutexVars

OSDetachThread(t) ==
    LET detached == [k EXCEPT !.detached = @ \cup {t}]
    IN  /\ Call("OSDetachThread")
        /\ t \in k.active \ k.detached
        /\ k' = WakeupThread(IF k.state[t] = "MORIBUND" THEN Reap(detached, t)
                                                       ELSE detached,
                             JoinQueue(t))
        /\ UNCHANGED <<pc, mutexVars>>

-----------------------------------------------------------------------------
(* Scheduling. *)

OSResumeThread(t) ==
    /\ Call("OSResumeThread")
    /\ k.suspend[t] > 0
    /\ k' = ResumeThread(k, t)
    /\ UNCHANGED <<pc, mutexVars>>

\* The first suspension takes the thread off the run queue, or to the end of
\* its wait queue with a priority that is less urgent than any other.
Suspend(kk, t) ==
    CASE kk.state[t] = "RUNNING" ->
           [kk EXCEPT !.RunQueueHint = TRUE, !.state[t] = "READY"]
      [] kk.state[t] = "READY" -> UnsetRun(kk, t)
      [] kk.state[t] = "SLEEPING" ->
           UpdateBlocker(
             [kk EXCEPT !.priority[t] = OS_PRIORITY_MAX + 1,
                        !.q[kk.queue[t]] = Append(Unlink(@, t), t)], t)
      [] OTHER -> kk

SuspendThread(kk, t) ==
    LET suspended == [kk EXCEPT !.suspend[t] = @ + 1]
    IN  IF kk.suspend[t] = 0 THEN __OSReschedule(Suspend(suspended, t))
                             ELSE suspended

OSSuspendThread(t) ==
    /\ Call("OSSuspendThread")
    /\ t \in k.active /\ k.suspend[t] < MaxSuspend
    /\ t = k.current => MayBlock
    /\ k' = SuspendThread(k, t)
    /\ UNCHANGED <<pc, mutexVars>>

\* OSSleepTicks up to the switch.  k.alarms are the threads on whose stacks an
\* alarm is set.
OSSleepTicks ==
    /\ Call("OSSleepTicks") /\ MayBlock
    /\ k' = SuspendThread([k EXCEPT !.alarms = @ \cup {k.current}], k.current)
    /\ Resumes(k.current, SleepingTicks)
    /\ UNCHANGED mutexVars

\* Mutant: the alarm is left as it is.
OSSleepTicksReturnOnly ==
    /\ Continues(SleepingTicks)
    /\ Return(k.current)
    /\ UNCHANGED <<k, mutexVars>>

\* The sleeper runs again, resumed by its alarm or by another thread, and
\* cancels the alarm.
OSSleepTicksReturn ==
    /\ Continues(SleepingTicks)
    /\ k' = [k EXCEPT !.alarms = @ \ {k.current}]
    /\ Return(k.current)
    /\ UNCHANGED mutexVars

OSSetThreadPriority(t) ==
    /\ Call("OSSetThreadPriority") /\ t \in k.active
    /\ \E prio \in Priorities \ {k.base[t]} :
         k' = __OSReschedule(UpdatePriority([k EXCEPT !.base[t] = prio], t))
    /\ UNCHANGED <<pc, mutexVars>>

OSYieldThread ==
    /\ Call("OSYieldThread")
    /\ k' = SelectThread(k, TRUE)
    /\ UNCHANGED <<pc, mutexVars>>

OSSleepThread(u) ==
    /\ Call("OSSleepThread") /\ MayBlock
    /\ k' = SleepThread(k, WaitQueue(u))
    /\ UNCHANGED <<pc, mutexVars>>

OSWakeupThread(u) ==
    /\ Call("OSWakeupThread")
    /\ k' = WakeupThread(k, WaitQueue(u))
    /\ UNCHANGED <<pc, mutexVars>>

\* Only one level of disabling is modelled.
OSDisableScheduler ==
    /\ Call("OSDisableScheduler") /\ k.Reschedule = 0
    /\ k' = [k EXCEPT !.Reschedule = @ + 1]
    /\ UNCHANGED <<pc, mutexVars>>

OSEnableScheduler ==
    /\ Call("OSDisableScheduler") /\ k.Reschedule > 0
    /\ k' = [k EXCEPT !.Reschedule = @ - 1]
    /\ UNCHANGED <<pc, mutexVars>>

-----------------------------------------------------------------------------
(* Interrupts and the idle loop. *)

\* The alarm of OSSleepTicks expires; the thread may run already.
SleepAlarmHandler(t) ==
    /\ InterruptsEnabled
    /\ t \in k.alarms
    /\ k' = InHandler(LAMBDA s :
              ResumeThread([s EXCEPT !.alarms = @ \ {t}], t))
    /\ UNCHANGED <<pc, mutexVars>>

\* The handlers that resume a thread.
InterruptResume(t) ==
    /\ "OSResumeThread" \in HandlerCalls /\ InterruptsEnabled
    /\ k.suspend[t] > 0
    /\ k' = InHandler(LAMBDA s : ResumeThread(s, t))
    /\ UNCHANGED <<pc, mutexVars>>

InterruptWakeup(u) ==
    /\ "OSWakeupThread" \in HandlerCalls /\ InterruptsEnabled
    /\ k' = InHandler(LAMBDA s : WakeupThread(s, WaitQueue(u)))
    /\ UNCHANGED <<pc, mutexVars>>

\* The loop ends once an interrupt has made a thread ready.
IdleLoopEnd ==
    /\ k.current = NULL /\ k.RunQueueBits # {}
    /\ k' = SwitchThread(k)
    /\ UNCHANGED <<pc, mutexVars>>

-----------------------------------------------------------------------------
ThreadNext ==
    \/ OSExitThread \/ OSYieldThread
    \/ OSSleepTicks \/ OSSleepTicksReturn
    \/ OSDisableScheduler \/ OSEnableScheduler \/ IdleLoopEnd
    \/ \E t \in Thread :
         \/ OSCreateThread(t) \/ OSCancelThread(t) \/ TerminateEnd(t)
         \/ OSJoinThread(t) \/ OSJoinThreadReturn(t) \/ OSDetachThread(t)
         \/ OSResumeThread(t) \/ OSSuspendThread(t) \/ OSSetThreadPriority(t)
         \/ InterruptResume(t) \/ SleepAlarmHandler(t)
    \/ \E u \in UserQueue :
         \/ OSSleepThread(u) \/ OSWakeupThread(u) \/ InterruptWakeup(u)

MutexNext ==
    \/ \E m \in Mutex :
         \/ OSLockMutex(m) \/ OSLockMutexRetry(m)
         \/ OSTryLockMutex(m) \/ OSUnlockMutex(m)
    \/ \E t \in Thread : __OSUnlockAllMutex(t)

Next == ThreadNext \/ MutexNext

Spec == Init /\ [][Next]_vars

\* The processor goes on with a call it has begun, and a thread that owns a
\* mutex and is given the processor unlocks it in the end: critical sections
\* are finite.  Nothing is assumed of the other code of the program.  Each
\* conjunct is the weak fairness of a step that makes its condition true.
Fairness ==
    /\ []<>(k.current = NULL => k.RunQueueBits = {})
    /\ \A m \in Mutex : []<>~Continues(Locking(m))
    /\ \A m \in Mutex, t \in Thread :
         []<>~(k.current = t /\ pc[t] = UserCode /\ owner[m] = t)

-----------------------------------------------------------------------------
(* Properties. *)

Live(t) == t \in k.active /\ ~Terminated(k, t)
Runnable(t) == k.state[t] = "READY" /\ k.suspend[t] = 0
Times(q, t) == Cardinality({i \in DOMAIN k.q[q] : k.q[q][i] = t})
Joiners(t) == Range(k.q[JoinQueue(t)])

States == {"EXITED", "READY", "RUNNING", "SLEEPING", "MORIBUND"}

\* The shape of the kernel's data.
TypeOK ==
    /\ k.current \in Thread \cup {NULL}
    /\ k.RunQueueHint \in BOOLEAN /\ k.Reschedule \in 0 .. 1
    /\ k.RunQueueBits \subseteq Priority
    /\ k.q \in [RunQueues \cup BlockingQueues -> Seq(Thread)]
    /\ k.state \in [Thread -> States]
    /\ k.suspend \in [Thread -> 0 .. MaxSuspend]
    /\ k.base \in [Thread -> Priority]
    /\ k.priority \in [Thread -> 0 .. OS_PRIORITY_MAX + 1]
    /\ k.queue \in [Thread -> RunQueues \cup BlockingQueues \cup {NULL}]
    /\ k.mutex \in [Thread -> Mutex \cup {NULL}]
    /\ k.detached \subseteq Thread /\ k.active \subseteq Thread
    /\ k.alarms \subseteq Thread
    /\ owner \in [Mutex -> Thread \cup {NULL}]
    /\ lock \in [Mutex -> 0 .. MaxLock]
    /\ mutexQueue \in [Thread -> Seq(Mutex)]
    /\ \A t \in Thread :
         pc[t] \in {UserCode, SleepingTicks} \cup {Locking(m) : m \in Mutex}
                     \cup {Joining(u) : u \in Thread}
                     \cup {Terminating(u) : u \in Thread}

\* SetRun and UnsetRun keep the run queues and RunQueueBits in step with the
\* threads: a thread that is ready and not suspended is in the run queue of
\* its present priority, once, and no other thread is in any.
RunQueueExact ==
    /\ k.RunQueueBits = {p \in Priority : k.q[RunQueue(p)] # <<>>}
    /\ \A t \in Thread, p \in Priority :
         Times(RunQueue(p), t) =
           IF Runnable(t) /\ k.priority[t] = p THEN 1 ELSE 0

\* A thread is linked in one wait queue exactly while it is asleep, and every
\* wait queue is ordered by the present priority of its threads, whatever
\* promotions, suspensions and cancellations they went through.
WaitQueueExact ==
    \A q \in BlockingQueues :
      /\ \A t \in Thread :
           Times(q, t) = IF k.state[t] = "SLEEPING" /\ k.queue[t] = q
                         THEN 1 ELSE 0
      /\ \A i, j \in DOMAIN k.q[q] :
           i < j => k.priority[k.q[q][i]] <= k.priority[k.q[q][j]]

\* Mutual exclusion: the thread a mutex names as its owner, the lock count and
\* the mutex queues of the threads agree, also in the middle of a termination.
OwnershipExact ==
    /\ \A m \in Mutex : (owner[m] = NULL) <=> (lock[m] = 0)
    /\ \A t \in Thread :
         /\ Range(mutexQueue[t]) = {m \in Mutex : owner[m] = t}
         /\ IsInjective(mutexQueue[t])

\* No lost wakeup: nobody sleeps on a mutex that no thread owns.
WaitersHaveOwner ==
    \A m \in Mutex : owner[m] = NULL => k.q[MutexWait(m)] = <<>>

\* Every thread that can run or wait has the priority that its base priority
\* and the waiters of its mutexes give it, through chains of owners, and a
\* suspended waiter lends none.
PriorityInheritanceExact ==
    \A t \in Thread :
      Live(t) /\ k.suspend[t] = 0
        => k.priority[t] = __OSGetEffectivePriority(k, mutexQueue, t)

\* In the program's code the thread that runs is a most urgent one: no call
\* returns without the switch that it made necessary.
HighestPriorityRuns ==
    InUserCode => /\ k.state[k.current] = "RUNNING"
                  /\ \A p \in k.RunQueueBits : k.priority[k.current] <= p

\* While the scheduler is disabled a switch that a call made necessary is put
\* off, and RunQueueHint remembers it for the next __OSReschedule.
PreemptionRemembered ==
    InUserCode /\ ~k.RunQueueHint
      => \A p \in k.RunQueueBits : k.priority[k.current] <= p

\* An alarm of OSSleepTicks is set only while the thread it is on the stack of
\* is in OSSleepTicks, although others may resume the thread before it expires
\* or suspend it again.
SleepAlarmOnStack ==
    \A t \in k.alarms : Live(t) /\ pc[t] = SleepingTicks

\* A thread that is gone owns mutexes or keeps its joiner waiting only until
\* the call that terminated it has run to its end.
TerminationFollowsThrough ==
    \A t \in Thread :
      Terminated(k, t) /\ (mutexQueue[t] # <<>> \/ Joiners(t) # {})
        => \E u \in Thread : pc[u] = Terminating(t)

\* The kernel implements the mutex service: a mutex is taken by the thread that
\* runs and given back by its owner or by the termination of its owner.
Service == INSTANCE MutexService
             WITH holder <- owner, count <- lock, Main <- DefaultThread,
                  Depth <- MaxLock, alive <- {t \in Thread : Live(t)},
                  running <- IF k.current \in {t \in Thread : Live(t)}
                             THEN k.current ELSE NULL
ImplementsMutexService == Service!Spec

MostUrgent(t) ==
    /\ Live(t) /\ k.suspend[t] = 0
    /\ \A u \in k.active \ {t} : k.base[t] < k.base[u]

\* No unbounded priority inversion: the most urgent thread gets the mutex it
\* waits for although threads of middle urgency never give the processor up,
\* because __OSPromoteThread lends its priority along the chain of owners.
UrgentWaiterServed ==
    \A t \in Thread, m \in Mutex :
      pc[t] = Locking(m) /\ MostUrgent(t)
        ~> owner[m] = t \/ ~MostUrgent(t)

\* A terminated thread never runs again: only OSCreateThread makes it ready,
\* suspended, after it has left the active queue.
DeadStaysDead ==
    [][\A t \in Thread :
         Terminated(k, t) /\ k'.state[t] \notin {"MORIBUND", "EXITED"}
           => t \notin k.active /\ k'.state[t] = "READY" /\ k'.suspend[t] > 0]_vars
=============================================================================
