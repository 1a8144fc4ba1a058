----------------------------- MODULE OSKernel -----------------------------
(***************************************************************************)
(* The scheduler data of revolution/OS/OSThread.c and the functions that   *)
(* work on it: the run queues, the wait queues, the priority-inheritance   *)
(* walk and the context switch.                                            *)
(*                                                                         *)
(* The kernel runs on one processor and every entry point disables         *)
(* interrupts, so a call is atomic up to the point where SelectThread      *)
(* loads another context.  A thread that is switched out inside a call     *)
(* resumes there: pc[t] is the part of the call that is left to it.        *)
(*                                                                         *)
(* The fields of the OSThread structures and the file-scope variables are  *)
(* the fields of one record k, so that a C function that mutates them is   *)
(* an operator from such a record to the record it leaves behind.  The     *)
(* mutex fields (OSMutex.thread, OSMutex.lock, OSThread.mutexQueue) are    *)
(* variables of their own.                                                 *)
(***************************************************************************)
EXTENDS Integers, Sequences, FiniteSets, SequencesExt

CONSTANTS
    Thread,           \* the OSThread structures of the program
    DefaultThread,    \* the static DefaultThread, which runs main
    DefaultPriority,  \* its base priority (16 in the source)
    Mutex,            \* the OSMutex structures
    UserQueue,        \* the OSThreadQueues of the program
    OS_PRIORITY_MAX,  \* the least urgent priority (31 in the source)
    Calls,            \* the kernel calls the program makes
    HandlerCalls,     \* the kernel calls its interrupt handlers make
    NULL

ASSUME KernelAssumption ==
    /\ IsFiniteSet(Thread) /\ DefaultThread \in Thread
    /\ NULL \notin Thread \cup Mutex
    /\ OS_PRIORITY_MAX \in Nat
    /\ DefaultPriority \in 0 .. OS_PRIORITY_MAX

VARIABLES
    k,           \* the scheduler: fields below
    owner,       \* OSMutex.thread
    lock,        \* OSMutex.lock
    mutexQueue,  \* OSThread.mutexQueue: the mutexes the thread owns, in order
    pc           \* what is left of the kernel call a thread is in

mutexVars == <<owner, lock, mutexQueue>>
vars == <<k, owner, lock, mutexQueue, pc>>

Priority == 0 .. OS_PRIORITY_MAX

-----------------------------------------------------------------------------
(* Thread queues.  OSThread.queue points to the queue a thread is linked in. *)

RunQueue(p)   == <<"run", p>>
JoinQueue(t)  == <<"join", t>>
MutexWait(m)  == <<"mutex", m>>
WaitQueue(u)  == <<"user", u>>

BlockingQueues ==
    {JoinQueue(t) : t \in Thread} \cup {MutexWait(m) : m \in Mutex}
        \cup {WaitQueue(u) : u \in UserQueue}
RunQueues == {RunQueue(p) : p \in Priority}

\* Unlinks x from a doubly linked list without duplicates.
Unlink(s, x) == RemoveAt(s, CHOOSE i \in 1 .. Len(s) : s[i] = x)

\* The insertion loop of OSSleepThread, OSResumeThread and
\* SetEffectivePriority: t goes before the first waiter less urgent than it.
InsertByPriority(s, prio, t) ==
    LET later == {i \in 1 .. Len(s) : prio[s[i]] > prio[t]}
    IN  InsertAt(s, IF later = {} THEN Len(s) + 1 ELSE Min(later), t)

Requeue(kk, t, p) ==
    LET q    == kk.queue[t]
        prio == [kk.priority EXCEPT ![t] = p]
    IN  [kk EXCEPT !.priority = prio,
                   !.q[q] = InsertByPriority(Unlink(@, t), prio, t)]

-----------------------------------------------------------------------------
(* The run queue.  RunQueueBits is the set of the levels whose bit is set.  *)

\* Mutant: RunQueueHint is not set.
SetRunNoHint(kk, t) ==
    LET p == kk.priority[t]
    IN  [kk EXCEPT !.queue[t] = RunQueue(p), !.q[RunQueue(p)] = Append(@, t),
                   !.RunQueueBits = @ \cup {p}]

SetRun(kk, t) ==
    LET p == kk.priority[t]
    IN  [kk EXCEPT !.queue[t] = RunQueue(p),
                   !.q[RunQueue(p)] = Append(@, t),
                   !.RunQueueBits = @ \cup {p},
                   !.RunQueueHint = TRUE]

\* Mutant: the bit of the level is cleared although threads remain.
UnsetRunClearsBit(kk, t) ==
    [kk EXCEPT !.q[kk.queue[t]] = Unlink(@, t), !.queue[t] = NULL,
               !.RunQueueBits = @ \ {kk.priority[t]}]

UnsetRun(kk, t) ==
    LET rest == Unlink(kk.q[kk.queue[t]], t)
    IN  [kk EXCEPT !.q[kk.queue[t]] = rest,
                   !.RunQueueBits = IF rest = <<>> THEN @ \ {kk.priority[t]}
                                                   ELSE @,
                   !.queue[t] = NULL]

\* SelectThread from "RunQueueHint = FALSE" on: loads the first thread of the
\* most urgent level.
SwitchThread(kk) ==
    LET p    == Min(kk.RunQueueBits)
        next == Head(kk.q[RunQueue(p)])
        rest == Tail(kk.q[RunQueue(p)])
    IN  [kk EXCEPT !.RunQueueHint = FALSE,
                   !.q[RunQueue(p)] = rest,
                   !.RunQueueBits = IF rest = <<>> THEN @ \ {p} ELSE @,
                   !.queue[next] = NULL,
                   !.state[next] = "RUNNING",
                   !.current = next]

\* With no current thread the processor is in the idle loop, whose context is
\* not that of a thread, and SelectThread returns at once.
SelectThread(kk, yield) ==
    LET curr == kk.current
        preempted ==
            SetRun([kk EXCEPT !.state[curr] = "READY"], curr)
        stopped == IF kk.state[curr] = "RUNNING" THEN preempted ELSE kk
        keeps == /\ kk.state[curr] = "RUNNING"
                 /\ ~yield
                 /\ \A p \in kk.RunQueueBits : kk.priority[curr] <= p
    IN  IF kk.Reschedule > 0 \/ curr = NULL \/ keeps
        THEN kk
        ELSE IF stopped.RunQueueBits = {}
             THEN [stopped EXCEPT !.current = NULL]
             ELSE SwitchThread(stopped)

__OSReschedule(kk) == IF kk.RunQueueHint THEN SelectThread(kk, FALSE) ELSE kk

-----------------------------------------------------------------------------
(* Priority inheritance. *)

\* The base priority, or that of the first waiter of a mutex the thread owns.
__OSGetEffectivePriority(kk, mq, t) ==
    LET waited == {m \in Range(mq[t]) : kk.q[MutexWait(m)] # <<>>}
    IN  Min({kk.base[t]}
              \cup {kk.priority[Head(kk.q[MutexWait(m)])] : m \in waited})

\* Mutant: a sleeping thread stays at its place in the queue.
SetEffectivePrioritySleeperStays(kk, t, p) ==
    CASE kk.state[t] = "READY" ->
           SetRun([UnsetRun(kk, t) EXCEPT !.priority[t] = p], t)
      [] kk.state[t] = "SLEEPING" -> [kk EXCEPT !.priority[t] = p]
      [] kk.state[t] = "RUNNING" ->
           [kk EXCEPT !.RunQueueHint = TRUE, !.priority[t] = p]
      [] OTHER -> kk

SetEffectivePriority(kk, t, p) ==
    CASE kk.state[t] = "READY" ->
           SetRun([UnsetRun(kk, t) EXCEPT !.priority[t] = p], t)
      [] kk.state[t] = "SLEEPING" -> Requeue(kk, t, p)
      [] kk.state[t] = "RUNNING" ->
           [kk EXCEPT !.RunQueueHint = TRUE, !.priority[t] = p]
      [] OTHER -> kk

\* The thread SetEffectivePriority returns: the owner of the mutex t waits for.
BlockedBy(kk, t) ==
    IF kk.state[t] = "SLEEPING" /\ kk.mutex[t] # NULL
    THEN owner[kk.mutex[t]]
    ELSE NULL

\* The two while loops below walk from a thread to the owner it waits for
\* until Wanted(kk, t) is the priority t has.  WalkBound caps the loop: a
\* walk visits a thread of a waiting cycle at most twice.
WalkBound == 2 * Cardinality(Thread)

Walk(k0, t0, Wanted(_, _)) ==
    LET step(s) ==
          IF \/ s.at = NULL
             \/ s.k.suspend[s.at] > 0
             \/ s.k.priority[s.at] = Wanted(s.k, s.at)
          THEN s
          ELSE [k  |-> SetEffectivePriority(s.k, s.at, Wanted(s.k, s.at)),
                at |-> BlockedBy(s.k, s.at)]
        walk[n \in 0 .. WalkBound] ==
          IF n = 0 THEN [k |-> k0, at |-> t0] ELSE step(walk[n - 1])
    IN  walk[WalkBound].k

UpdatePriority(kk, t) ==
    Walk(kk, t, LAMBDA s, u : __OSGetEffectivePriority(s, mutexQueue, u))

__OSPromoteThread(kk, t, p) ==
    Walk(kk, t, LAMBDA s, u : IF s.priority[u] > p THEN p ELSE s.priority[u])

\* thread->mutex is only looked at for a sleeping thread.
UpdateBlocker(kk, t) ==
    IF kk.mutex[t] = NULL THEN kk ELSE UpdatePriority(kk, owner[kk.mutex[t]])

-----------------------------------------------------------------------------
(* The calls that other calls make. *)

\* OSSleepThread up to the switch.
SleepThread(kk, q) ==
    LET curr == kk.current
    IN  __OSReschedule(
          [kk EXCEPT !.state[curr] = "SLEEPING",
                     !.queue[curr] = q,
                     !.q[q] = InsertByPriority(@, kk.priority, curr),
                     !.RunQueueHint = TRUE])

\* Mutant: only the first waiter is woken.
WakeupFirst(kk, q) ==
    IF kk.q[q] = <<>> THEN __OSReschedule(kk)
    ELSE LET t == Head(kk.q[q])
             r == [kk EXCEPT !.q[q] = Tail(@), !.state[t] = "READY"]
         IN  __OSReschedule(IF kk.suspend[t] <= 0 THEN SetRun(r, t) ELSE r)

\* OSWakeupThread: every waiter becomes ready, the suspended ones off the run
\* queue.
WakeupThread(kk, q) ==
    LET wake(s, t) ==
            LET r == [s EXCEPT !.state[t] = "READY"]
            IN  IF s.suspend[t] <= 0 THEN SetRun(r, t) ELSE r
    IN  __OSReschedule(FoldLeft(wake, [kk EXCEPT !.q[q] = <<>>], kk.q[q]))

\* Mutant: OSResumeThread returns without __OSReschedule.
ResumeThreadNoSwitch(kk, t) ==
    LET left == kk.suspend[t] - 1
        runs == [kk EXCEPT !.suspend[t] = 0]
    IN  IF left = 0 /\ kk.state[t] = "READY"
        THEN SetRun([runs EXCEPT !.priority[t] = kk.base[t]], t)
        ELSE runs

\* OSResumeThread.
ResumeThread(kk, t) ==
    LET left == kk.suspend[t] - 1
        prio == __OSGetEffectivePriority(kk, mutexQueue, t)
        runs == [kk EXCEPT !.suspend[t] = 0]
    IN  IF left # 0
        THEN [kk EXCEPT !.suspend[t] = IF left < 0 THEN 0 ELSE left]
        ELSE __OSReschedule(
               CASE kk.state[t] = "READY" ->
                      SetRun([runs EXCEPT !.priority[t] = prio], t)
                 [] kk.state[t] = "SLEEPING" ->
                      UpdateBlocker(Requeue(runs, t, prio), t)
                 [] OTHER -> runs)

\* An interrupt handler runs with the scheduler disabled; the dispatcher
\* reschedules once it has returned.
InHandler(handler(_)) ==
    LET after == handler([k EXCEPT !.Reschedule = @ + 1])
    IN  __OSReschedule([after EXCEPT !.Reschedule = @ - 1])

-----------------------------------------------------------------------------
(* Where a thread resumes: in the program's code, in the loop of OSLockMutex   *)
(* or OSJoinThread after OSSleepThread, in OSSleepTicks after OSSuspendThread, *)
(* or in the rest of the termination of a thread after OSWakeupThread.         *)

UserCode        == <<"user", NULL>>
Locking(m)      == <<"lock", m>>
SleepingTicks   == <<"ticks", NULL>>
Joining(t)      == <<"join", t>>
Terminating(t)  == <<"terminate", t>>

Return(t) == pc' = [pc EXCEPT ![t] = UserCode]
Resumes(t, at) == pc' = [pc EXCEPT ![t] = at]

\* The current thread is in the program's code, interrupts enabled.
InUserCode == k.current \in Thread /\ pc[k.current] = UserCode

\* The current thread continues a call it was switched out of.
Continues(at) == k.current \in Thread /\ pc[k.current] = at

\* Interrupts are enabled in the program's code and in the idle loop.
InterruptsEnabled == k.current \in Thread => pc[k.current] = UserCode

Call(name) == name \in Calls /\ InUserCode

\* No caller blocks with the scheduler disabled: OSReset.c and OSFatal.c,
\* which disable it, make no blocking call before they enable it again.
MayBlock == k.Reschedule = 0

Terminated(kk, t) == kk.state[t] \in {"MORIBUND", "EXITED"}
=============================================================================
