-------------------------- MODULE OSThread_proofs ---------------------------
(***************************************************************************)
(* The properties of the kernel of OSThread and OSMutex, for every set of  *)
(* threads, mutexes and queues, every number of priorities and every       *)
(* program: mutual exclusion, exact run queues and wait queues, nobody     *)
(* asleep on a mutex that no thread owns, no alarm that outlives its call, *)
(* terminations that are final and carried to their end, the mutex service *)
(* that the kernel implements, and at last the inheritance of priorities.  *)
(*                                                                         *)
(* KernelInv is the inductive invariant.  It joins OwnershipInv, of the    *)
(* mutexes, with Consistent, of the scheduler; the latter is a statement   *)
(* about a record of scheduler data, so that it can be carried through the *)
(* functions of OSKernel_proofs that a call is made of.                    *)
(***************************************************************************)
EXTENDS OSMessage, OSKernel_proofs

-----------------------------------------------------------------------------
(* The inductive invariant: the ownership facts and the types they need. *)

OwnershipInv == OwnershipType /\ OwnershipExact

\* __OSThreadInit and OSInitMutex leave every mutex free and every queue empty.
LEMMA OwnershipInit == Init => OwnershipInv
<1> SUFFICES ASSUME Init PROVE OwnershipInv
  OBVIOUS
<1>1. /\ owner = [m \in Mutex |-> NULL]
      /\ lock = [m \in Mutex |-> 0]
      /\ mutexQueue = [t \in Thread |-> <<>>]
  BY DEF Init
<1>2. OwnershipType
  BY <1>1, MutexAssumption DEF OwnershipType
<1>3. \A t \in Thread : Range(mutexQueue[t]) = {} /\ IsInjective(mutexQueue[t])
  BY <1>1 DEF Range, IsInjective
<1>4. \A t \in Thread : {m \in Mutex : owner[m] = t} = {}
  BY <1>1, KernelAssumption
<1> QED
  BY <1>1, <1>2, <1>3, <1>4 DEF OwnershipInv, OwnershipExact

\* A free mutex is taken.
LEMMA TakeMutexOwnership ==
    ASSUME OwnershipInv, NEW m \in Mutex, NEW t \in Thread,
           owner[m] = NULL, TakeMutex(m, t)
    PROVE  OwnershipInv'
<1>1. owner[m] # t /\ lock[m] = 0
  BY KernelAssumption DEF OwnershipInv, OwnershipExact
<1>2. m \in Mutex \ Range(mutexQueue[t])
  BY <1>1 DEF OwnershipInv, OwnershipExact
<1>3. /\ mutexQueue'[t] \in Seq(Mutex)
      /\ IsInjective(mutexQueue'[t])
      /\ Range(mutexQueue'[t]) = Range(mutexQueue[t]) \cup {m}
  BY <1>2, AppendNewProperties
     DEF OwnershipInv, OwnershipType, OwnershipExact, TakeMutex
<1>4. OwnershipType'
  BY <1>1, <1>3, MutexAssumption DEF OwnershipInv, OwnershipType, TakeMutex
<1>5. \A n \in Mutex : (owner'[n] = NULL) <=> (lock'[n] = 0)
  BY <1>1, KernelAssumption
     DEF OwnershipInv, OwnershipType, OwnershipExact, TakeMutex
<1>6. ASSUME NEW u \in Thread
      PROVE  /\ Range(mutexQueue'[u]) = {n \in Mutex : owner'[n] = u}
             /\ IsInjective(mutexQueue'[u])
  <2>1. CASE u = t
    BY <2>1, <1>1, <1>3
       DEF OwnershipInv, OwnershipType, OwnershipExact, TakeMutex
  <2>2. CASE u # t
    <3>1. mutexQueue'[u] = mutexQueue[u]
      BY <2>2 DEF OwnershipInv, OwnershipType, TakeMutex
    <3>2. {n \in Mutex : owner'[n] = u} = {n \in Mutex : owner[n] = u}
      BY <2>2, KernelAssumption DEF OwnershipInv, OwnershipType, TakeMutex
    <3> QED
      BY <3>1, <3>2 DEF OwnershipInv, OwnershipExact
  <2> QED
    BY <2>1, <2>2
<1> QED
  BY <1>4, <1>5, <1>6 DEF OwnershipInv, OwnershipExact

\* A mutex leaves the queue of its owner and becomes free.
LEMMA FreeMutexOwnership ==
    ASSUME OwnershipInv, NEW m \in Mutex, NEW t \in Thread, owner[m] = t,
           owner' = [owner EXCEPT ![m] = NULL],
           lock' = [lock EXCEPT ![m] = 0],
           NEW rest \in Seq(Mutex),
           mutexQueue' = [mutexQueue EXCEPT ![t] = rest],
           IsInjective(rest),
           Range(rest) = Range(mutexQueue[t]) \ {m}
    PROVE  OwnershipInv'
<1>1. OwnershipType'
  BY MutexAssumption DEF OwnershipInv, OwnershipType
<1>2. \A n \in Mutex : (owner'[n] = NULL) <=> (lock'[n] = 0)
  BY DEF OwnershipInv, OwnershipType, OwnershipExact
<1>3. ASSUME NEW u \in Thread
      PROVE  /\ Range(mutexQueue'[u]) = {n \in Mutex : owner'[n] = u}
             /\ IsInjective(mutexQueue'[u])
  <2>1. CASE u = t
    <3>1. mutexQueue'[u] = rest
      BY <2>1 DEF OwnershipInv, OwnershipType
    <3>2. {n \in Mutex : owner'[n] = u} = {n \in Mutex : owner[n] = t} \ {m}
      BY <2>1, KernelAssumption DEF OwnershipInv, OwnershipType
    <3> QED
      BY <3>1, <3>2 DEF OwnershipInv, OwnershipExact
  <2>2. CASE u # t
    <3>1. mutexQueue'[u] = mutexQueue[u]
      BY <2>2 DEF OwnershipInv, OwnershipType
    <3>2. {n \in Mutex : owner'[n] = u} = {n \in Mutex : owner[n] = u}
      BY <2>2, KernelAssumption DEF OwnershipInv, OwnershipType
    <3> QED
      BY <3>1, <3>2 DEF OwnershipInv, OwnershipExact
  <2> QED
    BY <2>1, <2>2
<1> QED
  BY <1>1, <1>2, <1>3 DEF OwnershipInv, OwnershipExact

\* The depth of a recursive lock changes and stays positive.
LEMMA DepthOwnership ==
    ASSUME OwnershipInv, NEW m \in Mutex, owner[m] # NULL,
           NEW n \in 1 .. MaxLock,
           lock' = [lock EXCEPT ![m] = n],
           UNCHANGED <<owner, mutexQueue>>
    PROVE  OwnershipInv'
<1>1. OwnershipType'
  BY DEF OwnershipInv, OwnershipType
<1>2. \A l \in Mutex : (owner'[l] = NULL) <=> (lock'[l] = 0)
  BY DEF OwnershipInv, OwnershipType, OwnershipExact
<1> QED
  BY <1>1, <1>2 DEF OwnershipInv, OwnershipExact

\* The owner of a mutex locks it once more.
LEMMA LockAgainOwnership ==
    ASSUME OwnershipInv, NEW m \in Mutex, k.current \in Thread, LockAgain(m)
    PROVE  OwnershipInv'
<1>1. owner[m] # NULL
  BY KernelAssumption DEF LockAgain
<1>2. lock[m] + 1 \in 1 .. MaxLock
  BY MutexAssumption DEF LockAgain, OwnershipInv, OwnershipType
<1> QED
  BY <1>1, <1>2, DepthOwnership DEF LockAgain

\* A step that leaves the mutex fields alone.
LEMMA UnchangedOwnership ==
    ASSUME OwnershipInv, UNCHANGED mutexVars
    PROVE  OwnershipInv'
BY DEF OwnershipInv, OwnershipType, OwnershipExact, mutexVars

\* The actions of OSMutex.
LEMMA MutexNextOwnership ==
    ASSUME OwnershipInv, MutexNext
    PROVE  OwnershipInv'
<1>1. ASSUME NEW m \in Mutex, OSLockMutex(m) PROVE OwnershipInv'
  <2>0. k.current \in Thread
    BY <1>1 DEF OSLockMutex, Call, InUserCode
  <2>1. CASE owner[m] = NULL /\ TakeMutex(m, k.current)
    BY <2>0, <2>1, TakeMutexOwnership
  <2>2. CASE LockAgain(m)
    BY <2>0, <2>2, LockAgainOwnership
  <2>3. CASE BlockOnMutex(m, k)
    BY <2>3, UnchangedOwnership DEF BlockOnMutex
  <2> QED
    BY <1>1, <2>1, <2>2, <2>3 DEF OSLockMutex
<1>2. ASSUME NEW m \in Mutex, OSLockMutexRetry(m) PROVE OwnershipInv'
  <2> DEFINE awake == [k EXCEPT !.mutex[k.current] = NULL]
  <2>0. k.current \in Thread
    BY <1>2 DEF OSLockMutexRetry, Continues
  <2>1. CASE owner[m] = NULL /\ TakeMutex(m, k.current)
    BY <2>0, <2>1, TakeMutexOwnership
  <2>2. CASE BlockOnMutex(m, awake)
    BY <2>2, UnchangedOwnership DEF BlockOnMutex
  <2> QED
    BY <1>2, <2>1, <2>2 DEF OSLockMutexRetry
<1>3. ASSUME NEW m \in Mutex, OSTryLockMutex(m) PROVE OwnershipInv'
  <2>0. k.current \in Thread
    BY <1>3 DEF OSTryLockMutex, Call, InUserCode
  <2>1. CASE owner[m] = NULL /\ TakeMutex(m, k.current)
    BY <2>0, <2>1, TakeMutexOwnership
  <2>2. CASE LockAgain(m)
    BY <2>0, <2>2, LockAgainOwnership
  <2> QED
    BY <1>3, <2>1, <2>2 DEF OSTryLockMutex
<1>4. ASSUME NEW m \in Mutex, OSUnlockMutex(m) PROVE OwnershipInv'
  <2> DEFINE t == k.current
  <2> DEFINE rest == Unlink(mutexQueue[t], m)
  <2>0. t \in Thread /\ owner[m] = t
    BY <1>4 DEF OSUnlockMutex, Call, InUserCode
  <2>1. CASE ReleaseMutex(m)
    <3>1. m \in Range(mutexQueue[t])
      BY <2>0 DEF OwnershipInv, OwnershipExact
    <3>2. /\ rest \in Seq(Mutex)
          /\ IsInjective(rest)
          /\ Range(rest) = Range(mutexQueue[t]) \ {m}
      BY <2>0, <3>1, UnlinkProperties
         DEF OwnershipInv, OwnershipType, OwnershipExact
    <3>3. /\ owner' = [owner EXCEPT ![m] = NULL]
          /\ lock' = [lock EXCEPT ![m] = 0]
          /\ mutexQueue' = [mutexQueue EXCEPT ![t] = rest]
      BY <2>1 DEF ReleaseMutex
    <3> HIDE DEF rest
    <3> QED
      BY <2>0, <3>2, <3>3, FreeMutexOwnership
  <2>2. CASE /\ lock[m] > 1
             /\ lock' = [lock EXCEPT ![m] = @ - 1]
             /\ UNCHANGED <<k, owner, mutexQueue, pc>>
    <3>1. lock[m] - 1 \in 1 .. MaxLock
      BY <2>2, MutexAssumption DEF OwnershipInv, OwnershipType
    <3>2. owner[m] # NULL
      BY <2>0, KernelAssumption
    <3>3. lock' = [lock EXCEPT ![m] = lock[m] - 1]
      BY <2>2
    <3> QED
      BY <2>2, <3>1, <3>2, <3>3, DepthOwnership
  <2> QED
    BY <1>4, <2>1, <2>2 DEF OSUnlockMutex
<1>5. ASSUME NEW t \in Thread, __OSUnlockAllMutex(t) PROVE OwnershipInv'
  <2> DEFINE m == Head(mutexQueue[t])
  <2> DEFINE rest == Tail(mutexQueue[t])
  <2>1. /\ owner' = [owner EXCEPT ![m] = NULL]
        /\ lock' = [lock EXCEPT ![m] = 0]
        /\ mutexQueue' = [mutexQueue EXCEPT ![t] = rest]
        /\ mutexQueue[t] # <<>>
    BY <1>5 DEF __OSUnlockAllMutex
  <2>2. /\ m \in Range(mutexQueue[t])
        /\ rest \in Seq(Mutex)
        /\ IsInjective(rest)
        /\ Range(rest) = Range(mutexQueue[t]) \ {m}
    BY <2>1, TailProperties DEF OwnershipInv, OwnershipType, OwnershipExact
  <2>3. m \in Mutex /\ owner[m] = t
    BY <2>2 DEF OwnershipInv, OwnershipExact
  <2> HIDE DEF m, rest
  <2> QED
    BY <2>1, <2>2, <2>3, FreeMutexOwnership
<1> QED
  BY <1>1, <1>2, <1>3, <1>4, <1>5 DEF MutexNext

\* The actions of OSThread leave the mutexes alone.
LEMMA ThreadNextOwnership ==
    ASSUME OwnershipInv, ThreadNext
    PROVE  OwnershipInv'
<1>1. CASE \/ OSExitThread \/ OSYieldThread
           \/ OSSleepTicks \/ OSSleepTicksReturn
           \/ OSDisableScheduler \/ OSEnableScheduler \/ IdleLoopEnd
  BY <1>1, UnchangedOwnership
     DEF OSExitThread, OSYieldThread, OSSleepTicks, OSSleepTicksReturn,
         OSDisableScheduler, OSEnableScheduler, IdleLoopEnd
<1>2. ASSUME NEW t \in Thread,
             \/ OSCreateThread(t) \/ OSCancelThread(t) \/ TerminateEnd(t)
             \/ OSJoinThread(t) \/ OSJoinThreadReturn(t) \/ OSDetachThread(t)
             \/ OSResumeThread(t) \/ OSSuspendThread(t)
             \/ OSSetThreadPriority(t) \/ InterruptResume(t)
             \/ SleepAlarmHandler(t)
      PROVE  UNCHANGED mutexVars
  BY <1>2
     DEF OSCreateThread, OSCancelThread, TerminateEnd, OSJoinThread,
         OSJoinThreadReturn, OSDetachThread, OSResumeThread, OSSuspendThread,
         OSSetThreadPriority, InterruptResume, SleepAlarmHandler
<1>3. ASSUME NEW u \in UserQueue,
             OSSleepThread(u) \/ OSWakeupThread(u) \/ InterruptWakeup(u)
      PROVE  UNCHANGED mutexVars
  BY <1>3 DEF OSSleepThread, OSWakeupThread, InterruptWakeup
<1> QED
  BY <1>1, <1>2, <1>3, UnchangedOwnership DEF ThreadNext

\* Mutual exclusion in every reachable state of the kernel: the owner of each
\* mutex, its lock count and the mutex queues of the threads agree
\* (OSLockMutex, OSUnlockMutex, OSTryLockMutex and __OSUnlockAllMutex, with
\* every other call of OSThread.c interleaved).
THEOREM MutualExclusion == Spec => []OwnershipExact
<1>1. Init => OwnershipInv
  BY OwnershipInit
<1>2. OwnershipInv /\ [Next]_vars => OwnershipInv'
  <2> SUFFICES ASSUME OwnershipInv, [Next]_vars PROVE OwnershipInv'
    OBVIOUS
  <2>1. CASE ThreadNext
    BY <2>1, ThreadNextOwnership
  <2>2. CASE MutexNext
    BY <2>2, MutexNextOwnership
  <2>3. CASE UNCHANGED vars
    BY <2>3, UnchangedOwnership DEF vars, mutexVars
  <2> QED
    BY <2>1, <2>2, <2>3 DEF Next
<1>3. OwnershipInv => OwnershipExact
  BY DEF OwnershipInv
<1> QED
  BY <1>1, <1>2, <1>3, PTL DEF Spec

-----------------------------------------------------------------------------
(* The inductive invariant.  It is a statement about the scheduler's data,   *)
(* the code the threads are in, the owners and the mutexes that threads own, *)
(* so that it can be carried through a call function by function.            *)

Codes ==
    {UserCode, SleepingTicks} \cup {Locking(m) : m \in Mutex}
        \cup {Joining(u) : u \in Thread} \cup {Terminating(u) : u \in Thread}

\* The current thread runs, but for one that is ending itself; the scheduler
\* is disabled only by a thread that goes on.
ProcessorExact(kk, pp) ==
    /\ kk.Reschedule \in 0 .. 1
    /\ kk.current \in Thread /\ pp[kk.current] # Terminating(kk.current)
         => kk.state[kk.current] = "RUNNING"
    /\ kk.Reschedule > 0
         => /\ kk.current \in Thread
            /\ \/ pp[kk.current] = UserCode
               \/ \E t \in Thread \ {kk.current} :
                    pp[kk.current] = Terminating(t)

\* The active queue holds the threads that are not gone, and a thread that is
\* ending itself has ended.
LivesExact(kk, pp) ==
    \A t \in Thread : /\ t \in kk.active <=> kk.state[t] # "EXITED"
                      /\ pp[t] = Terminating(t) => Terminated(kk, t)

AlarmsExact(kk, pp) ==
    \A t \in kk.alarms : ~Terminated(kk, t) /\ pp[t] = SleepingTicks

SuspendBounded(kk) == \A t \in Thread : kk.suspend[t] <= MaxSuspend

\* Somebody carries on what is left of the end of t.
EndsFollowed(kk, pp, mq) ==
    \A t \in Thread :
      Terminated(kk, t) /\ (mq[t] # <<>> \/ ~NoSleeper(kk, JoinQueue(t)))
        => \E u \in Thread : pp[u] = Terminating(t)

WaitersOwned(kk, ow) ==
    \A m \in Mutex : ow[m] = NULL => NoSleeper(kk, MutexWait(m))

Consistent(kk, pp, ow, mq) ==
    /\ Good(kk, {}) /\ pp = [t \in Thread |-> pp[t]]
    /\ ProcessorExact(kk, pp) /\ LivesExact(kk, pp) /\ AlarmsExact(kk, pp)
    /\ SuspendBounded(kk) /\ EndsFollowed(kk, pp, mq) /\ WaitersOwned(kk, ow)

\* The places in the kernel's code are different.
LEMMA CodeNames ==
  /\ NULL \notin Thread
  /\ \A t, u : Terminating(t) = Terminating(u) => t = u
  /\ \A t : Terminating(t) # UserCode /\ Terminating(t) # SleepingTicks
  /\ \A t, u : Terminating(t) # Locking(u) /\ Terminating(t) # Joining(u)
  /\ UserCode # SleepingTicks
  /\ \A t : Locking(t) # UserCode /\ Locking(t) # SleepingTicks
  /\ \A t : Joining(t) # UserCode /\ Joining(t) # SleepingTicks
<1>1. NULL \notin Thread
  BY KernelAssumption
<1>2. \A t, u : Terminating(t) = Terminating(u) => t = u
  BY DEF Terminating
<1>3. \A t : Terminating(t) # UserCode /\ Terminating(t) # SleepingTicks
  BY DEF Terminating, UserCode, SleepingTicks
<1>4. \A t, u : Terminating(t) # Locking(u) /\ Terminating(t) # Joining(u)
  BY DEF Terminating, Locking, Joining
<1>5. UserCode # SleepingTicks
  BY DEF UserCode, SleepingTicks
<1>6. \A t : Locking(t) # UserCode /\ Locking(t) # SleepingTicks
  BY DEF UserCode, SleepingTicks, Locking
<1>7. \A t : Joining(t) # UserCode /\ Joining(t) # SleepingTicks
  BY DEF UserCode, SleepingTicks, Joining
<1> QED
  BY <1>1, <1>2, <1>3, <1>4, <1>5, <1>6, <1>7

\* The current thread is never asleep.
LEMMA CurrentAwake ==
  ASSUME NEW kk, NEW pp, NEW ow, NEW mq, Consistent(kk, pp, ow, mq),
         kk.current \in Thread
  PROVE  kk.state[kk.current] # "SLEEPING"
BY DEF Consistent, ProcessorExact, LivesExact, Terminated

\* No thread ends, and none that has ended comes back.
SameEnds(kk, r) ==
    \A t \in Thread : Terminated(r, t) <=> Terminated(kk, t)

\* And nobody goes to sleep in a queue of the program.
Quiet(kk, r) ==
    /\ SameEnds(kk, r)
    /\ \A u \in UserQueue :
         NoSleeper(kk, WaitQueue(u)) => NoSleeper(r, WaitQueue(u))

\* A switch that has become necessary is made, or is remembered.
Kept(kk, r) ==
    /\ r.Reschedule = kk.Reschedule
    /\ Remembered(kk) => Remembered(r)
    /\ kk.Reschedule = 0 /\ Settled(kk) => Settled(r)

\* A function that ends with __OSReschedule loses no switch.
LEMMA SwitchKept ==
  ASSUME NEW kk, NEW r, Follows(kk, r),
         kk.Reschedule = 0 /\ Remembered(kk) => Settled(r)
  PROVE  Kept(kk, r)
BY DEF Kept, Follows, Frame, Settled, Remembered

\* Nor does one that changes nothing the switch depends on.
LEMMA SameKept ==
  ASSUME NEW kk, NEW r, r.current = kk.current, r.state = kk.state,
         r.priority = kk.priority, r.RunQueueBits = kk.RunQueueBits,
         r.RunQueueHint = kk.RunQueueHint, r.Reschedule = kk.Reschedule
  PROVE  Kept(kk, r)
BY DEF Kept, Settled, Remembered

\* One function after another.
LEMMA KeptTrans ==
  ASSUME NEW a, NEW b, NEW c, Kept(a, b), Kept(b, c)
  PROVE  Kept(a, c)
BY DEF Kept

\* Waking and switching keep the invariant.
LEMMA EvolveKeeps ==
  ASSUME NEW kk, NEW pp, NEW ow, NEW mq, Consistent(kk, pp, ow, mq),
         NEW r, Good(r, {}), Evolves(kk, r), SuspendBounded(r)
  PROVE  Consistent(r, pp, ow, mq) /\ Quiet(kk, r)
<1>1. ProcessorExact(r, pp)
  <2>1. r.Reschedule = kk.Reschedule
    BY DEF Evolves
  <2>2. r.current \in Thread /\ pp[r.current] # Terminating(r.current)
          => r.state[r.current] = "RUNNING"
    <3>1. CASE Fits(r)
      BY <3>1 DEF Fits
    <3>2. CASE /\ r.current = kk.current
               /\ r.state[r.current] = kk.state[r.current]
      BY <3>2 DEF Consistent, ProcessorExact
    <3> QED
      BY <3>1, <3>2 DEF Evolves
  <2>3. kk.Reschedule > 0 => r.current = kk.current
    BY DEF Evolves
  <2> QED
    BY <2>1, <2>2, <2>3 DEF Consistent, ProcessorExact
<1>2. \A t \in Thread : Terminated(r, t) <=> Terminated(kk, t)
  BY DEF Evolves, Terminated
<1>3. LivesExact(r, pp)
  <2>1. ASSUME NEW t \in Thread
        PROVE  r.state[t] = "EXITED" <=> kk.state[t] = "EXITED"
    BY DEF Evolves, Terminated
  <2> QED
    BY <1>2, <2>1 DEF Consistent, LivesExact, Evolves
<1>4. AlarmsExact(r, pp)
  <2>1. kk \in Kernel
    BY DEF Consistent, Good
  <2>2. kk.alarms \subseteq Thread
    BY <2>1, Fields
  <2> QED
    BY <1>2, <2>2 DEF Consistent, AlarmsExact, Evolves
<1>5. \A q : NoSleeper(kk, q) => NoSleeper(r, q)
  BY DEF Evolves, NoSleeper
<1>6. EndsFollowed(r, pp, mq)
  BY <1>2, <1>5 DEF Consistent, EndsFollowed
<1>7. WaitersOwned(r, ow)
  BY <1>5 DEF Consistent, WaitersOwned
<1> QED
  BY <1>1, <1>2, <1>3, <1>4, <1>5, <1>6, <1>7
     DEF Consistent, Quiet, SameEnds

\* So does every function that follows, suspending nobody.
LEMMA FollowKeeps ==
  ASSUME NEW kk, NEW pp, NEW ow, NEW mq, Consistent(kk, pp, ow, mq),
         NEW r, Good(r, {}), Follows(kk, r)
  PROVE  Consistent(r, pp, ow, mq) /\ Quiet(kk, r)
<1>1. Evolves(kk, r)
  BY FollowsEvolves
<1>2. kk.suspend \in [Thread -> Nat] /\ r.suspend \in [Thread -> Nat]
      /\ MaxSuspend \in Nat
  BY Fields, ThreadAssumption DEF Consistent, Good
<1>3. SuspendBounded(r)
  BY <1>2 DEF Follows, Consistent, SuspendBounded
<1> QED
  BY <1>1, <1>3, EvolveKeeps

\* Waking the threads of a queue.
LEMMA WakeupKeeps ==
  ASSUME NEW kk, NEW pp, NEW ow, NEW mq, Consistent(kk, pp, ow, mq),
         NEW q \in BlockingQueues, NEW r, r = WakeupThread(kk, q)
  PROVE  /\ Consistent(r, pp, ow, mq) /\ Quiet(kk, r)
         /\ Follows(kk, r) /\ NoSleeper(r, q)
         /\ kk.Reschedule = 0 /\ Remembered(kk) => Settled(r)
         /\ Kept(kk, r)
         /\ (\E u \in Thread : /\ kk.state[u] = "SLEEPING"
                               /\ kk.queue[u] = q /\ kk.suspend[u] = 0)
              => Remembered(r) /\ (kk.Reschedule = 0 => Settled(r))
<1>1. Good(kk, {})
  BY DEF Consistent
<1>2. kk.current \in Thread => kk.state[kk.current] # "SLEEPING"
  BY CurrentAwake
<1>3. /\ Good(r, {}) /\ Follows(kk, r) /\ NoSleeper(r, q)
      /\ kk.Reschedule = 0 /\ Remembered(kk) => Settled(r)
      /\ (\E u \in Thread : /\ kk.state[u] = "SLEEPING"
                            /\ kk.queue[u] = q /\ kk.suspend[u] = 0)
           => Remembered(r) /\ (kk.Reschedule = 0 => Settled(r))
  BY <1>1, <1>2, WakeupEffect
<1> QED
  BY <1>3, FollowKeeps, SwitchKept

\* The current thread sleeps where somebody will wake it.
LEMMA SleepKeeps ==
  ASSUME NEW kk, NEW pp, NEW ow, NEW mq, Consistent(kk, pp, ow, mq),
         NEW c \in Thread, c = kk.current, pp[c] # Terminating(c),
         kk.Reschedule = 0, NEW q \in BlockingQueues,
         \A m \in Mutex : q = MutexWait(m) => ow[m] # NULL,
         \A t \in Thread : q = JoinQueue(t) => ~Terminated(kk, t),
         NEW r, r = SleepThread(kk, q)
  PROVE  /\ Consistent(r, pp, ow, mq) /\ SameEnds(kk, r)
         /\ \A p : NoSleeper(kk, p) /\ p # q => NoSleeper(r, p)
         /\ Kept(kk, r) /\ Settled(r)
<1>1. Good(kk, {}) /\ kk.state[c] = "RUNNING"
  BY DEF Consistent, ProcessorExact
<1>2. /\ Good(r, {}) /\ Frame(kk, r) /\ Fits(r) /\ Settled(r)
      /\ \A t \in Thread :
           /\ r.suspend[t] <= kk.suspend[t]
           /\ Terminated(kk, t) \/ Terminated(r, t)
                => r.state[t] = kk.state[t]
           /\ r.state[t] = "SLEEPING" =>
                \/ kk.state[t] = "SLEEPING" /\ r.queue[t] = kk.queue[t]
                \/ t = c /\ r.queue[t] = q
  BY <1>1, SleepEffect
<1>3. ProcessorExact(r, pp)
  BY <1>2 DEF Frame, Fits, ProcessorExact
<1>4. \A t \in Thread : Terminated(r, t) <=> Terminated(kk, t)
  BY <1>2 DEF Terminated
<1>5. LivesExact(r, pp)
  <2>1. ASSUME NEW t \in Thread
        PROVE  r.state[t] = "EXITED" <=> kk.state[t] = "EXITED"
    BY <1>2 DEF Terminated
  <2> QED
    BY <1>2, <1>4, <2>1 DEF Consistent, LivesExact, Frame
<1>6. AlarmsExact(r, pp)
  <2>1. kk.alarms \subseteq Thread
    BY <1>1, Fields DEF Good
  <2> QED
    BY <1>2, <1>4, <2>1 DEF Consistent, AlarmsExact, Frame
<1>7. SuspendBounded(r)
  <2>1. kk.suspend \in [Thread -> Nat] /\ r.suspend \in [Thread -> Nat]
        /\ MaxSuspend \in Nat
    BY <1>1, <1>2, Fields, ThreadAssumption DEF Good
  <2> QED
    BY <1>2, <2>1 DEF Consistent, SuspendBounded
<1>8. \A p : NoSleeper(kk, p) /\ p # q => NoSleeper(r, p)
  BY <1>2 DEF NoSleeper
<1>9. EndsFollowed(r, pp, mq)
  <2> SUFFICES ASSUME NEW t \in Thread, Terminated(r, t),
                      mq[t] # <<>> \/ ~NoSleeper(r, JoinQueue(t))
               PROVE  \E u \in Thread : pp[u] = Terminating(t)
    BY DEF EndsFollowed
  <2>1. Terminated(kk, t) /\ JoinQueue(t) # q
    BY <1>4
  <2> QED
    BY <1>8, <2>1 DEF Consistent, EndsFollowed
<1>10. WaitersOwned(r, ow)
  BY <1>8 DEF Consistent, WaitersOwned
<1>11. Kept(kk, r)
  BY <1>2 DEF Kept, Frame, Settled, Remembered
<1> QED
  BY <1>2, <1>3, <1>4, <1>5, <1>6, <1>7, <1>8, <1>9, <1>10, <1>11
     DEF Consistent, SameEnds

\* The running thread goes on to another place of the code, and leaves no end
\* of a thread undone.
LEMMA CodeKeeps ==
  ASSUME NEW kk, NEW pp, NEW ow, NEW mq, Consistent(kk, pp, ow, mq),
         NEW c \in Thread, NEW at, \A t : at # Terminating(t),
         c = kk.current =>
           /\ kk.state[c] = "RUNNING"
           /\ kk.Reschedule = 0 \/ at = UserCode,
         c \in kk.alarms => at = SleepingTicks,
         \A t \in Thread : pp[c] = Terminating(t) /\ Terminated(kk, t)
           => mq[t] = <<>> /\ NoSleeper(kk, JoinQueue(t)),
         NEW new, new = [pp EXCEPT ![c] = at]
  PROVE  Consistent(kk, new, ow, mq)
<1>1. /\ new = [u \in Thread |-> new[u]] /\ new[c] = at
      /\ \A t \in Thread \ {c} : new[t] = pp[t]
  BY DEF Consistent
<1>2. kk.current \in Thread \cup {NULL} /\ kk.alarms \subseteq Thread
  BY Fields DEF Consistent, Good
<1>3. ProcessorExact(kk, new)
  <2>1. CASE c = kk.current
    <3>1. kk.Reschedule > 0 => new[kk.current] = UserCode
      BY <1>1, <2>1
    <3> QED
      BY <2>1, <3>1 DEF Consistent, ProcessorExact
  <2>2. CASE c # kk.current
    <3>1. kk.current \in Thread => new[kk.current] = pp[kk.current]
      BY <1>1, <2>2
    <3> QED
      BY <3>1 DEF Consistent, ProcessorExact
  <2> QED
    BY <2>1, <2>2
<1>4. LivesExact(kk, new)
  BY <1>1 DEF Consistent, LivesExact
<1>5. AlarmsExact(kk, new)
  BY <1>1, <1>2 DEF Consistent, AlarmsExact
<1>6. EndsFollowed(kk, new, mq)
  <2> SUFFICES ASSUME NEW t \in Thread, Terminated(kk, t),
                      mq[t] # <<>> \/ ~NoSleeper(kk, JoinQueue(t))
               PROVE  \E u \in Thread : new[u] = Terminating(t)
    BY DEF EndsFollowed
  <2>1. PICK u \in Thread : pp[u] = Terminating(t)
    BY DEF Consistent, EndsFollowed
  <2>2. u # c
    BY <2>1
  <2> QED
    BY <1>1, <2>1, <2>2
<1> QED
  BY <1>1, <1>3, <1>4, <1>5, <1>6 DEF Consistent

\* The end of a thread puts nobody to sleep.
LEMMA EndedSleeps ==
  ASSUME NEW kk, NEW r, NEW t \in Thread, Ended(kk, r, t)
  PROVE  \A q : NoSleeper(kk, q) => NoSleeper(r, q)
<1> SUFFICES ASSUME NEW q, NoSleeper(kk, q), NEW u \in Thread,
                    r.state[u] = "SLEEPING"
             PROVE  r.queue[u] # q
  BY DEF NoSleeper
<1>1. u # t
  BY DEF Ended, Terminated
<1> QED
  BY <1>1 DEF Ended, NoSleeper

\* A thread ends another one, or itself.
LEMMA EndKeeps ==
  ASSUME NEW kk, NEW pp, NEW ow, NEW mq, Consistent(kk, pp, ow, mq),
         NEW c \in Thread, c = kk.current, pp[c] = UserCode,
         NEW t \in Thread, t \notin kk.alarms,
         t = c => kk.Reschedule = 0,
         NEW r, Good(r, {}), Ended(kk, r, t),
         NEW new, new = [pp EXCEPT ![c] = Terminating(t)]
  PROVE  Consistent(r, new, ow, mq)
<1>1. /\ new = [u \in Thread |-> new[u]] /\ new[c] = Terminating(t)
      /\ \A u \in Thread \ {c} : new[u] = pp[u]
  BY DEF Consistent
<1>2. kk.current \in Thread \cup {NULL} /\ kk.alarms \subseteq Thread
  BY Fields DEF Consistent, Good
<1>3. kk.state[c] = "RUNNING" /\ c \notin kk.alarms
  BY CodeNames DEF Consistent, ProcessorExact, AlarmsExact
<1>4. ProcessorExact(r, new)
  <2>1. CASE t = c
    BY <1>1, <2>1 DEF Consistent, ProcessorExact, Ended
  <2>2. CASE t # c
    <3>1. r.state[c] = "RUNNING" /\ r.current = c
      BY <1>3, <2>2 DEF Ended
    <3>2. \E u \in Thread \ {c} : new[c] = Terminating(u)
      BY <1>1, <2>2
    <3> QED
      BY <3>1, <3>2 DEF Consistent, ProcessorExact, Ended
  <2> QED
    BY <2>1, <2>2
<1>5. \A u \in Thread \ {t} : Terminated(r, u) <=> Terminated(kk, u)
  BY DEF Ended, Terminated
<1>6. LivesExact(r, new)
  <2> SUFFICES ASSUME NEW u \in Thread
               PROVE  /\ u \in r.active <=> r.state[u] # "EXITED"
                      /\ new[u] = Terminating(u) => Terminated(r, u)
    BY DEF LivesExact
  <2>1. CASE u = t
    BY <2>1 DEF Ended
  <2>2. CASE u # t
    <3>1. u \in r.active <=> r.state[u] # "EXITED"
      BY <2>2 DEF Ended, Consistent, LivesExact
    <3>2. new[u] = Terminating(u) => Terminated(r, u)
      <4>1. CASE u = c
        BY <1>1, <2>2, <4>1, CodeNames
      <4>2. CASE u # c
        BY <1>1, <1>5, <2>2, <4>2 DEF Consistent, LivesExact
      <4> QED
        BY <4>1, <4>2
    <3> QED
      BY <3>1, <3>2
  <2> QED
    BY <2>1, <2>2
<1>7. AlarmsExact(r, new)
  BY <1>1, <1>2, <1>3, <1>5 DEF Consistent, AlarmsExact, Ended
<1>8. SuspendBounded(r)
  BY DEF Consistent, SuspendBounded, Ended
<1>9. \A q : NoSleeper(kk, q) => NoSleeper(r, q)
  BY EndedSleeps
<1>10. EndsFollowed(r, new, mq)
  <2> SUFFICES ASSUME NEW u \in Thread, Terminated(r, u),
                      mq[u] # <<>> \/ ~NoSleeper(r, JoinQueue(u))
               PROVE  \E v \in Thread : new[v] = Terminating(u)
    BY DEF EndsFollowed
  <2>1. CASE u = t
    BY <1>1, <2>1
  <2>2. CASE u # t
    <3>1. PICK v \in Thread : pp[v] = Terminating(u)
      BY <1>5, <1>9, <2>2 DEF Consistent, EndsFollowed
    <3>2. v # c
      BY <3>1, CodeNames
    <3> QED
      BY <1>1, <3>1, <3>2
  <2> QED
    BY <2>1, <2>2
<1>11. WaitersOwned(r, ow)
  BY <1>9 DEF Consistent, WaitersOwned
<1> QED
  BY <1>1, <1>4, <1>6, <1>7, <1>8, <1>10, <1>11 DEF Consistent

\* A mutex is freed only when nobody sleeps on it, and no thread that is gone
\* gets a mutex.
LEMMA OwnersKeep ==
  ASSUME NEW kk, NEW pp, NEW ow, NEW mq, Consistent(kk, pp, ow, mq),
         NEW ow1, NEW mq1,
         \A m \in Mutex : ow1[m] = NULL
           => ow[m] = NULL \/ NoSleeper(kk, MutexWait(m)),
         \A t \in Thread : mq1[t] # <<>> => mq[t] # <<>> \/ ~Terminated(kk, t)
  PROVE  Consistent(kk, pp, ow1, mq1)
<1>1. WaitersOwned(kk, ow1)
  BY DEF Consistent, WaitersOwned
<1>2. EndsFollowed(kk, pp, mq1)
  BY DEF Consistent, EndsFollowed
<1> QED
  BY <1>1, <1>2 DEF Consistent

\* The fields that decide about no place may change.
LEMMA FieldsKeep ==
  ASSUME NEW kk, NEW pp, NEW ow, NEW mq, Consistent(kk, pp, ow, mq),
         NEW r \in Kernel, r.q = kk.q, r.RunQueueBits = kk.RunQueueBits,
         r.current = kk.current, r.state = kk.state, r.suspend = kk.suspend,
         r.priority = kk.priority, r.queue = kk.queue, r.active = kk.active,
         r.Reschedule = kk.Reschedule, r.alarms \subseteq kk.alarms
  PROVE  Consistent(r, pp, ow, mq) /\ Quiet(kk, r)
<1>1. Good(r, {})
  <2> DEFINE L == {}
  <2>1. Good(kk, L)
    BY DEF Consistent
  <2>2. \A u \in Thread :
          /\ SameAt(kk, r, u)
          /\ u \notin L /\ r.state[u] = "RUNNING" => u = r.current
    BY <2>1 DEF SameAt, Good, Sound
  <2> HIDE DEF L
  <2>3. Good(r, L)
    BY <2>1, <2>2, Unmoved
  <2> QED
    BY <2>3 DEF L
<1>2. Evolves(kk, r)
  BY DEF Evolves, Terminated
<1>3. SuspendBounded(r)
  BY DEF Consistent, SuspendBounded
<1> QED
  BY <1>1, <1>2, <1>3, EvolveKeeps

\* A thread that has ended leaves the active queue.
LEMMA ReapKeeps ==
  ASSUME NEW kk, NEW pp, NEW ow, NEW mq, Consistent(kk, pp, ow, mq),
         NEW t \in Thread, kk.state[t] = "MORIBUND",
         NEW r, r = Reap(kk, t)
  PROVE  /\ Consistent(r, pp, ow, mq) /\ Quiet(kk, r)
         /\ r.current = kk.current
         /\ r.Reschedule = kk.Reschedule /\ r.alarms = kk.alarms
         /\ Kept(kk, r)
         /\ \A u \in Thread \ {t} : r.state[u] = kk.state[u]
<1> DEFINE st == [kk.state EXCEPT ![t] = "EXITED"]
           ac == kk.active \ {t}
<1>1. kk \in Kernel
  BY DEF Consistent, Good
<1>2. r = [kk EXCEPT !.active = ac, !.state = st]
  BY <1>1 DEF Reap, Kernel
<1>3. st \in [Thread -> States] /\ st[t] = "EXITED"
      /\ \A u \in Thread \ {t} : st[u] = kk.state[u]
  <2>1. kk.state \in [Thread -> States] /\ "EXITED" \in States
    BY <1>1, Fields DEF States
  <2> QED
    BY <2>1
<1>4. ac \in SUBSET Thread /\ t \notin ac
      /\ \A u \in Thread \ {t} : u \in ac <=> u \in kk.active
  <2>1. kk.active \in SUBSET Thread
    BY <1>1, Fields
  <2> QED
    BY <2>1
<1> HIDE DEF st, ac
<1>5. r \in Kernel
  BY <1>1, <1>2, <1>3, <1>4 DEF Kernel
<1>6. /\ r.q = kk.q /\ r.RunQueueBits = kk.RunQueueBits
      /\ r.current = kk.current /\ r.state = st /\ r.active = ac
      /\ r.suspend = kk.suspend /\ r.priority = kk.priority
      /\ r.queue = kk.queue /\ r.RunQueueHint = kk.RunQueueHint
      /\ r.Reschedule = kk.Reschedule /\ r.alarms = kk.alarms
  BY <1>1, <1>2 DEF Kernel
<1>7. \A u \in Thread : Terminated(r, u) <=> Terminated(kk, u)
  BY <1>3, <1>6 DEF Terminated
<1>8. \A u \in Thread : /\ r.state[u] = "RUNNING" <=> kk.state[u] = "RUNNING"
                        /\ r.state[u] = "READY" <=> kk.state[u] = "READY"
                        /\ r.state[u] = "SLEEPING" <=> kk.state[u] = "SLEEPING"
  BY <1>3, <1>6
<1>9. Good(r, {})
  <2>1. Good(kk, {})
    BY DEF Consistent
  <2>2. \A u \in Thread, q \in Queues : In(r, q, u) <=> In(kk, q, u)
    BY <1>6, <1>8 DEF In
  <2>3. \A u \in Thread : Sound(kk, u)
    BY <2>1 DEF Good
  <2>4. \A u \in Thread : Sound(r, u)
    BY <1>6, <1>8, <2>3 DEF Sound
  <2>5. r.q = kk.q /\ r.RunQueueBits = kk.RunQueueBits
        /\ r.priority = kk.priority
    BY <1>6
  <2> QED
    BY <1>5, <2>1, <2>2, <2>4, <2>5, Alike
<1>10. ProcessorExact(r, pp)
  BY <1>6, <1>8 DEF Consistent, ProcessorExact
<1>11. LivesExact(r, pp)
  <2> SUFFICES ASSUME NEW u \in Thread
               PROVE  /\ u \in r.active <=> r.state[u] # "EXITED"
                      /\ pp[u] = Terminating(u) => Terminated(r, u)
    BY DEF LivesExact
  <2>1. CASE u = t
    BY <1>3, <1>4, <1>6, <2>1 DEF Terminated
  <2>2. CASE u # t
    BY <1>3, <1>4, <1>6, <1>7, <2>2 DEF Consistent, LivesExact
  <2> QED
    BY <2>1, <2>2
<1>12. AlarmsExact(r, pp)
  <2>1. kk.alarms \subseteq Thread
    BY <1>1, Fields
  <2> QED
    BY <1>6, <1>7, <2>1 DEF Consistent, AlarmsExact
<1>13. \A q : NoSleeper(kk, q) <=> NoSleeper(r, q)
  BY <1>6, <1>8 DEF NoSleeper
<1>14. EndsFollowed(r, pp, mq) /\ WaitersOwned(r, ow)
  BY <1>7, <1>13 DEF Consistent, EndsFollowed, WaitersOwned
<1>15. SuspendBounded(r)
  BY <1>6 DEF Consistent, SuspendBounded
<1>16. Consistent(r, pp, ow, mq)
  BY <1>9, <1>10, <1>11, <1>12, <1>14, <1>15 DEF Consistent
<1>17. Kept(kk, r)
  <2>1. kk.current \in Thread \cup {NULL} /\ NULL \notin Thread
    BY <1>1, Fields, CodeNames
  <2>2. kk.current \in Thread
          => (r.state[kk.current] = "RUNNING"
                <=> kk.state[kk.current] = "RUNNING")
    BY <1>8
  <2> QED
    BY <1>6, <2>1, <2>2 DEF Kept, Settled, Remembered
<1> QED
  BY <1>3, <1>6, <1>7, <1>13, <1>16, <1>17 DEF Quiet, SameEnds

\* The scheduler's data while a handler runs: only the count of
\* OSDisableScheduler is one higher, and an alarm may be off.
Raised(kk, up) ==
    /\ up \in Kernel /\ up.Reschedule = kk.Reschedule + 1
    /\ up.alarms \subseteq kk.alarms
    /\ up.q = kk.q /\ up.RunQueueBits = kk.RunQueueBits
    /\ up.current = kk.current /\ up.state = kk.state
    /\ up.suspend = kk.suspend /\ up.priority = kk.priority
    /\ up.queue = kk.queue /\ up.active = kk.active
    /\ up.RunQueueHint = kk.RunQueueHint

\* The scheduler's data does not depend on Reschedule.
LEMMA RaisedGood ==
  ASSUME NEW kk, Good(kk, {}), NEW up, Raised(kk, up)
  PROVE  Good(up, {})
<1> DEFINE L == {}
<1>1. Good(kk, L)
  OBVIOUS
<1>2. /\ up \in Kernel /\ up.q = kk.q /\ up.RunQueueBits = kk.RunQueueBits
      /\ \A u \in Thread :
           /\ SameAt(kk, up, u)
           /\ u \notin L /\ up.state[u] = "RUNNING" => u = up.current
  BY <1>1 DEF Raised, SameAt, Good, Sound
<1> HIDE DEF L
<1>3. Good(up, L)
  BY <1>1, <1>2, Unmoved
<1> QED
  BY <1>3 DEF L

\* What a handler does is followed by the dispatcher's __OSReschedule.
LEMMA HandlerKeeps ==
  ASSUME NEW kk, NEW pp, NEW ow, NEW mq, Consistent(kk, pp, ow, mq),
         NEW up, Raised(kk, up), NEW after, Good(after, {}),
         Follows(up, after),
         NEW r, r = __OSReschedule([after EXCEPT !.Reschedule = @ - 1])
  PROVE  /\ Consistent(r, pp, ow, mq) /\ Quiet(kk, r)
         /\ Remembered(kk) => Remembered(r)
         /\ kk.Reschedule = 0 /\ Remembered(kk) => Settled(r)
         /\ r.Reschedule = kk.Reschedule
         /\ \A q : NoSleeper(after, q) => NoSleeper(r, q)
<1> DEFINE n == after.Reschedule - 1
           down == [after EXCEPT !.Reschedule = n]
<1>1. /\ kk \in Kernel /\ up \in Kernel /\ after \in Kernel
      /\ kk.Reschedule \in Nat
  BY Fields DEF Consistent, Good, Raised
<1>2. after.Reschedule = kk.Reschedule + 1 /\ up.Reschedule > 0
  BY <1>1 DEF Follows, Frame, Raised
<1>3. n = kk.Reschedule
  BY <1>1, <1>2
<1>4. r = __OSReschedule(down)
  OBVIOUS
<1> HIDE DEF n
<1>5. down \in Kernel
  BY <1>1, <1>3 DEF Kernel
<1>6. /\ down.q = after.q /\ down.RunQueueBits = after.RunQueueBits
      /\ down.current = after.current /\ down.state = after.state
      /\ down.suspend = after.suspend /\ down.priority = after.priority
      /\ down.queue = after.queue /\ down.active = after.active
      /\ down.alarms = after.alarms
      /\ down.RunQueueHint = after.RunQueueHint /\ down.Reschedule = n
  BY <1>1 DEF Kernel
<1> HIDE DEF down
<1>7. Good(down, {})
  <2> DEFINE L == {}
  <2>1. Good(after, L)
    OBVIOUS
  <2>2. \A u \in Thread :
          /\ SameAt(after, down, u)
          /\ u \notin L /\ down.state[u] = "RUNNING" => u = down.current
    BY <1>6, <2>1 DEF SameAt, Good, Sound
  <2> HIDE DEF L
  <2>3. Good(down, L)
    BY <1>5, <1>6, <2>1, <2>2, Unmoved
  <2> QED
    BY <2>3 DEF L
<1>8. after.current = kk.current
  BY <1>2 DEF Follows, Raised
<1>9. Evolves(kk, down)
  <2>1. /\ down.Reschedule = kk.Reschedule /\ down.active = kk.active
        /\ down.alarms \subseteq kk.alarms
    BY <1>3, <1>6 DEF Follows, Frame, Raised
  <2>2. ASSUME NEW t \in Thread
        PROVE  /\ Terminated(kk, t) \/ Terminated(down, t)
                    => down.state[t] = kk.state[t]
               /\ down.state[t] = "SLEEPING"
                    => kk.state[t] = "SLEEPING" /\ down.queue[t] = kk.queue[t]
    BY <1>6 DEF Follows, Raised, Terminated
  <2>3. \/ Fits(down)
        \/ /\ down.current = kk.current
           /\ down.state[down.current] = kk.state[down.current]
    BY <1>6, <1>8 DEF Follows, Raised, Fits
  <2> QED
    BY <1>6, <1>8, <2>1, <2>2, <2>3 DEF Evolves
<1>10. SuspendBounded(down)
  <2>1. kk.suspend \in [Thread -> Nat] /\ after.suspend \in [Thread -> Nat]
        /\ MaxSuspend \in Nat
    BY <1>1, Fields, ThreadAssumption
  <2>2. \A t \in Thread : down.suspend[t] <= kk.suspend[t]
    BY <1>6 DEF Follows, Raised
  <2> QED
    BY <1>6, <2>1, <2>2 DEF Consistent, SuspendBounded
<1>11. Consistent(down, pp, ow, mq) /\ Quiet(kk, down)
  BY <1>7, <1>9, <1>10, EvolveKeeps
<1>12. /\ Good(r, {}) /\ Follows(down, r)
       /\ down.Reschedule = 0 /\ Remembered(down) => Settled(r)
  BY <1>4, <1>7, RescheduleEffect
<1>13. Consistent(r, pp, ow, mq) /\ Quiet(down, r)
  BY <1>11, <1>12, FollowKeeps
<1>14. Remembered(kk) => Remembered(down)
  <2>1. Remembered(kk) => Remembered(up)
    BY DEF Remembered, Raised
  <2>2. Remembered(up) => Remembered(after)
    BY DEF Follows
  <2>3. Remembered(after) => Remembered(down)
    BY <1>6 DEF Remembered
  <2> QED
    BY <2>1, <2>2, <2>3
<1>15. \A q : NoSleeper(after, q) => NoSleeper(r, q)
  BY <1>6, <1>12 DEF Follows, NoSleeper
<1> QED
  BY <1>3, <1>6, <1>11, <1>12, <1>13, <1>14, <1>15
     DEF Follows, Frame, Quiet, SameEnds

\* What OSCreateThread does to the thread t.
IsCreated(kk, r, t, p, d) ==
    r = [kk EXCEPT !.state[t] = "READY", !.detached = d, !.base[t] = p,
                   !.priority[t] = p, !.suspend[t] = 1, !.mutex[t] = NULL,
                   !.active = @ \cup {t}]

\* Only t has come back.
Reborn(kk, r, t) ==
    /\ \A u \in Thread \ {t} : Terminated(r, u) <=> Terminated(kk, u)
    /\ r.state[t] = "READY" /\ r.suspend[t] = 1
    /\ \A q : NoSleeper(kk, q) => NoSleeper(r, q)

SetFields(kk, st, d, ba, pr, su, mu, ac) ==
    [kk EXCEPT !.state = st, !.detached = d, !.base = ba, !.priority = pr,
               !.suspend = su, !.mutex = mu, !.active = ac]

\* The fields that OSCreateThread sets.
LEMMA CreateFields ==
  ASSUME NEW kk \in Kernel, NEW st \in [Thread -> States],
         NEW d \in SUBSET Thread, NEW ba \in [Thread -> Priority],
         NEW pr \in [Thread -> 0 .. OS_PRIORITY_MAX + 1],
         NEW su \in [Thread -> Nat], NEW mu \in [Thread -> Mutex \cup {NULL}],
         NEW ac \in SUBSET Thread,
         NEW r, r = SetFields(kk, st, d, ba, pr, su, mu, ac)
  PROVE  /\ r \in Kernel
         /\ r.q = kk.q /\ r.RunQueueBits = kk.RunQueueBits
         /\ r.current = kk.current /\ r.state = st /\ r.active = ac
         /\ r.suspend = su /\ r.priority = pr /\ r.queue = kk.queue
         /\ r.Reschedule = kk.Reschedule /\ r.alarms = kk.alarms
         /\ r.RunQueueHint = kk.RunQueueHint
<1>1. r \in Kernel
  BY DEF Kernel, SetFields
<1>2. /\ r.q = kk.q /\ r.RunQueueBits = kk.RunQueueBits
      /\ r.current = kk.current /\ r.state = st /\ r.active = ac
      /\ r.suspend = su /\ r.priority = pr /\ r.queue = kk.queue
      /\ r.Reschedule = kk.Reschedule /\ r.alarms = kk.alarms
      /\ r.RunQueueHint = kk.RunQueueHint
  BY DEF Kernel, SetFields
<1> QED
  BY <1>1, <1>2

\* A thread is created suspended, in storage that nothing refers to.
LEMMA CreateKeeps ==
  ASSUME NEW kk, NEW pp, NEW ow, NEW mq, Consistent(kk, pp, ow, mq),
         kk.current \in Thread, pp[kk.current] = UserCode,
         NEW t \in Thread, kk.state[t] = "EXITED",
         pp[t] \notin {Terminating(u) : u \in Thread},
         NEW p \in Priority, NEW d \in SUBSET Thread,
         NEW r, IsCreated(kk, r, t, p, d),
         NEW new, new = [pp EXCEPT ![t] = UserCode]
  PROVE  /\ Consistent(r, new, ow, mq)
         /\ Reborn(kk, r, t)
         /\ Kept(kk, r)
<1> DEFINE st == [kk.state EXCEPT ![t] = "READY"]
           ba == [kk.base EXCEPT ![t] = p]
           pr == [kk.priority EXCEPT ![t] = p]
           su == [kk.suspend EXCEPT ![t] = 1]
           mu == [kk.mutex EXCEPT ![t] = NULL]
           ac == kk.active \cup {t}
<1>1. kk \in Kernel
  BY DEF Consistent, Good
<1>2. r = SetFields(kk, st, d, ba, pr, su, mu, ac)
  BY <1>1 DEF Kernel, IsCreated, SetFields
<1>3. /\ st \in [Thread -> States] /\ st[t] = "READY"
      /\ \A u \in Thread \ {t} : st[u] = kk.state[u]
  <2>1. kk.state \in [Thread -> States] /\ "READY" \in States
    BY <1>1, Fields DEF States
  <2> QED
    BY <2>1
<1>4. ba \in [Thread -> Priority]
  BY <1>1, Fields
<1>5. /\ pr \in [Thread -> 0 .. OS_PRIORITY_MAX + 1]
      /\ \A u \in Thread \ {t} : pr[u] = kk.priority[u]
  <2>1. p \in 0 .. OS_PRIORITY_MAX + 1
    BY PriorityNumbers
  <2> QED
    BY <1>1, <2>1, Fields
<1>6. /\ su \in [Thread -> Nat] /\ su[t] = 1
      /\ \A u \in Thread \ {t} : su[u] = kk.suspend[u]
  BY <1>1, Fields
<1>7. mu \in [Thread -> Mutex \cup {NULL}]
  BY <1>1, Fields
<1>8. ac \in SUBSET Thread
  BY <1>1, Fields
<1>9. t \in ac /\ \A u \in Thread \ {t} : u \in ac <=> u \in kk.active
  OBVIOUS
<1> HIDE DEF st, ba, pr, su, mu, ac
<1>10. r \in Kernel
  BY <1>1, <1>2, <1>3, <1>4, <1>5, <1>6, <1>7, <1>8, CreateFields
<1>11. /\ r.q = kk.q /\ r.RunQueueBits = kk.RunQueueBits
       /\ r.current = kk.current /\ r.state = st /\ r.active = ac
       /\ r.suspend = su /\ r.priority = pr /\ r.queue = kk.queue
       /\ r.Reschedule = kk.Reschedule /\ r.alarms = kk.alarms
       /\ r.RunQueueHint = kk.RunQueueHint
  BY <1>1, <1>2, <1>3, <1>4, <1>5, <1>6, <1>7, <1>8, CreateFields
<1>12. \A u \in Thread \ {t} : SameAt(kk, r, u)
  BY <1>3, <1>5, <1>6, <1>11 DEF SameAt
<1>13. r.state[t] = "READY" /\ r.suspend[t] = 1
  BY <1>3, <1>6, <1>11
<1>14. Good(r, {})
  <2> DEFINE L == {}
  <2>1. Good(kk, L)
    BY DEF Consistent
  <2>2. \A u \in Thread \ {t} :
          /\ SameAt(kk, r, u) /\ (u \in L <=> u \in L)
          /\ u \notin L /\ r.state[u] = "RUNNING" => u = r.current
    BY <1>11, <1>12, <2>1 DEF SameAt, Good, Sound
  <2>3. /\ Sound(r, t) /\ \A q \in Queues : ~In(r, q, t)
        /\ \A q \in Queues : ~In(kk, q, t)
    BY <1>13 DEF Sound, In
  <2>4. r.q = kk.q /\ r.RunQueueBits = kk.RunQueueBits
    BY <1>11
  <2> HIDE DEF L
  <2>5. Good(r, L)
    BY <1>10, <2>1, <2>2, <2>3, <2>4, Change
  <2> QED
    BY <2>5 DEF L
<1>15. /\ new = [u \in Thread |-> new[u]] /\ new[t] = UserCode
       /\ \A u \in Thread \ {t} : new[u] = pp[u]
  BY DEF Consistent
<1>16. t # kk.current /\ kk.state[kk.current] = "RUNNING"
  BY CodeNames DEF Consistent, ProcessorExact
<1>17. \A u \in Thread \ {t} :
         /\ Terminated(r, u) <=> Terminated(kk, u)
         /\ r.state[u] = kk.state[u] /\ r.queue[u] = kk.queue[u]
  BY <1>12 DEF SameAt, Terminated
<1>18. ~Terminated(r, t) /\ Terminated(kk, t)
  BY <1>13 DEF Terminated
<1>19. ProcessorExact(r, new)
  BY <1>11, <1>15, <1>16, <1>17 DEF Consistent, ProcessorExact
<1>20. LivesExact(r, new)
  <2> SUFFICES ASSUME NEW u \in Thread
               PROVE  /\ u \in r.active <=> r.state[u] # "EXITED"
                      /\ new[u] = Terminating(u) => Terminated(r, u)
    BY DEF LivesExact
  <2>1. CASE u = t
    BY <1>9, <1>11, <1>13, <1>15, <2>1, CodeNames
  <2>2. CASE u # t
    BY <1>9, <1>11, <1>15, <1>17, <2>2 DEF Consistent, LivesExact
  <2> QED
    BY <2>1, <2>2
<1>21. AlarmsExact(r, new)
  <2>1. kk.alarms \subseteq Thread \ {t}
    BY <1>1, <1>18, Fields DEF Consistent, AlarmsExact
  <2> QED
    BY <1>11, <1>15, <1>17, <2>1 DEF Consistent, AlarmsExact
<1>22. SuspendBounded(r)
  <2>1. 1 <= MaxSuspend
    BY ThreadAssumption
  <2>2. \A u \in Thread \ {t} : r.suspend[u] = kk.suspend[u]
    BY <1>12 DEF SameAt
  <2> QED
    BY <1>13, <2>1, <2>2 DEF Consistent, SuspendBounded
<1>23. \A q : NoSleeper(kk, q) => NoSleeper(r, q)
  <2> SUFFICES ASSUME NEW q, NoSleeper(kk, q), NEW u \in Thread,
                      r.state[u] = "SLEEPING"
               PROVE  r.queue[u] # q
    BY DEF NoSleeper
  <2>1. u # t
    BY <1>13
  <2> QED
    BY <1>17, <2>1 DEF NoSleeper
<1>24. EndsFollowed(r, new, mq)
  <2> SUFFICES ASSUME NEW u \in Thread, Terminated(r, u),
                      mq[u] # <<>> \/ ~NoSleeper(r, JoinQueue(u))
               PROVE  \E v \in Thread : new[v] = Terminating(u)
    BY DEF EndsFollowed
  <2>1. u # t
    BY <1>18
  <2>2. PICK v \in Thread : pp[v] = Terminating(u)
    BY <1>17, <1>23, <2>1 DEF Consistent, EndsFollowed
  <2>3. v # t
    BY <2>2
  <2> QED
    BY <1>15, <2>2, <2>3
<1>25. WaitersOwned(r, ow)
  BY <1>23 DEF Consistent, WaitersOwned
<1>26. Consistent(r, new, ow, mq)
  BY <1>14, <1>15, <1>19, <1>20, <1>21, <1>22, <1>24, <1>25 DEF Consistent
<1>27. r.priority[kk.current] = kk.priority[kk.current]
       /\ r.state[kk.current] = kk.state[kk.current]
  BY <1>12, <1>16 DEF SameAt
<1>28. Remembered(kk) => Remembered(r)
  BY <1>11, <1>27 DEF Remembered
<1>29. Settled(kk) => Settled(r)
  BY <1>11, <1>27 DEF Settled
<1>30. Kept(kk, r)
  BY <1>11, <1>28, <1>29 DEF Kept
<1> QED
  BY <1>13, <1>17, <1>23, <1>26, <1>30 DEF Reborn

-----------------------------------------------------------------------------
(* The actions. *)

ConsistentNow == Consistent(k, pc, owner, mutexQueue)

\* The current thread, if it runs, is a most urgent one, but in the middle of
\* the end of another; as long as nobody disables the scheduler.
Prompt(kk, pp) ==
    /\ Remembered(kk)
    /\ "OSDisableScheduler" \notin Calls
         => /\ kk.Reschedule = 0
            /\ (\A t \in Thread : pp[kk.current] # Terminating(t))
                 => Settled(kk)

StaysPrompt == Prompt(k, pc) => Prompt(k', pc')

\* A function that loses no switch is enough in any other call.
LEMMA KeptPrompt ==
  ASSUME Kept(k, k'),
         k.current \in Thread => \A t : pc[k.current] # Terminating(t)
  PROVE  StaysPrompt
<1>1. ASSUME Prompt(k, pc), "OSDisableScheduler" \notin Calls
      PROVE  k.Reschedule = 0 /\ Settled(k)
  BY <1>1 DEF Prompt, Settled
<1> QED
  BY <1>1 DEF Prompt, StaysPrompt, Kept

\* In the end of a thread a remembered switch is enough.
LEMMA SwitchPrompt ==
  ASSUME Remembered(k) => Remembered(k'), k'.Reschedule = k.Reschedule,
         \/ k.Reschedule = 0 /\ Remembered(k) => Settled(k')
         \/ \E t \in Thread : pc'[k'.current] = Terminating(t)
  PROVE  StaysPrompt
BY DEF Prompt, StaysPrompt

\* A thread in the program's code runs.
LEMMA InUserCodeRuns ==
  ASSUME ConsistentNow, InUserCode
  PROVE  /\ k.current \in Thread /\ pc[k.current] = UserCode
         /\ k.state[k.current] = "RUNNING" /\ k.suspend[k.current] = 0
         /\ k.current \in k.active /\ ~Terminated(k, k.current)
         /\ k.current \notin k.alarms /\ k.priority[k.current] \in Priority
         /\ \A t : pc[k.current] # Terminating(t)
<1> DEFINE c == k.current
<1>1. c \in Thread /\ pc[c] = UserCode
  BY DEF InUserCode
<1>2. \A t : pc[c] # Terminating(t)
  BY <1>1, CodeNames
<1>3. k.state[c] = "RUNNING"
  BY <1>1, <1>2 DEF ConsistentNow, Consistent, ProcessorExact
<1>4. k.suspend[c] = 0 /\ k.priority[c] \in Priority
  BY <1>1, <1>3 DEF ConsistentNow, Consistent, Good, Sound
<1>5. c \in k.active /\ ~Terminated(k, c)
  BY <1>1, <1>3 DEF ConsistentNow, Consistent, LivesExact, Terminated
<1>6. c \notin k.alarms
  BY <1>1, CodeNames DEF ConsistentNow, Consistent, AlarmsExact
<1> QED
  BY <1>1, <1>2, <1>3, <1>4, <1>5, <1>6

\* The running thread begins a call, or ends the wait of one.
LEMMA RunningCode ==
  ASSUME ConsistentNow, k.current \in Thread, NEW at,
         \A t : at # Terminating(t), \A t : pc[k.current] # Terminating(t),
         k.Reschedule = 0 \/ at = UserCode,
         k.current \in k.alarms => at = SleepingTicks,
         pc' = [pc EXCEPT ![k.current] = at]
  PROVE  Consistent(k, pc', owner, mutexQueue)
<1>1. k.state[k.current] = "RUNNING"
  BY DEF ConsistentNow, Consistent, ProcessorExact
<1> QED
  BY <1>1, CodeKeeps DEF ConsistentNow

\* The places a thread can resume at.
LEMMA CodesMembers ==
  /\ UserCode \in Codes /\ SleepingTicks \in Codes
  /\ \A m \in Mutex : Locking(m) \in Codes
  /\ \A t \in Thread : Joining(t) \in Codes /\ Terminating(t) \in Codes
BY DEF Codes

\* OSCreateThread: the only call that makes a thread of one that has ended.
LEMMA CreateConsistent ==
  ASSUME ConsistentNow, NEW t \in Thread, OSCreateThread(t)
  PROVE  /\ ConsistentNow' /\ StaysPrompt /\ Reborn(k, k', t)
         /\ t \notin k.active /\ mutexQueue[t] = <<>>
<1>1. InUserCode /\ k.state[t] = "EXITED"
      /\ pc[t] \notin {Terminating(u) : u \in Thread}
  BY DEF OSCreateThread, Call, Reusable
<1>2. PICK prio \in Priorities, detached \in Detached :
         k' = [k EXCEPT !.state[t] = "READY",
                        !.detached = IF detached THEN @ \cup {t} ELSE @ \ {t},
                        !.base[t] = prio,
                        !.priority[t] = prio,
                        !.suspend[t] = 1,
                        !.mutex[t] = NULL,
                        !.active = @ \cup {t}]
  BY DEF OSCreateThread
<1> DEFINE d == IF detached THEN k.detached \cup {t} ELSE k.detached \ {t}
<1>3. d \in SUBSET Thread
  BY Fields DEF ConsistentNow, Consistent, Good
<1>4. IsCreated(k, k', t, prio, d)
  BY <1>2 DEF IsCreated
<1> HIDE DEF d
<1>5. pc' = [pc EXCEPT ![t] = UserCode]
      /\ owner' = owner /\ mutexQueue' = mutexQueue
  BY DEF OSCreateThread, Return, mutexVars
<1>6. k.current \in Thread /\ pc[k.current] = UserCode
  BY <1>1 DEF InUserCode
<1>7. prio \in Priority
  BY ThreadAssumption
<1>8. /\ Consistent(k', pc', owner, mutexQueue)
      /\ Reborn(k, k', t) /\ Kept(k, k')
  BY <1>1, <1>3, <1>4, <1>5, <1>6, <1>7, CreateKeeps DEF ConsistentNow
<1>9. StaysPrompt
  BY <1>6, <1>8, CodeNames, KeptPrompt
<1>10. t \notin k.active /\ mutexQueue[t] = <<>>
  BY DEF OSCreateThread, Reusable
<1> QED
  BY <1>5, <1>8, <1>9, <1>10 DEF ConsistentNow

\* OSExitThread, up to the unlocking of its mutexes.
LEMMA ExitConsistent ==
  ASSUME ConsistentNow, OSExitThread
  PROVE  /\ ConsistentNow' /\ StaysPrompt
         /\ k.current \in Thread /\ Ended(k, k', k.current)
<1> DEFINE c == k.current
<1>1. InUserCode /\ k.Reschedule = 0 /\ k' = Terminate(k, c)
      /\ pc' = [pc EXCEPT ![c] = Terminating(c)]
      /\ owner' = owner /\ mutexQueue' = mutexQueue
  BY DEF OSExitThread, Call, MayBlock, Resumes, mutexVars
<1>2. /\ c \in Thread /\ pc[c] = UserCode /\ k.state[c] = "RUNNING"
      /\ c \in k.active /\ c \notin k.alarms
  BY <1>1, InUserCodeRuns
<1>3. Good(k', {}) /\ Ended(k, k', c)
  BY <1>1, <1>2, ExitEffect DEF ConsistentNow, Consistent
<1>4. Consistent(k', pc', owner, mutexQueue)
  BY <1>1, <1>2, <1>3, EndKeeps DEF ConsistentNow
<1>5. StaysPrompt
  <2>1. pc'[c] = Terminating(c) /\ k'.current = c
    BY <1>1, <1>2, <1>3 DEF ConsistentNow, Consistent, Ended
  <2> QED
    BY <1>2, <1>3, <2>1, SwitchPrompt DEF Ended
<1> QED
  BY <1>1, <1>2, <1>3, <1>4, <1>5 DEF ConsistentNow

\* OSCancelThread, up to the unlocking of the mutexes.
LEMMA CancelConsistent ==
  ASSUME OwnershipType, ConsistentNow, NEW t \in Thread, OSCancelThread(t)
  PROVE  ConsistentNow' /\ StaysPrompt /\ Ended(k, k', t)
<1> DEFINE c == k.current
<1>1. /\ InUserCode /\ (t = c => k.Reschedule = 0)
      /\ ~Deadlocked(t) /\ t \notin k.alarms /\ ~Terminated(k, t)
      /\ k' = Terminate(Withdraw(k, t), t)
      /\ pc' = [pc EXCEPT ![c] = Terminating(t)]
      /\ owner' = owner /\ mutexQueue' = mutexQueue
  BY DEF OSCancelThread, Call, MayBlock, Resumes, mutexVars
<1>2. c \in Thread /\ pc[c] = UserCode
  BY <1>1 DEF InUserCode
<1>3. t \in k.active /\ Good(k, {})
  BY <1>1 DEF ConsistentNow, Consistent, LivesExact, Terminated
<1>4. Good(k', {}) /\ Ended(k, k', t)
  BY <1>1, <1>3, CancelEffect
<1>5. Consistent(k', pc', owner, mutexQueue)
  BY <1>1, <1>2, <1>4, EndKeeps DEF ConsistentNow
<1>6. StaysPrompt
  <2>1. pc'[c] = Terminating(t) /\ k'.current = c
    BY <1>1, <1>2, <1>4 DEF ConsistentNow, Consistent, Ended
  <2> QED
    BY <1>4, <2>1, SwitchPrompt DEF Ended
<1> QED
  BY <1>1, <1>4, <1>5, <1>6 DEF ConsistentNow

\* The hint of a switch may be set at any time.
LEMMA HintKeeps ==
  ASSUME NEW kk, NEW pp, NEW ow, NEW mq, Consistent(kk, pp, ow, mq),
         NEW r, r = [kk EXCEPT !.RunQueueHint = TRUE]
  PROVE  /\ Consistent(r, pp, ow, mq) /\ Quiet(kk, r) /\ r.RunQueueHint
         /\ r.current = kk.current /\ r.Reschedule = kk.Reschedule
         /\ r.state = kk.state /\ r.queue = kk.queue
<1>1. kk \in Kernel
  BY DEF Consistent, Good
<1>2. r \in Kernel
  BY <1>1 DEF Kernel
<1>3. /\ r.q = kk.q /\ r.RunQueueBits = kk.RunQueueBits
      /\ r.current = kk.current /\ r.state = kk.state
      /\ r.suspend = kk.suspend /\ r.priority = kk.priority
      /\ r.queue = kk.queue /\ r.active = kk.active
      /\ r.Reschedule = kk.Reschedule /\ r.alarms = kk.alarms
      /\ r.RunQueueHint
  BY <1>1 DEF Kernel
<1>4. r.alarms \subseteq kk.alarms
  BY <1>3
<1>5. Consistent(r, pp, ow, mq) /\ Quiet(kk, r)
  BY <1>2, <1>3, <1>4, FieldsKeep
<1> QED
  BY <1>3, <1>5

\* The rest of OSExitThread and OSCancelThread: the joiners wake, and a thread
\* that has ended itself gives the processor away.
LEMMA TerminateEndConsistent ==
  ASSUME ConsistentNow, NEW t \in Thread, TerminateEnd(t)
  PROVE  ConsistentNow' /\ StaysPrompt /\ Quiet(k, k')
<1> DEFINE c == k.current
           w == WakeupThread(k, JoinQueue(t))
           x == [w EXCEPT !.RunQueueHint = TRUE]
           leaves == c = t /\ w.current = t
<1>1. /\ c \in Thread /\ pc[c] = Terminating(t) /\ mutexQueue[t] = <<>>
      /\ k' = IF leaves THEN __OSReschedule(x) ELSE w
      /\ pc' = [pc EXCEPT ![c] = UserCode]
      /\ owner' = owner /\ mutexQueue' = mutexQueue
  BY DEF TerminateEnd, Continues, Return, mutexVars
<1>2. /\ Consistent(w, pc, owner, mutexQueue) /\ Follows(k, w)
      /\ NoSleeper(w, JoinQueue(t)) /\ Quiet(k, w)
      /\ k.Reschedule = 0 /\ Remembered(k) => Settled(w)
  <2>1. JoinQueue(t) \in BlockingQueues
    BY QueueNames
  <2> QED
    BY <2>1, WakeupKeeps DEF ConsistentNow
<1> HIDE DEF w
<1>3. /\ Consistent(k', pc, owner, mutexQueue)
      /\ NoSleeper(k', JoinQueue(t)) /\ Quiet(k, k')
      /\ c = k'.current => k'.state[c] = "RUNNING"
      /\ k.Reschedule = 0 /\ Remembered(k) => Settled(k')
      /\ k'.Reschedule = k.Reschedule /\ (Remembered(k) => Remembered(k'))
  <2>1. CASE leaves
    <3>1. /\ Consistent(x, pc, owner, mutexQueue) /\ x.RunQueueHint
          /\ Quiet(w, x)
          /\ x.current = w.current /\ x.Reschedule = w.Reschedule
          /\ x.state = w.state /\ x.queue = w.queue
      BY <1>2, HintKeeps
    <3>2. k' = __OSReschedule(x)
      BY <1>1, <2>1
    <3> HIDE DEF x
    <3>3. x.Reschedule = 0
      <4>1. \A u \in Thread \ {c} : pc[c] # Terminating(u)
        BY <1>1, <2>1, CodeNames
      <4>2. ~(k.Reschedule > 0)
        BY <1>1, <2>1, <4>1, CodeNames
           DEF ConsistentNow, Consistent, ProcessorExact
      <4>3. x.Reschedule = k.Reschedule /\ k.Reschedule \in 0 .. 1
        BY <1>2, <3>1
           DEF Follows, Frame, ConsistentNow, Consistent, ProcessorExact
      <4> QED
        BY <4>2, <4>3
    <3>4. Good(x, {})
      BY <3>1 DEF Consistent
    <3>5. Good(k', {}) /\ Follows(x, k') /\ Fits(k') /\ Settled(k')
      <4>1. Remembered(x)
        BY <3>1 DEF Remembered
      <4> QED
        BY <3>1, <3>2, <3>3, <3>4, <4>1, RescheduleEffect
    <3>6. Consistent(k', pc, owner, mutexQueue) /\ Quiet(x, k')
      BY <3>1, <3>5, FollowKeeps
    <3>7. NoSleeper(k', JoinQueue(t))
      BY <1>2, <3>1, <3>5 DEF Follows, NoSleeper
    <3>8. Quiet(k, k')
      BY <1>2, <3>1, <3>6 DEF Quiet, SameEnds
    <3>9. k'.Reschedule = k.Reschedule
      BY <1>2, <3>1, <3>5 DEF Follows, Frame
    <3>10. Remembered(k')
      BY <3>5 DEF Settled, Remembered
    <3> QED
      BY <1>1, <3>5, <3>6, <3>7, <3>8, <3>9, <3>10 DEF Fits
  <2>2. CASE ~leaves
    <3>1. k' = w /\ k'.Reschedule = k.Reschedule
          /\ (Remembered(k) => Remembered(k'))
      BY <1>1, <1>2, <2>2 DEF Follows, Frame
    <3>2. CASE c = t
      BY <1>2, <2>2, <3>1, <3>2
    <3>3. CASE c # t
      <4>1. pc[c] # Terminating(c)
        BY <1>1, <3>3, CodeNames
      <4>2. c = w.current => w.state[c] = "RUNNING"
        BY <1>1, <1>2, <4>1 DEF Consistent, ProcessorExact
      <4> QED
        BY <1>2, <3>1, <4>2
    <3> QED
      BY <3>2, <3>3
  <2> QED
    BY <2>1, <2>2
<1>4. c \notin k'.alarms
  BY <1>1, <1>3, CodeNames DEF Consistent, AlarmsExact
<1>5. \A u \in Thread : pc[c] = Terminating(u) /\ Terminated(k', u)
         => mutexQueue[u] = <<>> /\ NoSleeper(k', JoinQueue(u))
  BY <1>1, <1>3, CodeNames
<1>6. \A u : UserCode # Terminating(u)
  BY CodeNames
<1> HIDE DEF c
<1>7. Consistent(k', pc', owner, mutexQueue)
  BY <1>1, <1>3, <1>4, <1>5, <1>6, CodeKeeps
<1>8. StaysPrompt
  BY <1>3, SwitchPrompt
<1> QED
  BY <1>1, <1>3, <1>7, <1>8 DEF ConsistentNow

\* OSJoinThread: sleep on the join queue, or reap the thread.
LEMMA JoinConsistent ==
  ASSUME ConsistentNow, NEW t \in Thread, OSJoinThread(t)
  PROVE  ConsistentNow' /\ StaysPrompt /\ Quiet(k, k')
<1> DEFINE c == k.current
<1>1. /\ InUserCode /\ t \in k.active \ {c}
      /\ owner' = owner /\ mutexQueue' = mutexQueue
  BY DEF OSJoinThread, Call, mutexVars
<1>2. /\ c \in Thread /\ pc[c] = UserCode /\ k.state[c] = "RUNNING"
      /\ c \notin k.alarms /\ \A u : pc[c] # Terminating(u)
  BY <1>1, InUserCodeRuns
<1>3. CASE /\ k.state[t] # "MORIBUND" /\ k.Reschedule = 0
           /\ k' = SleepThread(k, JoinQueue(t))
           /\ pc' = [pc EXCEPT ![c] = Joining(t)]
  <2>1. Consistent(k, pc', owner, mutexQueue)
    <3>1. \A u : Joining(t) # Terminating(u)
      BY CodeNames
    <3> QED
      BY <1>2, <1>3, <3>1, RunningCode
  <2>2. pc'[c] # Terminating(c)
    <3>1. DOMAIN pc = Thread
      BY DEF ConsistentNow, Consistent
    <3> QED
      BY <1>2, <1>3, <3>1, CodeNames
  <2>3. /\ JoinQueue(t) \in BlockingQueues
        /\ \A m \in Mutex : JoinQueue(t) # MutexWait(m)
        /\ \A u \in Thread : JoinQueue(t) = JoinQueue(u) => u = t
    BY QueueNames
  <2>4. ~Terminated(k, t)
    BY <1>1, <1>3 DEF ConsistentNow, Consistent, LivesExact, Terminated
  <2> HIDE DEF c
  <2>5. /\ Consistent(k', pc', owner, mutexQueue) /\ SameEnds(k, k')
        /\ \A q : NoSleeper(k, q) /\ q # JoinQueue(t) => NoSleeper(k', q)
        /\ Kept(k, k')
    <3>1. c = k.current
      BY DEF c
    <3>2. \A m \in Mutex : JoinQueue(t) = MutexWait(m) => owner[m] # NULL
      BY <2>3
    <3>3. \A u \in Thread : JoinQueue(t) = JoinQueue(u) => ~Terminated(k, u)
      BY <2>3, <2>4
    <3> QED
      BY <1>2, <1>3, <2>1, <2>2, <2>3, <3>1, <3>2, <3>3, SleepKeeps, Zenon
  <2>6. StaysPrompt
    BY <1>2, <2>5, KeptPrompt DEF c
  <2>7. Quiet(k, k')
    BY <2>5, QueueNames DEF Quiet
  <2> QED
    BY <1>1, <2>5, <2>6, <2>7 DEF ConsistentNow
<1>4. CASE k.state[t] = "MORIBUND" /\ k' = Reap(k, t) /\ pc' = pc
  <2>1. /\ Consistent(k', pc, owner, mutexQueue) /\ Quiet(k, k')
        /\ Kept(k, k')
    BY <1>4, ReapKeeps DEF ConsistentNow
  <2>2. StaysPrompt
    BY <1>2, <2>1, KeptPrompt
  <2> QED
    BY <1>1, <1>4, <2>1, <2>2 DEF ConsistentNow
<1> QED
  BY <1>3, <1>4 DEF OSJoinThread, MayBlock, Resumes

\* A thread that has come back from a wait ends its call.
LEMMA ReturnKeeps ==
  ASSUME NEW kk, NEW pp, NEW ow, NEW mq, Consistent(kk, pp, ow, mq),
         NEW c \in Thread, c = kk.current, c \notin kk.alarms,
         \A t : pp[c] # Terminating(t),
         NEW new, new = [pp EXCEPT ![c] = UserCode]
  PROVE  Consistent(kk, new, ow, mq)
<1>1. kk.state[c] = "RUNNING"
  BY DEF Consistent, ProcessorExact
<1>2. \A t : UserCode # Terminating(t)
  BY CodeNames
<1> QED
  BY <1>1, <1>2, CodeKeeps

\* OSJoinThread after its sleep: the thread is reaped, if nobody has been
\* first.
LEMMA JoinReturnConsistent ==
  ASSUME ConsistentNow, NEW t \in Thread, OSJoinThreadReturn(t)
  PROVE  ConsistentNow' /\ StaysPrompt /\ Quiet(k, k')
<1> DEFINE c == k.current
<1>1. /\ c \in Thread /\ pc[c] = Joining(t)
      /\ k' = IF t \in k.active /\ k.state[t] = "MORIBUND"
              THEN Reap(k, t) ELSE k
      /\ pc' = [pc EXCEPT ![c] = UserCode]
      /\ owner' = owner /\ mutexQueue' = mutexQueue
  BY DEF OSJoinThreadReturn, Continues, Return, mutexVars
<1>2. c \notin k.alarms /\ \A u : pc[c] # Terminating(u)
  BY <1>1, CodeNames DEF ConsistentNow, Consistent, AlarmsExact
<1>3. /\ Consistent(k', pc, owner, mutexQueue) /\ Quiet(k, k')
      /\ k'.current = c /\ k'.alarms = k.alarms /\ Kept(k, k')
  <2>1. CASE k' = k
    BY <2>1 DEF ConsistentNow, Quiet, SameEnds, Kept
  <2>2. CASE k.state[t] = "MORIBUND" /\ k' = Reap(k, t)
    BY <2>2, ReapKeeps DEF ConsistentNow
  <2> QED
    BY <1>1, <2>1, <2>2
<1>4. StaysPrompt
  BY <1>2, <1>3, KeptPrompt
<1> HIDE DEF c
<1>5. Consistent(k', pc', owner, mutexQueue)
  BY <1>1, <1>2, <1>3, ReturnKeeps
<1> QED
  BY <1>1, <1>3, <1>4, <1>5 DEF ConsistentNow

\* OSDetachThread sets a flag, reaps a thread that has ended, and wakes the
\* joiner.
LEMMA DetachConsistent ==
  ASSUME ConsistentNow, NEW t \in Thread, OSDetachThread(t)
  PROVE  ConsistentNow' /\ StaysPrompt /\ Quiet(k, k')
<1> DEFINE d == [k EXCEPT !.detached = k.detached \cup {t}]
           e == IF k.state[t] = "MORIBUND" THEN Reap(d, t) ELSE d
<1>1. /\ k' = WakeupThread(e, JoinQueue(t)) /\ pc' = pc
      /\ owner' = owner /\ mutexQueue' = mutexQueue /\ InUserCode
  BY DEF OSDetachThread, Call, mutexVars
<1>2. k \in Kernel
  BY DEF ConsistentNow, Consistent, Good
<1>3. d \in Kernel
  BY <1>2 DEF Kernel
<1>4. /\ d.q = k.q /\ d.RunQueueBits = k.RunQueueBits
      /\ d.current = k.current /\ d.state = k.state
      /\ d.suspend = k.suspend /\ d.priority = k.priority
      /\ d.queue = k.queue /\ d.active = k.active
      /\ d.Reschedule = k.Reschedule /\ d.alarms \subseteq k.alarms
      /\ d.RunQueueHint = k.RunQueueHint
  BY <1>2 DEF Kernel
<1> HIDE DEF d
<1>5. Consistent(d, pc, owner, mutexQueue) /\ Quiet(k, d) /\ Kept(k, d)
  BY <1>3, <1>4, FieldsKeep, SameKept DEF ConsistentNow
<1>6. Consistent(e, pc, owner, mutexQueue) /\ Quiet(d, e) /\ Kept(d, e)
  <2>1. CASE k.state[t] = "MORIBUND"
    BY <1>4, <1>5, <2>1, ReapKeeps
  <2>2. CASE k.state[t] # "MORIBUND"
    BY <1>5, <2>2 DEF Quiet, SameEnds, Kept
  <2> QED
    BY <2>1, <2>2
<1> HIDE DEF e
<1>7. JoinQueue(t) \in BlockingQueues
  BY QueueNames
<1>8. Consistent(k', pc, owner, mutexQueue) /\ Quiet(e, k') /\ Kept(e, k')
  BY <1>1, <1>6, <1>7, WakeupKeeps
<1>9. Quiet(k, k')
  BY <1>5, <1>6, <1>8 DEF Quiet, SameEnds
<1>10. Kept(k, k')
  BY <1>5, <1>6, <1>8, KeptTrans
<1>11. StaysPrompt
  BY <1>1, <1>10, InUserCodeRuns, KeptPrompt
<1> QED
  BY <1>1, <1>8, <1>9, <1>11 DEF ConsistentNow

\* OSResumeThread.
LEMMA ResumeConsistent ==
  ASSUME OwnershipType, ConsistentNow, NEW t \in Thread, OSResumeThread(t)
  PROVE  ConsistentNow' /\ StaysPrompt /\ Quiet(k, k')
<1>1. /\ k' = ResumeThread(k, t) /\ pc' = pc
      /\ owner' = owner /\ mutexQueue' = mutexQueue
      /\ InUserCode
  BY DEF OSResumeThread, Call, mutexVars
<1>2. Good(k, {})
  BY DEF ConsistentNow, Consistent
<1>3. /\ Good(k', {}) /\ Follows(k, k')
      /\ k.Reschedule = 0 /\ Settled(k) => Settled(k')
  BY <1>1, <1>2, ResumeEffect
<1>4. Consistent(k', pc, owner, mutexQueue) /\ Quiet(k, k')
  BY <1>3, FollowKeeps DEF ConsistentNow
<1>5. StaysPrompt
  BY <1>1, <1>3, InUserCodeRuns, KeptPrompt DEF Kept, Follows, Frame
<1> QED
  BY <1>1, <1>4, <1>5 DEF ConsistentNow

\* A suspension keeps the invariant while the count is in its bound.
LEMMA SuspendKeeps ==
  ASSUME OwnershipType, NEW kk, NEW pp, NEW ow, NEW mq,
         Consistent(kk, pp, ow, mq), NEW t \in Thread,
         kk.suspend[t] < MaxSuspend, t = kk.current => kk.Reschedule = 0,
         NEW r, r = SuspendThread(kk, t)
  PROVE  Consistent(r, pp, ow, mq) /\ Quiet(kk, r) /\ Kept(kk, r)
<1>1. Good(kk, {})
  BY DEF Consistent
<1>2. /\ Good(r, {}) /\ Evolves(kk, r)
      /\ kk.Reschedule = 0 /\ Settled(kk) => Settled(r)
      /\ Remembered(kk) => Remembered(r)
      /\ \A u \in Thread \ {t} : r.suspend[u] <= kk.suspend[u]
      /\ r.suspend[t] <= kk.suspend[t] + 1
  BY <1>1, SuspendEffect
<1>3. SuspendBounded(r)
  <2>1. kk.suspend \in [Thread -> Nat] /\ r.suspend \in [Thread -> Nat]
        /\ MaxSuspend \in Nat
    BY <1>1, <1>2, Fields, ThreadAssumption DEF Good
  <2> QED
    BY <1>2, <2>1 DEF Consistent, SuspendBounded
<1>4. Kept(kk, r)
  BY <1>2 DEF Kept, Evolves
<1> QED
  BY <1>2, <1>3, <1>4, EvolveKeeps

\* OSSuspendThread.
LEMMA SuspendConsistent ==
  ASSUME OwnershipType, ConsistentNow, NEW t \in Thread, OSSuspendThread(t)
  PROVE  ConsistentNow' /\ StaysPrompt /\ Quiet(k, k')
<1>1. /\ k' = SuspendThread(k, t) /\ pc' = pc
      /\ k.suspend[t] < MaxSuspend /\ (t = k.current => k.Reschedule = 0)
      /\ owner' = owner /\ mutexQueue' = mutexQueue /\ InUserCode
  BY DEF OSSuspendThread, Call, MayBlock, mutexVars
<1>2. Consistent(k', pc, owner, mutexQueue) /\ Quiet(k, k') /\ Kept(k, k')
  BY <1>1, SuspendKeeps DEF ConsistentNow
<1>3. StaysPrompt
  BY <1>1, <1>2, InUserCodeRuns, KeptPrompt
<1> QED
  BY <1>1, <1>2, <1>3 DEF ConsistentNow

\* OSYieldThread.
LEMMA YieldConsistent ==
  ASSUME ConsistentNow, OSYieldThread
  PROVE  ConsistentNow' /\ StaysPrompt /\ Quiet(k, k')
<1>1. /\ k' = SelectThread(k, TRUE) /\ pc' = pc
      /\ owner' = owner /\ mutexQueue' = mutexQueue /\ InUserCode
  BY DEF OSYieldThread, Call, mutexVars
<1>2. Good(k, {}) /\ TRUE \in BOOLEAN
  BY DEF ConsistentNow, Consistent
<1>3. /\ Good(k', {}) /\ Follows(k, k')
      /\ k.Reschedule = 0 => Settled(k')
  BY <1>1, <1>2, SelectEffect
<1>4. Consistent(k', pc, owner, mutexQueue) /\ Quiet(k, k')
  BY <1>3, FollowKeeps DEF ConsistentNow
<1>5. StaysPrompt
  BY <1>1, <1>3, InUserCodeRuns, SwitchKept, KeptPrompt
<1> QED
  BY <1>1, <1>4, <1>5 DEF ConsistentNow

\* OSSleepThread, on a queue of the program.
LEMMA SleepThreadConsistent ==
  ASSUME ConsistentNow, NEW u \in UserQueue, OSSleepThread(u)
  PROVE  /\ ConsistentNow' /\ StaysPrompt /\ SameEnds(k, k')
         /\ \A q : NoSleeper(k, q) /\ q # WaitQueue(u) => NoSleeper(k', q)
<1> DEFINE c == k.current
<1>1. /\ InUserCode /\ k.Reschedule = 0
      /\ k' = SleepThread(k, WaitQueue(u)) /\ pc' = pc
      /\ owner' = owner /\ mutexQueue' = mutexQueue
  BY DEF OSSleepThread, Call, MayBlock, mutexVars
<1>2. c \in Thread /\ c = k.current /\ pc[c] # Terminating(c)
  BY <1>1, InUserCodeRuns
<1>3. /\ WaitQueue(u) \in BlockingQueues
      /\ \A m \in Mutex : WaitQueue(u) # MutexWait(m)
      /\ \A t \in Thread : WaitQueue(u) # JoinQueue(t)
  BY QueueNames
<1> HIDE DEF c
<1>4. /\ Consistent(k', pc, owner, mutexQueue) /\ SameEnds(k, k')
      /\ \A q : NoSleeper(k, q) /\ q # WaitQueue(u) => NoSleeper(k', q)
      /\ Kept(k, k')
  BY <1>1, <1>2, <1>3, SleepKeeps DEF ConsistentNow
<1>5. StaysPrompt
  BY <1>1, <1>4, InUserCodeRuns, KeptPrompt
<1> QED
  BY <1>1, <1>4, <1>5 DEF ConsistentNow

\* OSWakeupThread, on a queue of the program.
LEMMA WakeupThreadConsistent ==
  ASSUME ConsistentNow, NEW u \in UserQueue, OSWakeupThread(u)
  PROVE  ConsistentNow' /\ StaysPrompt /\ Quiet(k, k')
<1>1. /\ k' = WakeupThread(k, WaitQueue(u)) /\ pc' = pc
      /\ owner' = owner /\ mutexQueue' = mutexQueue /\ InUserCode
  BY DEF OSWakeupThread, Call, mutexVars
<1>2. WaitQueue(u) \in BlockingQueues
  BY QueueNames
<1>3. Consistent(k', pc, owner, mutexQueue) /\ Quiet(k, k') /\ Kept(k, k')
  BY <1>1, <1>2, WakeupKeeps DEF ConsistentNow
<1>4. StaysPrompt
  BY <1>1, <1>3, InUserCodeRuns, KeptPrompt
<1> QED
  BY <1>1, <1>3, <1>4 DEF ConsistentNow

\* What the scheduler's data are good for depends on these fields only.
SameQueues(kk, r) ==
    /\ r.q = kk.q /\ r.RunQueueBits = kk.RunQueueBits
    /\ r.current = kk.current /\ r.state = kk.state
    /\ r.suspend = kk.suspend /\ r.priority = kk.priority
    /\ r.queue = kk.queue

\* Data with the same queues are as good.
LEMMA SameGood ==
  ASSUME NEW kk, Good(kk, {}), NEW r \in Kernel, SameQueues(kk, r)
  PROVE  Good(r, {})
<1> DEFINE L == {}
<1>1. Good(kk, L)
  OBVIOUS
<1>2. /\ r.q = kk.q /\ r.RunQueueBits = kk.RunQueueBits
      /\ \A u \in Thread :
           /\ SameAt(kk, r, u)
           /\ u \notin L /\ r.state[u] = "RUNNING" => u = r.current
  BY <1>1 DEF SameQueues, SameAt, Good, Sound
<1> HIDE DEF L
<1>3. Good(r, L)
  BY <1>1, <1>2, Unmoved
<1> QED
  BY <1>3 DEF L

\* An alarm is set on the stack of a thread that is in OSSleepTicks.
LEMMA AlarmSetKeeps ==
  ASSUME NEW kk, NEW pp, NEW ow, NEW mq, Consistent(kk, pp, ow, mq),
         NEW c \in Thread, pp[c] = SleepingTicks, ~Terminated(kk, c),
         NEW r, r = [kk EXCEPT !.alarms = @ \cup {c}]
  PROVE  /\ Consistent(r, pp, ow, mq) /\ Quiet(kk, r) /\ Kept(kk, r)
         /\ r.suspend = kk.suspend /\ r.current = kk.current
         /\ r.Reschedule = kk.Reschedule
<1> DEFINE al == kk.alarms \cup {c}
<1>1. kk \in Kernel
  BY DEF Consistent, Good
<1>2. al \in SUBSET Thread
  BY <1>1, Fields
<1>3. r = [kk EXCEPT !.alarms = al]
  OBVIOUS
<1>4. \A t \in al : ~Terminated(kk, t) /\ pp[t] = SleepingTicks
  BY DEF Consistent, AlarmsExact
<1> HIDE DEF al
<1>5. r \in Kernel
  BY <1>1, <1>2, <1>3 DEF Kernel
<1>6. /\ SameQueues(kk, r) /\ r.active = kk.active
      /\ r.Reschedule = kk.Reschedule /\ r.alarms = al
      /\ r.RunQueueHint = kk.RunQueueHint
  BY <1>1, <1>3 DEF Kernel, SameQueues
<1>7. Good(r, {})
  BY <1>5, <1>6, SameGood DEF Consistent
<1>8. \A t : Terminated(r, t) <=> Terminated(kk, t)
  BY <1>6 DEF SameQueues, Terminated
<1>9. ProcessorExact(r, pp) /\ LivesExact(r, pp) /\ SuspendBounded(r)
  BY <1>6, <1>8
     DEF SameQueues, Consistent, ProcessorExact, LivesExact, SuspendBounded
<1>10. AlarmsExact(r, pp)
  BY <1>4, <1>6, <1>8 DEF AlarmsExact
<1>11. \A q : NoSleeper(r, q) <=> NoSleeper(kk, q)
  BY <1>6 DEF SameQueues, NoSleeper
<1>12. EndsFollowed(r, pp, mq) /\ WaitersOwned(r, ow)
  BY <1>8, <1>11 DEF Consistent, EndsFollowed, WaitersOwned
<1>13. Consistent(r, pp, ow, mq)
  BY <1>7, <1>9, <1>10, <1>12 DEF Consistent
<1>14. Kept(kk, r)
  BY <1>6, SameKept DEF SameQueues
<1> QED
  BY <1>6, <1>8, <1>11, <1>13, <1>14 DEF SameQueues, Quiet, SameEnds

\* OSSleepTicks, up to its suspension.
LEMMA SleepTicksConsistent ==
  ASSUME OwnershipType, ConsistentNow, OSSleepTicks
  PROVE  ConsistentNow' /\ StaysPrompt /\ Quiet(k, k')
<1> DEFINE c == k.current
           x == [k EXCEPT !.alarms = @ \cup {c}]
<1>1. /\ InUserCode /\ k.Reschedule = 0 /\ k' = SuspendThread(x, c)
      /\ pc' = [pc EXCEPT ![c] = SleepingTicks]
      /\ owner' = owner /\ mutexQueue' = mutexQueue
  BY DEF OSSleepTicks, Call, MayBlock, Resumes, mutexVars
<1>2. /\ c \in Thread /\ k.suspend[c] = 0 /\ ~Terminated(k, c)
      /\ c \notin k.alarms /\ \A u : pc[c] # Terminating(u)
  BY <1>1, InUserCodeRuns
<1>3. Consistent(k, pc', owner, mutexQueue)
  <2>1. \A u : SleepingTicks # Terminating(u)
    BY CodeNames
  <2> QED
    BY <1>1, <1>2, <2>1, RunningCode
<1>4. pc'[c] = SleepingTicks
  BY <1>1, <1>2 DEF ConsistentNow, Consistent
<1>5. /\ Consistent(x, pc', owner, mutexQueue)
      /\ Quiet(k, x) /\ Kept(k, x)
      /\ x.suspend = k.suspend /\ x.current = k.current
      /\ x.Reschedule = k.Reschedule
  BY <1>2, <1>3, <1>4, AlarmSetKeeps
<1> HIDE DEF x
<1>6. x.suspend[c] < MaxSuspend
  BY <1>2, <1>5, ThreadAssumption
<1>7. Consistent(k', pc', owner, mutexQueue) /\ Quiet(x, k') /\ Kept(x, k')
  BY <1>1, <1>2, <1>5, <1>6, SuspendKeeps
<1>8. Quiet(k, k')
  BY <1>5, <1>7 DEF Quiet, SameEnds
<1>9. StaysPrompt
  <2>1. Kept(k, k')
    BY <1>5, <1>7, KeptTrans
  <2> QED
    BY <1>2, <2>1, KeptPrompt
<1> QED
  BY <1>1, <1>7, <1>8, <1>9 DEF ConsistentNow

\* The rest of OSSleepTicks: the alarm is cancelled.
LEMMA SleepTicksReturnConsistent ==
  ASSUME ConsistentNow, OSSleepTicksReturn
  PROVE  ConsistentNow' /\ StaysPrompt /\ Quiet(k, k')
<1> DEFINE c == k.current
           al == k.alarms \ {c}
<1>1. /\ c \in Thread /\ pc[c] = SleepingTicks
      /\ k' = [k EXCEPT !.alarms = al]
      /\ pc' = [pc EXCEPT ![c] = UserCode]
      /\ owner' = owner /\ mutexQueue' = mutexQueue
  BY DEF OSSleepTicksReturn, Continues, Return, mutexVars
<1>2. k \in Kernel
  BY DEF ConsistentNow, Consistent, Good
<1>3. al \in SUBSET Thread /\ c \notin al /\ al \subseteq k.alarms
  BY <1>2, Fields
<1> HIDE DEF al
<1>4. k' \in Kernel
  BY <1>1, <1>2, <1>3 DEF Kernel
<1>5. /\ k'.q = k.q /\ k'.RunQueueBits = k.RunQueueBits
      /\ k'.current = k.current /\ k'.state = k.state
      /\ k'.suspend = k.suspend /\ k'.priority = k.priority
      /\ k'.queue = k.queue /\ k'.active = k.active
      /\ k'.Reschedule = k.Reschedule /\ k'.alarms = al
      /\ k'.RunQueueHint = k.RunQueueHint
  BY <1>1, <1>2 DEF Kernel
<1>6. Consistent(k', pc, owner, mutexQueue) /\ Quiet(k, k')
  <2>1. k'.alarms \subseteq k.alarms
    BY <1>3, <1>5
  <2> QED
    BY <1>4, <1>5, <2>1, FieldsKeep DEF ConsistentNow
<1>7. \A u : pc[c] # Terminating(u)
  BY <1>1, CodeNames
<1>8. StaysPrompt
  <2>1. Kept(k, k')
    BY <1>5, SameKept
  <2> QED
    BY <1>7, <2>1, KeptPrompt
<1> HIDE DEF c
<1>9. c = k'.current /\ c \notin k'.alarms
  BY <1>3, <1>5 DEF c
<1>10. Consistent(k', pc', owner, mutexQueue)
  BY <1>1, <1>6, <1>7, <1>9, ReturnKeeps
<1> QED
  BY <1>1, <1>6, <1>10, <1>8 DEF ConsistentNow

\* OSSetThreadPriority, with the walk of UpdatePriority.
LEMMA SetPriorityConsistent ==
  ASSUME OwnershipType, ConsistentNow, NEW t \in Thread,
         OSSetThreadPriority(t)
  PROVE  ConsistentNow' /\ StaysPrompt /\ Quiet(k, k')
<1>1. PICK prio \in Priorities \ {k.base[t]} :
        k' = __OSReschedule(UpdatePriority([k EXCEPT !.base[t] = prio], t))
  BY DEF OSSetThreadPriority
<1> DEFINE ba == [k.base EXCEPT ![t] = prio]
           x == [k EXCEPT !.base = ba]
           y == UpdatePriority(x, t)
<1>2. pc' = pc /\ owner' = owner /\ mutexQueue' = mutexQueue /\ InUserCode
  BY DEF OSSetThreadPriority, Call, mutexVars
<1>3. k \in Kernel
  BY DEF ConsistentNow, Consistent, Good
<1>4. ba \in [Thread -> Priority]
  BY <1>3, Fields, ThreadAssumption
<1>5. [k EXCEPT !.base[t] = prio] = x
  BY <1>3 DEF Kernel
<1>6. k' = __OSReschedule(y)
  BY <1>1, <1>5
<1> HIDE DEF ba
<1>7. x \in Kernel
  BY <1>3, <1>4 DEF Kernel
<1>8. /\ x.q = k.q /\ x.RunQueueBits = k.RunQueueBits
      /\ x.current = k.current /\ x.state = k.state
      /\ x.suspend = k.suspend /\ x.priority = k.priority
      /\ x.queue = k.queue /\ x.active = k.active
      /\ x.Reschedule = k.Reschedule /\ x.alarms \subseteq k.alarms
      /\ x.RunQueueHint = k.RunQueueHint
  BY <1>3 DEF Kernel
<1> HIDE DEF x
<1>9. Consistent(x, pc, owner, mutexQueue) /\ Quiet(k, x) /\ Kept(k, x)
  BY <1>7, <1>8, FieldsKeep, SameKept DEF ConsistentNow
<1>10. Good(y, {}) /\ Repriced(x, y)
  <2> DEFINE L == {}
             C == Thread
  <2>1. Good(x, L) /\ ClosedFor(C, x, L) /\ t \in C \cup {NULL}
    BY <1>7, <1>9, AllClosed DEF Consistent
  <2> HIDE DEF L, C
  <2>2. Good(y, L) /\ Repriced(x, y)
    BY <2>1, UpdatePriorityEffect
  <2> QED
    BY <2>2 DEF L
<1> HIDE DEF y
<1>11. Consistent(y, pc, owner, mutexQueue) /\ Quiet(x, y)
  <2>1. Follows(x, y)
    BY <1>7, <1>10, RepricedFollows
  <2> QED
    BY <1>9, <1>10, <2>1, FollowKeeps
<1>12. /\ Good(k', {}) /\ Follows(y, k')
       /\ y.Reschedule = 0 /\ Remembered(y) => Settled(k')
  BY <1>6, <1>10, RescheduleEffect
<1>13. Consistent(k', pc, owner, mutexQueue) /\ Quiet(y, k')
  BY <1>11, <1>12, FollowKeeps
<1>14. Quiet(k, k')
  BY <1>9, <1>11, <1>13 DEF Quiet, SameEnds
<1>15. Kept(x, k')
  <2>1. /\ y.Reschedule = x.Reschedule /\ k'.Reschedule = y.Reschedule
        /\ Remembered(x) => Remembered(y)
    BY <1>10, <1>12 DEF Repriced, Follows, Frame
  <2>2. Settled(x) => Remembered(x)
    BY DEF Settled, Remembered
  <2> QED
    BY <1>12, <2>1, <2>2 DEF Kept, Follows
<1>16. StaysPrompt
  BY <1>2, <1>9, <1>15, InUserCodeRuns, KeptTrans, KeptPrompt
<1> QED
  BY <1>2, <1>13, <1>14, <1>16 DEF ConsistentNow

\* The count of OSDisableScheduler.
LEMMA CountKeeps ==
  ASSUME NEW kk, NEW pp, NEW ow, NEW mq, Consistent(kk, pp, ow, mq),
         kk.current \in Thread, pp[kk.current] = UserCode, NEW n \in 0 .. 1,
         NEW r, r = [kk EXCEPT !.Reschedule = n]
  PROVE  /\ Consistent(r, pp, ow, mq) /\ Quiet(kk, r)
         /\ Remembered(kk) => Remembered(r)
<1>1. kk \in Kernel /\ n \in Nat
  BY DEF Consistent, Good
<1>2. r \in Kernel
  BY <1>1 DEF Kernel
<1>3. /\ SameQueues(kk, r) /\ r.active = kk.active
      /\ r.Reschedule = n /\ r.alarms = kk.alarms
      /\ r.RunQueueHint = kk.RunQueueHint
  BY <1>1 DEF Kernel, SameQueues
<1>4. Good(r, {})
  BY <1>2, <1>3, SameGood DEF Consistent
<1>5. \A t : Terminated(r, t) <=> Terminated(kk, t)
  BY <1>3 DEF SameQueues, Terminated
<1>6. ProcessorExact(r, pp)
  BY <1>3 DEF SameQueues, Consistent, ProcessorExact
<1>7. LivesExact(r, pp) /\ SuspendBounded(r) /\ AlarmsExact(r, pp)
  BY <1>3, <1>5
     DEF SameQueues, Consistent, LivesExact, SuspendBounded, AlarmsExact
<1>8. \A q : NoSleeper(r, q) <=> NoSleeper(kk, q)
  BY <1>3 DEF SameQueues, NoSleeper
<1>9. EndsFollowed(r, pp, mq) /\ WaitersOwned(r, ow)
  BY <1>5, <1>8 DEF Consistent, EndsFollowed, WaitersOwned
<1>10. Remembered(kk) => Remembered(r)
  BY <1>3 DEF SameQueues, Remembered
<1> QED
  BY <1>4, <1>5, <1>6, <1>7, <1>8, <1>9, <1>10
     DEF Consistent, Quiet, SameEnds

\* OSDisableScheduler and OSEnableScheduler.
LEMMA SchedulerConsistent ==
  ASSUME ConsistentNow, OSDisableScheduler \/ OSEnableScheduler
  PROVE  ConsistentNow' /\ StaysPrompt /\ Quiet(k, k')
<1>1. /\ k.current \in Thread /\ pc[k.current] = UserCode
      /\ pc' = pc /\ owner' = owner /\ mutexQueue' = mutexQueue
      /\ "OSDisableScheduler" \in Calls
  BY DEF OSDisableScheduler, OSEnableScheduler, Call, InUserCode, mutexVars
<1>2. k.Reschedule \in 0 .. 1
  BY DEF ConsistentNow, Consistent, ProcessorExact
<1>3. PICK n \in 0 .. 1 : k' = [k EXCEPT !.Reschedule = n]
  BY <1>2 DEF OSDisableScheduler, OSEnableScheduler
<1>4. /\ Consistent(k', pc, owner, mutexQueue) /\ Quiet(k, k')
      /\ Remembered(k) => Remembered(k')
  BY <1>1, <1>3, CountKeeps DEF ConsistentNow
<1>5. StaysPrompt
  BY <1>1, <1>4 DEF StaysPrompt, Prompt
<1> QED
  BY <1>1, <1>4, <1>5 DEF ConsistentNow

\* The record a handler starts from.
LEMMA RaisedStart ==
  ASSUME NEW kk, Good(kk, {}), NEW al, al \subseteq kk.alarms,
         NEW n \in Nat, n = kk.Reschedule + 1,
         NEW up, up = [kk EXCEPT !.Reschedule = n, !.alarms = al]
  PROVE  Raised(kk, up) /\ Good(up, {})
<1>1. kk \in Kernel
  BY DEF Good
<1>2. al \in SUBSET Thread
  BY <1>1, Fields
<1>3. up \in Kernel
  BY <1>1, <1>2 DEF Kernel
<1>4. /\ up.q = kk.q /\ up.RunQueueBits = kk.RunQueueBits
      /\ up.current = kk.current /\ up.state = kk.state
      /\ up.suspend = kk.suspend /\ up.priority = kk.priority
      /\ up.queue = kk.queue /\ up.active = kk.active
      /\ up.RunQueueHint = kk.RunQueueHint
      /\ up.Reschedule = n /\ up.alarms = al
  BY <1>1 DEF Kernel
<1>5. Raised(kk, up)
  BY <1>3, <1>4 DEF Raised
<1> QED
  BY <1>5, RaisedGood

\* The alarm of OSSleepTicks expires.
LEMMA AlarmHandlerConsistent ==
  ASSUME OwnershipType, ConsistentNow, NEW t \in Thread, SleepAlarmHandler(t)
  PROVE  ConsistentNow' /\ StaysPrompt /\ Quiet(k, k')
<1> DEFINE n == k.Reschedule + 1
           al == k.alarms \ {t}
           up == [k EXCEPT !.Reschedule = n, !.alarms = al]
           after == ResumeThread(up, t)
<1>1. pc' = pc /\ owner' = owner /\ mutexQueue' = mutexQueue
  BY DEF SleepAlarmHandler, mutexVars
<1>2. Good(k, {}) /\ k \in Kernel
  BY DEF ConsistentNow, Consistent, Good
<1>3. [[k EXCEPT !.Reschedule = @ + 1] EXCEPT !.alarms = @ \ {t}] = up
  BY <1>2 DEF Kernel
<1>4. k' = __OSReschedule([after EXCEPT !.Reschedule = @ - 1])
  <2>1. k' = InHandler(LAMBDA s :
               ResumeThread([s EXCEPT !.alarms = @ \ {t}], t))
    BY DEF SleepAlarmHandler
  <2> QED
    BY <1>3, <2>1 DEF InHandler
<1>5. n \in Nat /\ al \subseteq k.alarms
  BY <1>2, Fields
<1>6. n = k.Reschedule + 1
  OBVIOUS
<1> HIDE DEF n, al
<1>7. Raised(k, up) /\ Good(up, {})
  BY <1>2, <1>5, <1>6, RaisedStart
<1> HIDE DEF up
<1>8. Good(after, {}) /\ Follows(up, after)
  BY <1>7, ResumeEffect
<1> HIDE DEF after
<1>9. /\ Consistent(k', pc, owner, mutexQueue) /\ Quiet(k, k')
      /\ Remembered(k) => Remembered(k')
      /\ k.Reschedule = 0 /\ Remembered(k) => Settled(k')
      /\ k'.Reschedule = k.Reschedule
  BY <1>4, <1>7, <1>8, HandlerKeeps DEF ConsistentNow
<1>10. StaysPrompt
  BY <1>9, SwitchPrompt
<1> QED
  BY <1>1, <1>9, <1>10 DEF ConsistentNow

\* A handler resumes a thread.
LEMMA InterruptResumeConsistent ==
  ASSUME OwnershipType, ConsistentNow, NEW t \in Thread, InterruptResume(t)
  PROVE  ConsistentNow' /\ StaysPrompt /\ Quiet(k, k')
<1> DEFINE n == k.Reschedule + 1
           al == k.alarms
           up == [k EXCEPT !.Reschedule = n, !.alarms = al]
           after == ResumeThread(up, t)
<1>1. pc' = pc /\ owner' = owner /\ mutexQueue' = mutexQueue
  BY DEF InterruptResume, mutexVars
<1>2. Good(k, {}) /\ k \in Kernel
  BY DEF ConsistentNow, Consistent, Good
<1>3. [k EXCEPT !.Reschedule = @ + 1] = up
  BY <1>2 DEF Kernel
<1>4. k' = __OSReschedule([after EXCEPT !.Reschedule = @ - 1])
  <2>1. k' = InHandler(LAMBDA s : ResumeThread(s, t))
    BY DEF InterruptResume
  <2> QED
    BY <1>3, <2>1 DEF InHandler
<1>5. n \in Nat /\ al \subseteq k.alarms
  BY <1>2, Fields
<1>6. n = k.Reschedule + 1
  OBVIOUS
<1> HIDE DEF n, al
<1>7. Raised(k, up) /\ Good(up, {})
  BY <1>2, <1>5, <1>6, RaisedStart
<1> HIDE DEF up
<1>8. Good(after, {}) /\ Follows(up, after)
  BY <1>7, ResumeEffect
<1> HIDE DEF after
<1>9. /\ Consistent(k', pc, owner, mutexQueue) /\ Quiet(k, k')
      /\ Remembered(k) => Remembered(k')
      /\ k.Reschedule = 0 /\ Remembered(k) => Settled(k')
      /\ k'.Reschedule = k.Reschedule
  BY <1>4, <1>7, <1>8, HandlerKeeps DEF ConsistentNow
<1>10. StaysPrompt
  BY <1>9, SwitchPrompt
<1> QED
  BY <1>1, <1>9, <1>10 DEF ConsistentNow

\* A handler wakes the threads of a queue.
LEMMA HandlerWakeup ==
  ASSUME ConsistentNow, NEW q \in BlockingQueues,
         k' = InHandler(LAMBDA s : WakeupThread(s, q))
  PROVE  /\ Consistent(k', pc, owner, mutexQueue) /\ Quiet(k, k')
         /\ NoSleeper(k', q) /\ StaysPrompt
<1> DEFINE n == k.Reschedule + 1
           al == k.alarms
           up == [k EXCEPT !.Reschedule = n, !.alarms = al]
           after == WakeupThread(up, q)
<1>1. Good(k, {}) /\ k \in Kernel
  BY DEF ConsistentNow, Consistent, Good
<1>2. [k EXCEPT !.Reschedule = @ + 1] = up
  BY <1>1 DEF Kernel
<1>3. k' = __OSReschedule([after EXCEPT !.Reschedule = @ - 1])
  BY <1>2 DEF InHandler
<1>4. n \in Nat /\ al \subseteq k.alarms
  BY <1>1, Fields
<1>5. n = k.Reschedule + 1
  OBVIOUS
<1> HIDE DEF n, al
<1>6. Raised(k, up) /\ Good(up, {})
  BY <1>1, <1>4, <1>5, RaisedStart
<1> HIDE DEF up
<1>7. up.current \in Thread => up.state[up.current] # "SLEEPING"
  BY <1>6, CurrentAwake DEF Raised, ConsistentNow
<1>8. Good(after, {}) /\ Follows(up, after) /\ NoSleeper(after, q)
  BY <1>6, <1>7, WakeupEffect
<1> HIDE DEF after
<1>9. /\ Consistent(k', pc, owner, mutexQueue) /\ Quiet(k, k')
      /\ Remembered(k) => Remembered(k')
      /\ k.Reschedule = 0 /\ Remembered(k) => Settled(k')
      /\ k'.Reschedule = k.Reschedule /\ NoSleeper(k', q)
  BY <1>3, <1>6, <1>8, HandlerKeeps DEF ConsistentNow
<1>10. StaysPrompt
  BY <1>9, SwitchPrompt
<1> QED
  BY <1>9, <1>10

\* OSWakeupThread in a handler.
LEMMA InterruptWakeupConsistent ==
  ASSUME ConsistentNow, NEW u \in UserQueue, InterruptWakeup(u)
  PROVE  ConsistentNow' /\ StaysPrompt /\ Quiet(k, k')
<1>1. /\ k' = InHandler(LAMBDA s : WakeupThread(s, WaitQueue(u)))
      /\ pc' = pc /\ owner' = owner /\ mutexQueue' = mutexQueue
  BY DEF InterruptWakeup, mutexVars
<1>2. WaitQueue(u) \in BlockingQueues
  BY QueueNames
<1> QED
  BY <1>1, <1>2, HandlerWakeup DEF ConsistentNow

\* The idle loop ends with a switch to a ready thread.
LEMMA IdleLoopEndConsistent ==
  ASSUME ConsistentNow, IdleLoopEnd
  PROVE  ConsistentNow' /\ StaysPrompt /\ Quiet(k, k')
<1>1. /\ k.current = NULL /\ k.RunQueueBits # {} /\ k' = SwitchThread(k)
      /\ pc' = pc /\ owner' = owner /\ mutexQueue' = mutexQueue
  BY DEF IdleLoopEnd, mutexVars
<1>2. Good(k, {}) /\ k.current \notin Thread
  BY <1>1, CodeNames DEF ConsistentNow, Consistent
<1>3. \A u \in Thread : k.state[u] # "RUNNING"
  BY <1>2 DEF Good, Sound
<1>4. /\ Good(k', {}) /\ Frame(k, k')
      /\ k'.current \in Thread /\ k'.state[k'.current] = "RUNNING"
      /\ k.state[k'.current] = "READY"
      /\ \A u \in Thread \ {k'.current} :
           k'.state[u] = k.state[u] /\ k'.queue[u] = k.queue[u]
      /\ k'.suspend = k.suspend /\ Settled(k')
  BY <1>1, <1>2, <1>3, SwitchEffect
<1>5. k.Reschedule = 0
  BY <1>2 DEF ConsistentNow, Consistent, ProcessorExact
<1>6. \A t \in Thread :
        /\ Terminated(k, t) \/ Terminated(k', t) => k'.state[t] = k.state[t]
        /\ k'.state[t] = "SLEEPING"
             => k.state[t] = "SLEEPING" /\ k'.queue[t] = k.queue[t]
  BY <1>4 DEF Terminated
<1>7. Evolves(k, k')
  BY <1>4, <1>5, <1>6 DEF Evolves, Frame, Fits
<1>8. SuspendBounded(k')
  BY <1>4 DEF ConsistentNow, Consistent, SuspendBounded
<1>9. Consistent(k', pc, owner, mutexQueue) /\ Quiet(k, k')
  BY <1>4, <1>7, <1>8, EvolveKeeps DEF ConsistentNow
<1>10. StaysPrompt
  BY <1>4, SwitchPrompt DEF Frame, Settled, Remembered
<1> QED
  BY <1>1, <1>9, <1>10 DEF ConsistentNow

\* A free mutex gets an owner that runs.
LEMMA TakeKeeps ==
  ASSUME OwnershipType, NEW kk, NEW pp,
         Consistent(kk, pp, owner, mutexQueue),
         NEW m \in Mutex, NEW c \in Thread, ~Terminated(kk, c), TakeMutex(m, c)
  PROVE  Consistent(kk, pp, owner', mutexQueue')
<1>1. /\ owner' = [owner EXCEPT ![m] = c]
      /\ mutexQueue' = [mutexQueue EXCEPT ![c] = Append(@, m)]
  BY DEF TakeMutex
<1>2. \A n \in Mutex : owner'[n] = NULL => owner[n] = NULL
  BY <1>1, CodeNames DEF OwnershipType
<1>3. \A t \in Thread : mutexQueue'[t] # <<>>
        => mutexQueue[t] # <<>> \/ ~Terminated(kk, t)
  BY <1>1 DEF OwnershipType
<1> QED
  BY <1>2, <1>3, OwnersKeep

\* The thread that waits for a mutex is noted, its owner promoted.
LEMMA BlockKeeps ==
  ASSUME OwnershipType, NEW kk, NEW pp,
         Consistent(kk, pp, owner, mutexQueue),
         NEW m \in Mutex, NEW c \in Thread, c = kk.current,
         pp[c] = Locking(m), kk.Reschedule = 0, owner[m] # NULL,
         NEW p \in Priority,
         NEW r, r = SleepThread(
                      __OSPromoteThread([kk EXCEPT !.mutex[c] = m],
                                        owner[m], p), MutexWait(m))
  PROVE  /\ Consistent(r, pp, owner, mutexQueue)
         /\ Quiet(kk, r) /\ Kept(kk, r)
<1> DEFINE mu == [kk.mutex EXCEPT ![c] = m]
           x == [kk EXCEPT !.mutex = mu]
           y == __OSPromoteThread(x, owner[m], p)
<1>1. kk \in Kernel
  BY DEF Consistent, Good
<1>2. mu \in [Thread -> Mutex \cup {NULL}]
  BY <1>1, Fields
<1>3. [kk EXCEPT !.mutex[c] = m] = x
  BY <1>1 DEF Kernel
<1>4. r = SleepThread(y, MutexWait(m))
  BY <1>3
<1> HIDE DEF mu
<1>5. x \in Kernel
  BY <1>1, <1>2 DEF Kernel
<1>6. /\ x.q = kk.q /\ x.RunQueueBits = kk.RunQueueBits
      /\ x.current = kk.current /\ x.state = kk.state
      /\ x.suspend = kk.suspend /\ x.priority = kk.priority
      /\ x.queue = kk.queue /\ x.active = kk.active
      /\ x.Reschedule = kk.Reschedule /\ x.alarms \subseteq kk.alarms
  BY <1>1 DEF Kernel
<1> HIDE DEF x
<1>7. Consistent(x, pp, owner, mutexQueue) /\ Quiet(kk, x)
  BY <1>5, <1>6, FieldsKeep
<1>8. Good(y, {}) /\ Repriced(x, y)
  <2> DEFINE L == {}
             C == Thread
             o == owner[m]
  <2>1. Good(x, L) /\ ClosedFor(C, x, L)
    BY <1>5, <1>7, AllClosed DEF Consistent
  <2>2. o \in C \cup {NULL} /\ y = __OSPromoteThread(x, o, p)
    BY DEF OwnershipType
  <2> HIDE DEF L, C, o, y
  <2>3. Good(y, L) /\ Repriced(x, y)
    BY <2>1, <2>2, PromotionEffect
  <2> QED
    BY <2>3 DEF L
<1> HIDE DEF y
<1>9. Consistent(y, pp, owner, mutexQueue) /\ Quiet(x, y)
  <2>1. Follows(x, y)
    BY <1>5, <1>8, RepricedFollows
  <2> QED
    BY <1>7, <1>8, <2>1, FollowKeeps
<1>10. y.current = c /\ y.Reschedule = 0
  BY <1>6, <1>8 DEF Repriced, Frame
<1>11. /\ MutexWait(m) \in BlockingQueues
       /\ \A n \in Mutex : MutexWait(m) = MutexWait(n) => owner[n] # NULL
       /\ \A t \in Thread : MutexWait(m) = JoinQueue(t) => ~Terminated(y, t)
  BY QueueNames
<1>12. pp[c] # Terminating(c)
  BY CodeNames
<1>13. /\ Consistent(r, pp, owner, mutexQueue) /\ SameEnds(y, r)
       /\ \A q : NoSleeper(y, q) /\ q # MutexWait(m) => NoSleeper(r, q)
       /\ Kept(y, r) /\ Settled(r)
  BY <1>4, <1>9, <1>10, <1>11, <1>12, SleepKeeps
<1>14. Quiet(kk, r)
  BY <1>7, <1>9, <1>13, QueueNames DEF Quiet, SameEnds
<1>15. Kept(kk, r)
  BY <1>10, <1>13 DEF Kept, Settled, Remembered
<1> QED
  BY <1>13, <1>14, <1>15

\* Where nothing of the scheduler changes no switch is lost.
LEMMA NothingKept ==
  ASSUME k' = k, pc' = pc
  PROVE  StaysPrompt /\ Quiet(k, k')
BY DEF StaysPrompt, Prompt, Quiet, SameEnds

\* The branches of OSLockMutex and OSTryLockMutex.
LEMMA LockConsistent ==
  ASSUME OwnershipType, ConsistentNow, NEW m \in Mutex,
         OSLockMutex(m) \/ OSTryLockMutex(m)
  PROVE  ConsistentNow' /\ StaysPrompt /\ Quiet(k, k')
<1> DEFINE c == k.current
<1>1. InUserCode
  BY DEF OSLockMutex, OSTryLockMutex, Call
<1>2. /\ c \in Thread /\ ~Terminated(k, c) /\ c \notin k.alarms
      /\ k.priority[c] \in Priority /\ \A t : pc[c] # Terminating(t)
  BY <1>1, InUserCodeRuns
<1>3. CASE TakeMutex(m, c) /\ k' = k /\ pc' = pc
  <2>1. Consistent(k, pc, owner', mutexQueue')
    BY <1>2, <1>3, TakeKeeps DEF ConsistentNow
  <2>2. ConsistentNow'
    BY <1>3, <2>1 DEF ConsistentNow
  <2> QED
    BY <1>3, <2>2, NothingKept
<1>4. CASE LockAgain(m)
  <2>1. k' = k /\ pc' = pc /\ owner' = owner /\ mutexQueue' = mutexQueue
    BY <1>4 DEF LockAgain
  <2>2. ConsistentNow'
    BY <2>1 DEF ConsistentNow
  <2> QED
    BY <2>1, <2>2, NothingKept
<1>5. CASE k.Reschedule = 0 /\ BlockOnMutex(m, k)
  <2>1. /\ owner[m] # NULL /\ pc' = [pc EXCEPT ![c] = Locking(m)]
        /\ k' = SleepThread(__OSPromoteThread([k EXCEPT !.mutex[c] = m],
                                              owner[m], k.priority[c]),
                            MutexWait(m))
        /\ owner' = owner /\ mutexQueue' = mutexQueue
    BY <1>5 DEF BlockOnMutex, Resumes, mutexVars
  <2>2. Consistent(k, pc', owner, mutexQueue)
    <3>1. \A t : Locking(m) # Terminating(t)
      BY CodeNames
    <3> QED
      BY <1>2, <1>5, <2>1, <3>1, RunningCode
  <2>3. pc'[c] = Locking(m)
    BY <1>2, <2>1 DEF ConsistentNow, Consistent
  <2>4. /\ Consistent(k', pc', owner, mutexQueue)
        /\ Quiet(k, k') /\ Kept(k, k')
    BY <1>2, <1>5, <2>1, <2>2, <2>3, BlockKeeps
  <2>5. StaysPrompt
    BY <1>2, <2>4, KeptPrompt
  <2> QED
    BY <2>1, <2>4, <2>5 DEF ConsistentNow
<1> QED
  BY <1>3, <1>4, <1>5 DEF OSLockMutex, OSTryLockMutex, MayBlock

\* The waiter tries again: it has the mutex, or it waits again.
LEMMA LockRetryConsistent ==
  ASSUME OwnershipType, ConsistentNow, NEW m \in Mutex, OSLockMutexRetry(m)
  PROVE  ConsistentNow' /\ StaysPrompt /\ Quiet(k, k')
<1> DEFINE c == k.current
           mu == [k.mutex EXCEPT ![c] = NULL]
           awake == [k EXCEPT !.mutex = mu]
<1>1. c \in Thread /\ pc[c] = Locking(m)
  BY DEF OSLockMutexRetry, Continues
<1>2. k \in Kernel
  BY DEF ConsistentNow, Consistent, Good
<1>3. [k EXCEPT !.mutex[c] = NULL] = awake
  BY <1>2 DEF Kernel
<1>4. mu \in [Thread -> Mutex \cup {NULL}]
  BY <1>2, Fields
<1>5. \/ /\ TakeMutex(m, c) /\ k' = awake
         /\ pc' = [pc EXCEPT ![c] = UserCode]
      \/ BlockOnMutex(m, awake)
  BY <1>3 DEF OSLockMutexRetry, Return
<1>6. \A t : pc[c] # Terminating(t)
  BY <1>1, CodeNames
<1>7. /\ k.state[c] = "RUNNING" /\ k.Reschedule = 0 /\ c \notin k.alarms
      /\ ~Terminated(k, c) /\ k.priority[c] \in Priority
  <2>1. k.state[c] = "RUNNING" /\ k.Reschedule \in 0 .. 1
    BY <1>1, <1>6 DEF ConsistentNow, Consistent, ProcessorExact
  <2>2. ~(k.Reschedule > 0)
    BY <1>1, <1>6, CodeNames DEF ConsistentNow, Consistent, ProcessorExact
  <2>3. c \notin k.alarms
    BY <1>1, CodeNames DEF ConsistentNow, Consistent, AlarmsExact
  <2>4. k.priority[c] \in Priority /\ ~Terminated(k, c)
    BY <1>1, <2>1 DEF ConsistentNow, Consistent, Good, Sound, Terminated
  <2> QED
    BY <2>1, <2>2, <2>3, <2>4
<1> HIDE DEF mu
<1>8. awake \in Kernel
  BY <1>2, <1>4 DEF Kernel
<1>9. /\ awake.q = k.q /\ awake.RunQueueBits = k.RunQueueBits
      /\ awake.current = k.current /\ awake.state = k.state
      /\ awake.suspend = k.suspend /\ awake.priority = k.priority
      /\ awake.queue = k.queue /\ awake.active = k.active
      /\ awake.Reschedule = k.Reschedule /\ awake.alarms = k.alarms
      /\ awake.RunQueueHint = k.RunQueueHint
  BY <1>2 DEF Kernel
<1> HIDE DEF awake
<1>10. /\ Consistent(awake, pc, owner, mutexQueue)
       /\ Quiet(k, awake) /\ Kept(k, awake)
  <2>1. awake.alarms \subseteq k.alarms
    BY <1>9
  <2>2. Kept(k, awake)
    BY <1>9, SameKept
  <2> QED
    BY <1>8, <1>9, <2>1, <2>2, FieldsKeep DEF ConsistentNow
<1>11. awake.current = c /\ c \notin awake.alarms /\ ~Terminated(awake, c)
  BY <1>7, <1>9 DEF Terminated
<1>12. CASE /\ TakeMutex(m, c) /\ k' = awake
            /\ pc' = [pc EXCEPT ![c] = UserCode]
  <2> HIDE DEF c
  <2>1. Consistent(awake, pc', owner, mutexQueue)
    BY <1>1, <1>6, <1>10, <1>11, <1>12, ReturnKeeps
  <2>2. Consistent(awake, pc', owner', mutexQueue')
    BY <1>1, <1>11, <1>12, <2>1, TakeKeeps
  <2>3. StaysPrompt
    BY <1>6, <1>10, <1>12, KeptPrompt DEF c
  <2> QED
    BY <1>10, <1>12, <2>2, <2>3 DEF ConsistentNow
<1>13. CASE BlockOnMutex(m, awake)
  <2>1. /\ owner[m] # NULL /\ pc' = [pc EXCEPT ![c] = Locking(m)]
        /\ k' = SleepThread(__OSPromoteThread([awake EXCEPT !.mutex[c] = m],
                                              owner[m], k.priority[c]),
                            MutexWait(m))
        /\ owner' = owner /\ mutexQueue' = mutexQueue
    BY <1>13 DEF BlockOnMutex, Resumes, mutexVars
  <2>2. pc' = pc
    BY <1>1, <2>1 DEF ConsistentNow, Consistent
  <2> HIDE DEF c
  <2>3. /\ Consistent(k', pc, owner, mutexQueue)
        /\ Quiet(awake, k') /\ Kept(awake, k')
    BY <1>1, <1>7, <1>9, <1>10, <1>11, <2>1, BlockKeeps
  <2>4. Quiet(k, k')
    BY <1>10, <2>3 DEF Quiet, SameEnds
  <2>5. Kept(k, k')
    BY <1>10, <2>3, KeptTrans
  <2>6. StaysPrompt
    BY <1>6, <2>5, KeptPrompt DEF c
  <2> QED
    BY <2>1, <2>2, <2>3, <2>4, <2>6 DEF ConsistentNow
<1> QED
  BY <1>5, <1>12, <1>13

Lowers(kk, r, c, p) == r = [kk EXCEPT !.priority[c] = p]

\* The running thread has another priority.
LEMMA LoweredKeeps ==
  ASSUME NEW kk, NEW pp, NEW ow, NEW mq, Consistent(kk, pp, ow, mq),
         NEW c \in Thread, c = kk.current, kk.state[c] = "RUNNING",
         NEW p \in Priority, NEW r, Lowers(kk, r, c, p)
  PROVE  /\ Consistent(r, pp, ow, mq) /\ Quiet(kk, r)
         /\ r.state = kk.state /\ r.queue = kk.queue
         /\ r.suspend = kk.suspend /\ r.Reschedule = kk.Reschedule
<1> DEFINE pr == [kk.priority EXCEPT ![c] = p]
<1>1. kk \in Kernel
  BY DEF Consistent, Good
<1>2. /\ pr \in [Thread -> 0 .. OS_PRIORITY_MAX + 1] /\ pr[c] = p
      /\ \A u \in Thread \ {c} : pr[u] = kk.priority[u]
  BY <1>1, Fields, PriorityNumbers
<1>3. r = [kk EXCEPT !.priority = pr]
  BY <1>1 DEF Kernel, Lowers
<1> HIDE DEF pr
<1>4. r \in Kernel
  BY <1>1, <1>2, <1>3 DEF Kernel
<1>5. /\ r.q = kk.q /\ r.RunQueueBits = kk.RunQueueBits
      /\ r.current = kk.current /\ r.state = kk.state
      /\ r.suspend = kk.suspend /\ r.priority = pr
      /\ r.queue = kk.queue /\ r.active = kk.active
      /\ r.Reschedule = kk.Reschedule /\ r.alarms = kk.alarms
  BY <1>1, <1>3 DEF Kernel
<1>6. Good(r, {})
  <2> DEFINE L == {}
  <2>1. Good(kk, L)
    BY DEF Consistent
  <2>2. \A u \in Thread \ {c} :
          /\ SameAt(kk, r, u) /\ (u \in L <=> u \in L)
          /\ u \notin L /\ r.state[u] = "RUNNING" => u = r.current
    BY <1>2, <1>5, <2>1 DEF SameAt, Good, Sound
  <2>3. /\ \A q \in Queues : ~In(r, q, c)
        /\ \A q \in Queues : ~In(kk, q, c)
    BY <1>5 DEF In
  <2>4. Sound(kk, c)
    BY <2>1 DEF Good
  <2>5. Sound(r, c)
    BY <1>2, <1>5, <2>4 DEF Sound
  <2>6. r.q = kk.q /\ r.RunQueueBits = kk.RunQueueBits
    BY <1>5
  <2> HIDE DEF L
  <2>7. Good(r, L)
    BY <1>4, <2>1, <2>2, <2>3, <2>5, <2>6, Change
  <2> QED
    BY <2>7 DEF L
<1>7. Evolves(kk, r)
  BY <1>5 DEF Evolves, Terminated
<1>8. SuspendBounded(r)
  BY <1>5 DEF Consistent, SuspendBounded
<1> QED
  BY <1>5, <1>6, <1>7, <1>8, EvolveKeeps

AllSuspended(kk, q) ==
    \A u \in Thread :
      kk.state[u] = "SLEEPING" /\ kk.queue[u] = q => kk.suspend[u] > 0

Drops(mq, mq1, t, m) ==
    /\ mq \in [Thread -> Seq(Mutex)] /\ mq1 \in [Thread -> Seq(Mutex)]
    /\ m \in Range(mq[t]) /\ Range(mq1[t]) = Range(mq[t]) \ {m}
SameEffective(kk, mq, mq1, t) ==
    __OSGetEffectivePriority(kk, mq1, t) = __OSGetEffectivePriority(kk, mq, t)

\* A mutex whose waiters are all suspended lends its owner no priority.
LEMMA SuspendedLendNothing ==
  ASSUME NEW kk, NEW L, L = {}, Good(kk, L),
         NEW m \in Mutex, NEW t \in Thread, NEW mq, NEW mq1,
         Drops(mq, mq1, t, m), AllSuspended(kk, MutexWait(m))
  PROVE  SameEffective(kk, mq, mq1, t)
<1>1. /\ mq \in [Thread -> Seq(Mutex)] /\ mq1 \in [Thread -> Seq(Mutex)]
      /\ m \in Range(mq[t]) /\ Range(mq1[t]) = Range(mq[t]) \ {m}
  BY DEF Drops
<1> DEFINE waited(R) == {n \in R : kk.q[MutexWait(n)] # <<>>}
           S(R) == {kk.base[t]}
                     \cup {kk.priority[Head(kk.q[MutexWait(n)])] :
                             n \in waited(R)}
           A == S(Range(mq[t]))
           B == S(Range(mq1[t]))
<1>2. kk \in Kernel /\ kk.base[t] \in Priority
      /\ kk.base[t] \in Nat /\ kk.base[t] <= OS_PRIORITY_MAX
      /\ OS_PRIORITY_MAX \in Nat
  <2>1. kk \in Kernel
    BY DEF Good
  <2> QED
    BY <2>1, Fields, PriorityNumbers DEF Priority
<1>3. ASSUME NEW n \in Mutex, kk.q[MutexWait(n)] # <<>>
      PROVE  /\ Head(kk.q[MutexWait(n)]) \in Thread
             /\ kk.priority[Head(kk.q[MutexWait(n)])] \in Nat
             /\ Head(kk.q[MutexWait(n)]) \in Range(kk.q[MutexWait(n)])
  <2>1. MutexWait(n) \in Queues
    BY QueueNames
  <2>2. kk.q[MutexWait(n)] \in Seq(Thread)
    BY <1>2, <2>1, Fields
  <2>3. Head(kk.q[MutexWait(n)]) \in Thread
        /\ Head(kk.q[MutexWait(n)]) \in Range(kk.q[MutexWait(n)])
    BY <1>3, <2>2 DEF Range
  <2> QED
    BY <1>2, <2>3, Fields, PriorityNumbers
<1>4. kk.q[MutexWait(m)] # <<>>
        => kk.priority[Head(kk.q[MutexWait(m)])] = OS_PRIORITY_MAX + 1
  <2> SUFFICES ASSUME kk.q[MutexWait(m)] # <<>>
               PROVE  kk.priority[Head(kk.q[MutexWait(m)])]
                        = OS_PRIORITY_MAX + 1
    OBVIOUS
  <2> DEFINE u == Head(kk.q[MutexWait(m)])
  <2>1. u \in Thread /\ u \in Range(kk.q[MutexWait(m)])
    BY <1>3
  <2>2. /\ MutexWait(m) \in Queues
        /\ \A p : MutexWait(m) # RunQueue(p)
    BY QueueNames
  <2>3. In(kk, MutexWait(m), u)
    BY <2>1, <2>2 DEF Good
  <2>4. kk.state[u] = "SLEEPING" /\ kk.suspend[u] > 0
    BY <2>1, <2>2, <2>3 DEF In, AllSuspended
  <2> QED
    BY <2>1, <2>4 DEF Good, Sound
<1>5. \A n \in Range(mq[t]) : n \in Mutex
  BY <1>1 DEF Range
<1>6. A \in SUBSET Nat /\ B \subseteq A /\ kk.base[t] \in B
  BY <1>1, <1>2, <1>3, <1>5
<1>7. \A y \in A : y \in B \/ y = OS_PRIORITY_MAX + 1
  BY <1>1, <1>4
<1>8. /\ Min(A) = __OSGetEffectivePriority(kk, mq, t)
      /\ Min(B) = __OSGetEffectivePriority(kk, mq1, t)
  BY DEF __OSGetEffectivePriority
<1> HIDE DEF A, B
<1>9. /\ \E x \in A : \A y \in A : x <= y
      /\ \E x \in B : \A y \in B : x <= y
  BY <1>6, LeastElement
<1>10. /\ Min(A) \in A /\ \A y \in A : Min(A) <= y
       /\ Min(B) \in B /\ \A y \in B : Min(B) <= y
  BY <1>9 DEF Min
<1>11. Min(A) \in Nat /\ Min(B) \in Nat
  BY <1>6, <1>10
<1>12. Min(B) <= Min(A)
  <2>1. CASE Min(A) \in B
    BY <1>10, <2>1
  <2>2. CASE Min(A) = OS_PRIORITY_MAX + 1
    BY <1>2, <1>6, <1>10, <1>11, <2>2
  <2> QED
    BY <1>7, <1>10, <2>1, <2>2
<1>13. Min(A) <= Min(B)
  BY <1>6, <1>10
<1> QED
  BY <1>8, <1>11, <1>12, <1>13 DEF SameEffective

\* The last unlock: the inherited priority is given up, the waiters wake.
LEMMA ReleaseConsistent ==
  ASSUME OwnershipInv, OwnershipInv', ConsistentNow, NEW m \in Mutex,
         owner[m] = k.current, InUserCode, ReleaseMutex(m)
  PROVE  /\ ConsistentNow' /\ Quiet(k, k')
         /\ PriorityInheritanceExact => StaysPrompt
<1> DEFINE c == k.current
           p == __OSGetEffectivePriority(k, mutexQueue', c)
           lowered == IF k.priority[c] < k.base[c]
                      THEN [k EXCEPT !.priority[c] = p] ELSE k
<1>1. /\ owner' = [owner EXCEPT ![m] = NULL]
      /\ k' = WakeupThread(lowered, MutexWait(m)) /\ pc' = pc
  BY DEF ReleaseMutex
<1>2. mutexQueue' = [mutexQueue EXCEPT ![c] = Unlink(@, m)]
  BY DEF ReleaseMutex
<1>3. OwnershipType /\ OwnershipType'
  BY DEF OwnershipInv
<1>4. /\ c \in Thread /\ k.state[c] = "RUNNING" /\ k.suspend[c] = 0
      /\ c \in k.active /\ ~Terminated(k, c)
      /\ \A u : pc[c] # Terminating(u)
  BY InUserCodeRuns
<1>5. p \in Priority
  <2>1. k \in Kernel /\ mutexQueue' \in [Thread -> Seq(Mutex)]
    BY <1>3 DEF ConsistentNow, Consistent, Good, OwnershipType
  <2> QED
    BY <1>4, <2>1, EffectivePriorityType
<1>6. PriorityInheritanceExact /\ AllSuspended(k, MutexWait(m))
        => p = k.priority[c]
  <2> SUFFICES ASSUME PriorityInheritanceExact,
                      AllSuspended(k, MutexWait(m))
               PROVE  p = k.priority[c]
    OBVIOUS
  <2>1. k.priority[c] = __OSGetEffectivePriority(k, mutexQueue, c)
    BY <1>4 DEF PriorityInheritanceExact, Live
  <2>2. /\ mutexQueue \in [Thread -> Seq(Mutex)]
        /\ mutexQueue' \in [Thread -> Seq(Mutex)]
    BY <1>3 DEF OwnershipType
  <2>3. m \in Range(mutexQueue[c]) /\ IsInjective(mutexQueue[c])
    BY <1>4 DEF OwnershipInv, OwnershipExact
  <2>4. Range(mutexQueue'[c]) = Range(mutexQueue[c]) \ {m}
    BY <1>2, <1>4, <2>2, <2>3, UnlinkProperties
  <2> DEFINE L == {}
  <2>5. L = {} /\ Good(k, L)
    BY DEF ConsistentNow, Consistent
  <2> DEFINE mq1 == mutexQueue'
  <2>6. Drops(mutexQueue, mq1, c, m)
    BY <1>4, <2>2, <2>3, <2>4 DEF Drops
  <2>7. p = __OSGetEffectivePriority(k, mq1, c)
    OBVIOUS
  <2> HIDE DEF mq1, c, p, lowered, L
  <2>8. AllSuspended(k, MutexWait(m)) /\ m \in Mutex /\ c \in Thread
    BY <1>4
  <2>9. SameEffective(k, mutexQueue, mq1, c)
    BY ONLY <2>5, <2>6, <2>8, SuspendedLendNothing
  <2> QED
    BY <2>1, <2>7, <2>9 DEF SameEffective
<1> HIDE DEF p
<1>7. p = k.priority[c] => lowered = k
  BY DEF ConsistentNow, Consistent, Good, Kernel
<1>8. /\ Consistent(lowered, pc, owner, mutexQueue) /\ Quiet(k, lowered)
      /\ lowered.state = k.state /\ lowered.queue = k.queue
      /\ lowered.suspend = k.suspend /\ lowered.Reschedule = k.Reschedule
  <2>1. CASE k.priority[c] < k.base[c]
    <3>1. Lowers(k, lowered, c, p)
      BY <2>1 DEF Lowers
    <3> HIDE DEF lowered
    <3> QED
      BY <1>4, <1>5, <3>1, LoweredKeeps DEF ConsistentNow
  <2>2. CASE ~(k.priority[c] < k.base[c])
    BY <2>2 DEF ConsistentNow, Quiet, SameEnds
  <2> QED
    BY <2>1, <2>2
<1> HIDE DEF lowered
<1>9. MutexWait(m) \in BlockingQueues
  BY QueueNames
<1>10. /\ Consistent(k', pc, owner, mutexQueue) /\ Follows(lowered, k')
       /\ NoSleeper(k', MutexWait(m)) /\ Quiet(lowered, k')
       /\ Kept(lowered, k')
       /\ (\E u \in Thread : /\ lowered.state[u] = "SLEEPING"
                             /\ lowered.queue[u] = MutexWait(m)
                             /\ lowered.suspend[u] = 0)
            => Remembered(k') /\ (lowered.Reschedule = 0 => Settled(k'))
  BY <1>1, <1>8, <1>9, WakeupKeeps
<1>11. ~Terminated(k', c)
  BY <1>4, <1>8, <1>10 DEF Follows, Terminated
<1>12. \A n \in Mutex : owner'[n] = NULL
         => owner[n] = NULL \/ NoSleeper(k', MutexWait(n))
  BY <1>3, <1>1, <1>10 DEF OwnershipType
<1>13. \A t \in Thread : mutexQueue'[t] # <<>>
         => mutexQueue[t] # <<>> \/ ~Terminated(k', t)
  BY <1>3, <1>2, <1>11 DEF OwnershipType
<1>14. Consistent(k', pc, owner', mutexQueue')
  BY <1>10, <1>12, <1>13, OwnersKeep
<1>15. Quiet(k, k')
  BY <1>8, <1>10 DEF Quiet, SameEnds
<1>16. ASSUME PriorityInheritanceExact PROVE StaysPrompt
  <2>1. CASE \E u \in Thread : /\ k.state[u] = "SLEEPING"
                               /\ k.queue[u] = MutexWait(m)
                               /\ k.suspend[u] = 0
    <3>1. Remembered(k') /\ (k.Reschedule = 0 => Settled(k'))
      BY <1>8, <1>10, <2>1
    <3>2. k'.Reschedule = k.Reschedule
      BY <1>8, <1>10 DEF Kept
    <3> QED
      BY <3>1, <3>2 DEF StaysPrompt, Prompt
  <2>2. CASE AllSuspended(k, MutexWait(m))
    <3>1. lowered = k
      BY <1>6, <1>7, <1>16, <2>2
    <3> QED
      BY <1>4, <1>10, <3>1, KeptPrompt
  <2>3. k.suspend \in [Thread -> Nat]
    BY Fields DEF ConsistentNow, Consistent, Good
  <2> QED
    BY <2>1, <2>2, <2>3 DEF AllSuspended
<1> QED
  BY <1>1, <1>14, <1>15, <1>16 DEF ConsistentNow

\* OSUnlockMutex: the last unlock, or one of several.
LEMMA UnlockConsistent ==
  ASSUME OwnershipInv, OwnershipInv', ConsistentNow, NEW m \in Mutex,
         OSUnlockMutex(m)
  PROVE  /\ ConsistentNow' /\ Quiet(k, k')
         /\ PriorityInheritanceExact => StaysPrompt
<1>1. InUserCode /\ owner[m] = k.current
  BY DEF OSUnlockMutex, Call
<1>2. CASE ReleaseMutex(m)
  BY <1>1, <1>2, ReleaseConsistent
<1>3. CASE UNCHANGED <<k, owner, mutexQueue, pc>>
  <2>1. ConsistentNow'
    BY <1>3 DEF ConsistentNow
  <2> QED
    BY <1>3, <2>1, NothingKept
<1> QED
  BY <1>2, <1>3 DEF OSUnlockMutex

\* One mutex of a thread that ends: its waiters wake.
LEMMA UnlockAllConsistent ==
  ASSUME OwnershipType, ConsistentNow, NEW t \in Thread, __OSUnlockAllMutex(t)
  PROVE  ConsistentNow' /\ StaysPrompt /\ Quiet(k, k')
<1> DEFINE m == Head(mutexQueue[t])
<1>1. /\ mutexQueue[t] # <<>>
      /\ mutexQueue' = [mutexQueue EXCEPT ![t] = Tail(@)]
      /\ owner' = [owner EXCEPT ![m] = NULL]
      /\ k' = WakeupThread(k, MutexWait(m)) /\ pc' = pc
  BY DEF __OSUnlockAllMutex
<1>2. m \in Mutex
  BY <1>1 DEF OwnershipType
<1> HIDE DEF m
<1>3. MutexWait(m) \in BlockingQueues
  BY <1>2, QueueNames
<1>4. /\ Consistent(k', pc, owner, mutexQueue)
      /\ NoSleeper(k', MutexWait(m)) /\ Quiet(k, k') /\ Kept(k, k')
      /\ k.Reschedule = 0 /\ Remembered(k) => Settled(k')
  BY <1>1, <1>3, WakeupKeeps DEF ConsistentNow
<1>5. \A n \in Mutex : owner'[n] = NULL
        => owner[n] = NULL \/ NoSleeper(k', MutexWait(n))
  BY <1>1, <1>4 DEF OwnershipType
<1>6. \A u \in Thread : mutexQueue'[u] # <<>>
        => mutexQueue[u] # <<>> \/ ~Terminated(k', u)
  BY <1>1 DEF OwnershipType
<1>7. Consistent(k', pc, owner', mutexQueue')
  BY <1>4, <1>5, <1>6, OwnersKeep
<1>8. StaysPrompt
  BY <1>4, SwitchPrompt DEF Kept
<1> QED
  BY <1>1, <1>4, <1>7, <1>8 DEF ConsistentNow

\* A step makes at most one thread ready or ends at most one.
LivesStep ==
    \/ SameEnds(k, k')
    \/ \E t \in Thread : Ended(k, k', t)
    \/ \E t \in Thread : /\ t \notin k.active /\ mutexQueue[t] = <<>>
                         /\ Reborn(k, k', t)

\* The kernel's record, field by field.
LEMMA KernelRecord ==
  ASSUME NEW c \in Thread \cup {NULL}, NEW h \in BOOLEAN, NEW n \in Nat,
         NEW b \in SUBSET Priority, NEW q \in [Queues -> Seq(Thread)],
         NEW st \in [Thread -> States], NEW su \in [Thread -> Nat],
         NEW ba \in [Thread -> Priority],
         NEW pr \in [Thread -> 0 .. OS_PRIORITY_MAX + 1],
         NEW qu \in [Thread -> Queues \cup {NULL}],
         NEW mu \in [Thread -> Mutex \cup {NULL}],
         NEW de \in SUBSET Thread, NEW ac \in SUBSET Thread,
         NEW al \in SUBSET Thread
  PROVE  [current |-> c, RunQueueHint |-> h, Reschedule |-> n,
          RunQueueBits |-> b, q |-> q, state |-> st, suspend |-> su,
          base |-> ba, priority |-> pr, queue |-> qu, mutex |-> mu,
          detached |-> de, active |-> ac, alarms |-> al] \in Kernel
BY DEF Kernel

\* __OSThreadInit leaves main running and every queue empty.
LEMMA ConsistentInit ==
  ASSUME Init
  PROVE  ConsistentNow
<1>1. /\ k.current = DefaultThread /\ k.RunQueueHint = FALSE
      /\ k.Reschedule = 0 /\ k.RunQueueBits = {}
      /\ k.q = [x \in Queues |-> <<>>]
      /\ k.state = [t \in Thread |-> IF t = DefaultThread
                                     THEN "RUNNING" ELSE "EXITED"]
      /\ k.suspend = [t \in Thread |-> 0]
      /\ k.priority = [t \in Thread |-> DefaultPriority]
      /\ k.queue = [t \in Thread |-> NULL]
      /\ k.active = {DefaultThread} /\ k.alarms = {}
  BY DEF Init, Queues
<1>2. /\ owner = [m \in Mutex |-> NULL] /\ pc = [t \in Thread |-> UserCode]
      /\ mutexQueue = [t \in Thread |-> <<>>]
  BY DEF Init
<1>3. DefaultThread \in Thread /\ DefaultPriority \in Priority
      /\ DefaultPriority \in 0 .. OS_PRIORITY_MAX + 1
  BY KernelAssumption, PriorityNumbers DEF Priority
<1>4. k \in Kernel
  <2> DEFINE q0 == k.q
             st == k.state
             su == k.suspend
             pr == k.priority
             qu == k.queue
  <2>1. k = [current      |-> DefaultThread,
             RunQueueHint |-> FALSE,
             Reschedule   |-> 0,
             RunQueueBits |-> {},
             q        |-> q0,
             state    |-> st,
             suspend  |-> su,
             base     |-> pr,
             priority |-> pr,
             queue    |-> qu,
             mutex    |-> qu,
             detached |-> {DefaultThread},
             active   |-> {DefaultThread},
             alarms   |-> {}]
    BY <1>1 DEF Init
  <2>2. q0 \in [Queues -> Seq(Thread)]
    BY <1>1
  <2>3. st \in [Thread -> States]
    BY <1>1 DEF States
  <2>4. /\ su \in [Thread -> Nat] /\ pr \in [Thread -> Priority]
        /\ pr \in [Thread -> 0 .. OS_PRIORITY_MAX + 1]
    BY <1>1, <1>3
  <2>5. /\ qu \in [Thread -> Queues \cup {NULL}]
        /\ qu \in [Thread -> Mutex \cup {NULL}]
    BY <1>1
  <2>6. /\ FALSE \in BOOLEAN /\ 0 \in Nat /\ {} \in SUBSET Priority
        /\ DefaultThread \in Thread \cup {NULL} /\ {} \in SUBSET Thread
        /\ {DefaultThread} \in SUBSET Thread
    BY <1>3
  <2> HIDE DEF q0, st, su, pr, qu
  <2> QED
    BY <2>1, <2>2, <2>3, <2>4, <2>5, <2>6, KernelRecord, Zenon
<1>5. \A t \in Thread : k.state[t] # "READY" /\ k.state[t] # "SLEEPING"
  BY <1>1
<1>6. \A t \in Thread, q \in Queues : ~In(k, q, t)
  BY <1>5 DEF In
<1>7. \A q \in Queues :
        /\ Range(k.q[q]) = {} /\ IsInjective(k.q[q])
        /\ SortedBy(k.q[q], k.priority)
  <2>1. DOMAIN <<>> = {}
    OBVIOUS
  <2> QED
    BY <1>1, <2>1 DEF Range, IsInjective, SortedBy
<1>8. BitsExact(k)
  <2>1. \A p \in Priority : k.q[RunQueue(p)] = <<>>
    BY <1>1, QueueNames
  <2> QED
    BY <1>1, <2>1 DEF BitsExact
<1>9. \A t \in Thread : Sound(k, t)
  BY <1>1, <1>3 DEF Sound
<1>10. Good(k, {})
  BY <1>4, <1>6, <1>7, <1>8, <1>9, QueueNames DEF Good
<1>11. pc = [t \in Thread |-> pc[t]]
  BY <1>2
<1>12. ProcessorExact(k, pc)
  BY <1>1, <1>3 DEF ProcessorExact
<1>13. LivesExact(k, pc)
  <2>1. \A t \in Thread : t \in k.active <=> k.state[t] # "EXITED"
    BY <1>1
  <2>2. \A t \in Thread : pc[t] # Terminating(t)
    BY <1>2, CodeNames
  <2> QED
    BY <2>1, <2>2 DEF LivesExact
<1>14. AlarmsExact(k, pc) /\ SuspendBounded(k)
  BY <1>1, ThreadAssumption DEF AlarmsExact, SuspendBounded
<1>15. \A q : NoSleeper(k, q)
  BY <1>5 DEF NoSleeper
<1>16. EndsFollowed(k, pc, mutexQueue) /\ WaitersOwned(k, owner)
  BY <1>2, <1>15 DEF EndsFollowed, WaitersOwned
<1> QED
  BY <1>10, <1>11, <1>12, <1>13, <1>14, <1>16 DEF ConsistentNow, Consistent

\* The calls on threads, and the interrupts.
LEMMA ThreadNextConsistent ==
  ASSUME OwnershipInv, ConsistentNow, ThreadNext
  PROVE  ConsistentNow' /\ StaysPrompt /\ LivesStep
<1>1. OwnershipType
  BY DEF OwnershipInv
<1>2. CASE OSExitThread
  BY <1>2, ExitConsistent DEF LivesStep, Quiet
<1>3. CASE OSYieldThread
  BY <1>3, YieldConsistent DEF LivesStep, Quiet
<1>4. CASE OSSleepTicks
  BY <1>1, <1>4, SleepTicksConsistent DEF LivesStep, Quiet
<1>5. CASE OSSleepTicksReturn
  BY <1>5, SleepTicksReturnConsistent DEF LivesStep, Quiet
<1>6. CASE OSDisableScheduler \/ OSEnableScheduler
  BY <1>6, SchedulerConsistent DEF LivesStep, Quiet
<1>7. CASE IdleLoopEnd
  BY <1>7, IdleLoopEndConsistent DEF LivesStep, Quiet
<1>8. ASSUME NEW t \in Thread, OSCreateThread(t)
      PROVE  ConsistentNow' /\ StaysPrompt /\ LivesStep
  BY <1>8, CreateConsistent DEF LivesStep, Quiet
<1>9. ASSUME NEW t \in Thread, OSCancelThread(t)
      PROVE  ConsistentNow' /\ StaysPrompt /\ LivesStep
  BY <1>1, <1>9, CancelConsistent DEF LivesStep, Quiet
<1>10. ASSUME NEW t \in Thread, TerminateEnd(t)
      PROVE  ConsistentNow' /\ StaysPrompt /\ LivesStep
  BY <1>10, TerminateEndConsistent DEF LivesStep, Quiet
<1>11. ASSUME NEW t \in Thread, OSJoinThread(t)
      PROVE  ConsistentNow' /\ StaysPrompt /\ LivesStep
  BY <1>11, JoinConsistent DEF LivesStep, Quiet
<1>12. ASSUME NEW t \in Thread, OSJoinThreadReturn(t)
      PROVE  ConsistentNow' /\ StaysPrompt /\ LivesStep
  BY <1>12, JoinReturnConsistent DEF LivesStep, Quiet
<1>13. ASSUME NEW t \in Thread, OSDetachThread(t)
      PROVE  ConsistentNow' /\ StaysPrompt /\ LivesStep
  BY <1>13, DetachConsistent DEF LivesStep, Quiet
<1>14. ASSUME NEW t \in Thread, OSResumeThread(t)
      PROVE  ConsistentNow' /\ StaysPrompt /\ LivesStep
  BY <1>1, <1>14, ResumeConsistent DEF LivesStep, Quiet
<1>15. ASSUME NEW t \in Thread, OSSuspendThread(t)
      PROVE  ConsistentNow' /\ StaysPrompt /\ LivesStep
  BY <1>1, <1>15, SuspendConsistent DEF LivesStep, Quiet
<1>16. ASSUME NEW t \in Thread, OSSetThreadPriority(t)
      PROVE  ConsistentNow' /\ StaysPrompt /\ LivesStep
  BY <1>1, <1>16, SetPriorityConsistent DEF LivesStep, Quiet
<1>17. ASSUME NEW t \in Thread, InterruptResume(t)
      PROVE  ConsistentNow' /\ StaysPrompt /\ LivesStep
  BY <1>1, <1>17, InterruptResumeConsistent DEF LivesStep, Quiet
<1>18. ASSUME NEW t \in Thread, SleepAlarmHandler(t)
      PROVE  ConsistentNow' /\ StaysPrompt /\ LivesStep
  BY <1>1, <1>18, AlarmHandlerConsistent DEF LivesStep, Quiet
<1>19. ASSUME NEW u \in UserQueue, OSSleepThread(u)
      PROVE  ConsistentNow' /\ StaysPrompt /\ LivesStep
  BY <1>19, SleepThreadConsistent DEF LivesStep, Quiet
<1>20. ASSUME NEW u \in UserQueue, OSWakeupThread(u)
      PROVE  ConsistentNow' /\ StaysPrompt /\ LivesStep
  BY <1>20, WakeupThreadConsistent DEF LivesStep, Quiet
<1>21. ASSUME NEW u \in UserQueue, InterruptWakeup(u)
      PROVE  ConsistentNow' /\ StaysPrompt /\ LivesStep
  BY <1>21, InterruptWakeupConsistent DEF LivesStep, Quiet
<1> QED
  BY <1>2, <1>3, <1>4, <1>5, <1>6, <1>7, <1>8, <1>9, <1>10, <1>11, <1>12,
     <1>13, <1>14, <1>15, <1>16, <1>17, <1>18, <1>19, <1>20, <1>21
  DEF ThreadNext

\* The calls on mutexes.
LEMMA MutexNextConsistent ==
  ASSUME OwnershipInv, OwnershipInv', ConsistentNow, MutexNext
  PROVE  /\ ConsistentNow' /\ Quiet(k, k')
         /\ PriorityInheritanceExact => StaysPrompt
<1> DEFINE Goal == /\ ConsistentNow' /\ Quiet(k, k')
                   /\ PriorityInheritanceExact => StaysPrompt
<1>1. OwnershipType
  BY DEF OwnershipInv
<1>2. ASSUME NEW m \in Mutex, OSLockMutex(m) \/ OSTryLockMutex(m) PROVE Goal
  BY <1>1, <1>2, LockConsistent
<1>3. ASSUME NEW m \in Mutex, OSLockMutexRetry(m) PROVE Goal
  BY <1>1, <1>3, LockRetryConsistent
<1>4. ASSUME NEW m \in Mutex, OSUnlockMutex(m) PROVE Goal
  BY <1>4, UnlockConsistent
<1>5. ASSUME NEW t \in Thread, __OSUnlockAllMutex(t) PROVE Goal
  BY <1>1, <1>5, UnlockAllConsistent
<1> QED
  BY <1>2, <1>3, <1>4, <1>5 DEF MutexNext

-----------------------------------------------------------------------------
(* The invariant. *)

\* A call that finishes the end of a thread works on one that has ended.
EndsKnown == \A u, t \in Thread : pc[u] = Terminating(t) => Terminated(k, t)

\* The inductive invariant of the whole kernel.
KernelInv == OwnershipInv /\ ConsistentNow /\ EndsKnown

\* No thread begins the end of another.
EndsAsBefore ==
    \A u, t \in Thread : pc'[u] = Terminating(t) => pc[u] = Terminating(t)

\* A thread begins, or ends, another call.
LEMMA OtherCode ==
  ASSUME ConsistentNow, NEW c, NEW at, \A t : at # Terminating(t),
         pc' = [pc EXCEPT ![c] = at]
  PROVE  EndsAsBefore
BY DEF ConsistentNow, Consistent, EndsAsBefore

\* A thread goes to another place, which is not in the end of a thread.
PlacesStep ==
    \/ pc' = pc
    \/ \E c : \E at \in Codes :
         /\ pc' = [pc EXCEPT ![c] = at]
         /\ \A t : at # Terminating(t)

\* Only OSExitThread and OSCancelThread begin the end of a thread.
LEMMA PlacesMove ==
  ASSUME Next, ~OSExitThread, \A t \in Thread : ~OSCancelThread(t)
  PROVE  PlacesStep
<1>1. CASE pc' = pc
  BY <1>1 DEF PlacesStep
<1>2. ASSUME NEW t, Return(t) PROVE PlacesStep
  BY <1>2, CodesMembers, CodeNames DEF Return, PlacesStep
<1>3. ASSUME NEW t, NEW m \in Mutex, Resumes(t, Locking(m)) PROVE PlacesStep
  <2>1. Locking(m) \in Codes /\ \A u : Locking(m) # Terminating(u)
    BY CodesMembers, CodeNames
  <2> QED
    BY <1>3, <2>1 DEF Resumes, PlacesStep
<1>4. ASSUME NEW t, NEW u \in Thread, Resumes(t, Joining(u)) PROVE PlacesStep
  <2>1. Joining(u) \in Codes /\ \A v : Joining(u) # Terminating(v)
    BY CodesMembers, CodeNames
  <2> QED
    BY <1>4, <2>1 DEF Resumes, PlacesStep
<1>5. ASSUME NEW t, Resumes(t, SleepingTicks) PROVE PlacesStep
  BY <1>5, CodesMembers, CodeNames DEF Resumes, PlacesStep
<1>6. CASE MutexNext
  <2>1. ASSUME NEW m \in Mutex, OSLockMutex(m) \/ OSTryLockMutex(m)
        PROVE  pc' = pc \/ \E t : Resumes(t, Locking(m))
    BY <2>1 DEF OSLockMutex, OSTryLockMutex, LockAgain, BlockOnMutex
  <2>2. ASSUME NEW m \in Mutex, OSLockMutexRetry(m)
        PROVE  \E t : Return(t) \/ Resumes(t, Locking(m))
    BY <2>2 DEF OSLockMutexRetry, BlockOnMutex
  <2>3. ASSUME NEW m \in Mutex, OSUnlockMutex(m) PROVE pc' = pc
    BY <2>3 DEF OSUnlockMutex, ReleaseMutex
  <2>4. ASSUME NEW t \in Thread, __OSUnlockAllMutex(t) PROVE pc' = pc
    BY <2>4 DEF __OSUnlockAllMutex
  <2> QED
    BY <1>1, <1>2, <1>3, <1>6, <2>1, <2>2, <2>3, <2>4 DEF MutexNext
<1>7. CASE ThreadNext
  <2>1. CASE OSYieldThread \/ OSDisableScheduler \/ OSEnableScheduler
             \/ IdleLoopEnd
    BY <1>1, <2>1
       DEF OSYieldThread, OSDisableScheduler, OSEnableScheduler, IdleLoopEnd
  <2>2. CASE OSSleepTicks
    BY <1>5, <2>2 DEF OSSleepTicks
  <2>3. CASE OSSleepTicksReturn
    BY <1>2, <2>3 DEF OSSleepTicksReturn
  <2>4. ASSUME NEW t \in Thread,
               \/ OSCreateThread(t) \/ TerminateEnd(t) \/ OSJoinThreadReturn(t)
        PROVE  PlacesStep
    BY <1>2, <2>4 DEF OSCreateThread, TerminateEnd, OSJoinThreadReturn
  <2>5. ASSUME NEW t \in Thread, OSJoinThread(t) PROVE PlacesStep
    BY <1>1, <1>4, <2>5 DEF OSJoinThread
  <2>6. ASSUME NEW t \in Thread,
               \/ OSDetachThread(t) \/ OSResumeThread(t)
               \/ OSSuspendThread(t) \/ OSSetThreadPriority(t)
               \/ InterruptResume(t) \/ SleepAlarmHandler(t)
        PROVE  PlacesStep
    BY <1>1, <2>6 DEF OSDetachThread, OSResumeThread, OSSuspendThread,
                      OSSetThreadPriority, InterruptResume, SleepAlarmHandler
  <2>7. ASSUME NEW u \in UserQueue,
               OSSleepThread(u) \/ OSWakeupThread(u) \/ InterruptWakeup(u)
        PROVE  PlacesStep
    BY <1>1, <2>7 DEF OSSleepThread, OSWakeupThread, InterruptWakeup
  <2> QED
    BY <1>7, <2>1, <2>2, <2>3, <2>4, <2>5, <2>6, <2>7 DEF ThreadNext
<1> QED
  BY <1>6, <1>7 DEF Next

\* In every other step no thread begins the end of another.
LEMMA CodesStay ==
  ASSUME ConsistentNow, Next, ~OSExitThread,
         \A t \in Thread : ~OSCancelThread(t)
  PROVE  EndsAsBefore
<1>1. PlacesStep
  BY PlacesMove
<1>2. CASE pc' = pc
  BY <1>2 DEF EndsAsBefore
<1>3. ASSUME NEW c, NEW at, pc' = [pc EXCEPT ![c] = at],
             \A t : at # Terminating(t)
      PROVE  EndsAsBefore
  BY <1>3, OtherCode
<1> QED
  BY <1>1, <1>2, <1>3 DEF PlacesStep

\* No other call than these four ends a thread, makes one, or puts one to sleep
\* in a queue of the program.
LEMMA OthersQuiet ==
  ASSUME OwnershipInv, OwnershipInv', ConsistentNow, Next, ~OSExitThread,
         \A t \in Thread : ~OSCreateThread(t) /\ ~OSCancelThread(t),
         \A u \in UserQueue : ~OSSleepThread(u)
  PROVE  Quiet(k, k')
<1>1. OwnershipType
  BY DEF OwnershipInv
<1>2. CASE OSYieldThread
  BY <1>2, YieldConsistent
<1>3. CASE OSSleepTicks
  BY <1>1, <1>3, SleepTicksConsistent
<1>4. CASE OSSleepTicksReturn
  BY <1>4, SleepTicksReturnConsistent
<1>5. CASE OSDisableScheduler \/ OSEnableScheduler
  BY <1>5, SchedulerConsistent
<1>6. CASE IdleLoopEnd
  BY <1>6, IdleLoopEndConsistent
<1>7. ASSUME NEW t \in Thread, TerminateEnd(t) PROVE Quiet(k, k')
  BY <1>7, TerminateEndConsistent
<1>8. ASSUME NEW t \in Thread, OSJoinThread(t) PROVE Quiet(k, k')
  BY <1>8, JoinConsistent
<1>9. ASSUME NEW t \in Thread, OSJoinThreadReturn(t) PROVE Quiet(k, k')
  BY <1>9, JoinReturnConsistent
<1>10. ASSUME NEW t \in Thread, OSDetachThread(t) PROVE Quiet(k, k')
  BY <1>10, DetachConsistent
<1>11. ASSUME NEW t \in Thread, OSResumeThread(t) PROVE Quiet(k, k')
  BY <1>1, <1>11, ResumeConsistent
<1>12. ASSUME NEW t \in Thread, OSSuspendThread(t) PROVE Quiet(k, k')
  BY <1>1, <1>12, SuspendConsistent
<1>13. ASSUME NEW t \in Thread, OSSetThreadPriority(t) PROVE Quiet(k, k')
  BY <1>1, <1>13, SetPriorityConsistent
<1>14. ASSUME NEW t \in Thread, InterruptResume(t) PROVE Quiet(k, k')
  BY <1>1, <1>14, InterruptResumeConsistent
<1>15. ASSUME NEW t \in Thread, SleepAlarmHandler(t) PROVE Quiet(k, k')
  BY <1>1, <1>15, AlarmHandlerConsistent
<1>16. ASSUME NEW u \in UserQueue, OSWakeupThread(u) PROVE Quiet(k, k')
  BY <1>16, WakeupThreadConsistent
<1>17. ASSUME NEW u \in UserQueue, InterruptWakeup(u) PROVE Quiet(k, k')
  BY <1>17, InterruptWakeupConsistent
<1>18. CASE MutexNext
  BY <1>18, MutexNextConsistent
<1> QED
  BY <1>2, <1>3, <1>4, <1>5, <1>6, <1>7, <1>8, <1>9, <1>10, <1>11,
     <1>12, <1>13, <1>14, <1>15, <1>16, <1>17, <1>18
  DEF Next, ThreadNext

\* And no other than the first three ends a thread or makes one.
LEMMA OthersEndNobody ==
  ASSUME OwnershipInv, OwnershipInv', ConsistentNow, Next, ~OSExitThread,
         \A t \in Thread : ~OSCreateThread(t) /\ ~OSCancelThread(t)
  PROVE  SameEnds(k, k')
<1>1. ASSUME NEW u \in UserQueue, OSSleepThread(u) PROVE SameEnds(k, k')
  BY <1>1, SleepThreadConsistent
<1> QED
  BY <1>1, OthersQuiet DEF Quiet

\* The calls that end and make threads know which one has ended.
LEMMA EndsStayKnown ==
  ASSUME OwnershipInv, OwnershipInv', ConsistentNow, EndsKnown, Next
  PROVE  EndsKnown'
<1> SUFFICES ASSUME NEW u \in Thread, NEW t \in Thread,
                    pc'[u] = Terminating(t), ~Terminated(k', t)
             PROVE  FALSE
  BY DEF EndsKnown, Terminated
<1>1. OwnershipType /\ DOMAIN pc = Thread
  BY DEF OwnershipInv, ConsistentNow, Consistent
<1>2. CASE OSExitThread
  <2>1. pc' = [pc EXCEPT ![k.current] = Terminating(k.current)]
    BY <1>2 DEF OSExitThread, Resumes
  <2>2. k.current \in Thread /\ Ended(k, k', k.current)
    BY <1>2, ExitConsistent
  <2> QED
    BY <1>1, <2>1, <2>2, CodeNames DEF Ended, EndsKnown, Terminated
<1>3. ASSUME NEW v \in Thread, OSCancelThread(v) PROVE FALSE
  <2>1. pc' = [pc EXCEPT ![k.current] = Terminating(v)]
    BY <1>3 DEF OSCancelThread, Resumes
  <2>2. Ended(k, k', v)
    BY <1>1, <1>3, CancelConsistent
  <2> QED
    BY <1>1, <2>1, <2>2, CodeNames DEF Ended, EndsKnown, Terminated
<1>4. CASE ~OSExitThread /\ \A v \in Thread : ~OSCancelThread(v)
  <2>1. pc[u] = Terminating(t)
    BY <1>4, CodesStay DEF EndsAsBefore
  <2>2. Terminated(k, t)
    BY <2>1 DEF EndsKnown
  <2>3. ~SameEnds(k, k')
    BY <2>2 DEF SameEnds
  <2>4. \A v \in Thread : ~OSCreateThread(v)
    <3> SUFFICES ASSUME NEW v \in Thread, OSCreateThread(v) PROVE FALSE
      OBVIOUS
    <3>1. Reborn(k, k', v)
      BY CreateConsistent
    <3>2. t # v
      BY <2>1 DEF OSCreateThread, Reusable
    <3> QED
      BY <2>2, <3>1, <3>2 DEF Reborn
  <2> QED
    BY <1>4, <2>3, <2>4, OthersEndNobody
<1> QED
  BY <1>2, <1>3, <1>4

\* __OSThreadInit establishes it.
LEMMA KernelInit == Init => KernelInv
<1> SUFFICES ASSUME Init PROVE KernelInv
  OBVIOUS
<1>1. EndsKnown
  BY CodeNames DEF Init, EndsKnown
<1> QED
  BY <1>1, OwnershipInit, ConsistentInit DEF KernelInv

\* Every call and every interrupt keeps it.
LEMMA KernelStep ==
  ASSUME KernelInv, [Next]_vars
  PROVE  KernelInv'
<1>1. OwnershipInv /\ ConsistentNow /\ EndsKnown
  BY DEF KernelInv
<1>2. CASE ThreadNext
  <2>1. OwnershipInv'
    BY <1>1, <1>2, ThreadNextOwnership
  <2> QED
    BY <1>1, <1>2, <2>1, ThreadNextConsistent, EndsStayKnown
       DEF KernelInv, Next
<1>3. CASE MutexNext
  <2>1. OwnershipInv'
    BY <1>1, <1>3, MutexNextOwnership
  <2> QED
    BY <1>1, <1>3, <2>1, MutexNextConsistent, EndsStayKnown
       DEF KernelInv, Next
<1>4. CASE UNCHANGED vars
  <2>1. OwnershipInv'
    BY <1>1, <1>4, UnchangedOwnership DEF vars, mutexVars
  <2>2. ConsistentNow' /\ EndsKnown'
    BY <1>1, <1>4 DEF vars, ConsistentNow, EndsKnown
  <2> QED
    BY <2>1, <2>2 DEF KernelInv
<1> QED
  BY <1>2, <1>3, <1>4 DEF Next

\* Every state of the kernel is consistent.
THEOREM KernelStaysConsistent == Spec => []KernelInv
<1>1. KernelInv /\ [Next]_vars => KernelInv'
  BY KernelStep
<1> QED
  BY <1>1, KernelInit, PTL DEF Spec

\* A queue of the program gets a sleeper only by OSSleepThread on that queue.
LEMMA SleepersCome ==
  ASSUME KernelInv, Next, NEW u \in UserQueue, ~OSSleepThread(u),
         NoSleeper(k, WaitQueue(u))
  PROVE  NoSleeper(k', WaitQueue(u))
<1>1. OwnershipInv /\ ConsistentNow /\ OwnershipType
  BY DEF KernelInv, OwnershipInv
<1>2. CASE OSExitThread
  BY <1>1, <1>2, ExitConsistent, EndedSleeps
<1>3. ASSUME NEW t \in Thread, OSCancelThread(t)
      PROVE  NoSleeper(k', WaitQueue(u))
  BY <1>1, <1>3, CancelConsistent, EndedSleeps
<1>4. ASSUME NEW t \in Thread, OSCreateThread(t)
      PROVE  NoSleeper(k', WaitQueue(u))
  BY <1>1, <1>4, CreateConsistent DEF Reborn
<1>5. ASSUME NEW v \in UserQueue, OSSleepThread(v)
      PROVE  NoSleeper(k', WaitQueue(u))
  <2>1. WaitQueue(v) # WaitQueue(u)
    BY <1>5 DEF WaitQueue
  <2> QED
    BY <1>1, <1>5, <2>1, SleepThreadConsistent
<1>6. OwnershipInv'
  <2>1. KernelInv'
    BY KernelStep
  <2> QED
    BY <2>1 DEF KernelInv
<1> QED
  BY <1>1, <1>2, <1>3, <1>4, <1>5, <1>6, OthersQuiet DEF Quiet

-----------------------------------------------------------------------------
(* What follows for the properties.  Times counts the places of a thread in  *)
(* a queue without duplicates.                                               *)

\* Times counts the places of a thread in a queue without duplicates.
LEMMA TimesInQueue ==
  ASSUME Good(k, {}), NEW q \in Queues, NEW t \in Thread
  PROVE  /\ Times(q, t) = IF In(k, q, t) THEN 1 ELSE 0
         /\ t \in Range(k.q[q]) <=> In(k, q, t)
<1> DEFINE s == k.q[q]
           I == {i \in DOMAIN s : s[i] = t}
<1>1. IsInjective(s) /\ (t \in Range(s) <=> In(k, q, t))
  BY DEF Good
<1>2. Times(q, t) = Cardinality(I)
  BY DEF Times
<1>3. CASE In(k, q, t)
  <2>1. PICK i \in DOMAIN s : s[i] = t
    BY <1>1, <1>3 DEF Range
  <2>2. I = {i}
    BY <1>1, <2>1 DEF IsInjective
  <2> HIDE DEF I
  <2>3. Cardinality(I) = 1
    BY <2>2, FS_Singleton
  <2> QED
    BY <1>1, <1>2, <1>3, <2>3
<1>4. CASE ~In(k, q, t)
  <2>1. I = {}
    BY <1>1, <1>4 DEF Range
  <2> HIDE DEF I
  <2>2. Cardinality(I) = 0
    BY <2>1, FS_EmptySet
  <2> QED
    BY <1>1, <1>2, <1>4, <2>2
<1> QED
  BY <1>3, <1>4

\* In a consistent state the run queues are exact.
LEMMA ConsistentRunQueues ==
  ASSUME ConsistentNow
  PROVE  RunQueueExact
<1>1. Good(k, {})
  BY DEF ConsistentNow, Consistent
<1>2. ASSUME NEW t \in Thread, NEW p \in Priority
      PROVE  Times(RunQueue(p), t) =
               IF Runnable(t) /\ k.priority[t] = p THEN 1 ELSE 0
  <2>1. RunQueue(p) \in Queues /\ RunQueue(p) \notin BlockingQueues
    BY QueueNames
  <2>2. Times(RunQueue(p), t) = IF In(k, RunQueue(p), t) THEN 1 ELSE 0
    BY <1>1, <2>1, TimesInQueue
  <2>3. ~(k.state[t] = "SLEEPING" /\ RunQueue(p) = k.queue[t])
    BY <1>1, <2>1 DEF Good, Sound
  <2>4. RunQueue(p) = RunQueue(k.priority[t]) <=> k.priority[t] = p
    BY QueueNames
  <2>5. In(k, RunQueue(p), t) <=> Runnable(t) /\ k.priority[t] = p
    BY <2>3, <2>4 DEF In, Runnable
  <2> QED
    BY <2>2, <2>5
<1>3. k.RunQueueBits = {p \in Priority : k.q[RunQueue(p)] # <<>>}
  BY <1>1 DEF Good, BitsExact
<1> QED
  BY <1>2, <1>3 DEF RunQueueExact

\* In a consistent state the wait queues are exact.
LEMMA ConsistentWaitQueues ==
  ASSUME ConsistentNow
  PROVE  WaitQueueExact
<1>1. Good(k, {})
  BY DEF ConsistentNow, Consistent
<1> SUFFICES ASSUME NEW q \in BlockingQueues
             PROVE  /\ \A t \in Thread :
                         Times(q, t) = IF k.state[t] = "SLEEPING"
                                          /\ k.queue[t] = q THEN 1 ELSE 0
                    /\ \A i, j \in DOMAIN k.q[q] :
                         i < j
                           => k.priority[k.q[q][i]] <= k.priority[k.q[q][j]]
  BY DEF WaitQueueExact
<1>2. ASSUME NEW t \in Thread
      PROVE  Times(q, t) = IF k.state[t] = "SLEEPING" /\ k.queue[t] = q
                           THEN 1 ELSE 0
  <2>1. q \in Queues /\ q # RunQueue(k.priority[t])
    BY QueueNames
  <2>2. Times(q, t) = IF In(k, q, t) THEN 1 ELSE 0
    BY <1>1, <2>1, TimesInQueue
  <2>3. In(k, q, t) <=> k.state[t] = "SLEEPING" /\ k.queue[t] = q
    BY <2>1 DEF In
  <2> QED
    BY <2>2, <2>3
<1>3. \A i, j \in DOMAIN k.q[q] :
        i < j => k.priority[k.q[q][i]] <= k.priority[k.q[q][j]]
  BY <1>1 DEF Good, SortedBy
<1> QED
  BY <1>2, <1>3

\* A wait queue that no sleeping thread points to is empty.
LEMMA NobodyQueued ==
  ASSUME Good(k, {}), NEW q \in BlockingQueues, NoSleeper(k, q)
  PROVE  k.q[q] = <<>> /\ Range(k.q[q]) = {}
<1> DEFINE s == k.q[q]
<1>1. q \in Queues /\ \A t \in Thread : q # RunQueue(k.priority[t])
  BY QueueNames
<1>2. s \in Seq(Thread)
  BY <1>1, Fields DEF Good
<1>3. \A t \in Thread : t \notin Range(s)
  <2>1. \A t \in Thread : ~In(k, q, t)
    BY <1>1 DEF In, NoSleeper
  <2> QED
    BY <1>1, <2>1, TimesInQueue
<1> HIDE DEF s
<1>4. DOMAIN s = {}
  <2>1. \A i \in DOMAIN s : s[i] \in Thread /\ s[i] \in Range(s)
    BY <1>2 DEF Range
  <2> QED
    BY <1>3, <2>1
<1>5. s = <<>>
  BY <1>2, <1>4
<1>6. Range(s) = {}
  BY <1>4 DEF Range
<1> QED
  BY <1>5, <1>6 DEF s

\* In a consistent state nobody waits for a free mutex.
LEMMA ConsistentWaiters ==
  ASSUME ConsistentNow
  PROVE  WaitersHaveOwner
<1> SUFFICES ASSUME NEW m \in Mutex, owner[m] = NULL
             PROVE  k.q[MutexWait(m)] = <<>>
  BY DEF WaitersHaveOwner
<1>1. Good(k, {}) /\ NoSleeper(k, MutexWait(m))
  BY DEF ConsistentNow, Consistent, WaitersOwned
<1>2. MutexWait(m) \in BlockingQueues
  BY QueueNames
<1> QED
  BY <1>1, <1>2, NobodyQueued

\* In a consistent state the alarms belong to sleepers.
LEMMA ConsistentAlarms ==
  ASSUME ConsistentNow
  PROVE  SleepAlarmOnStack
<1>1. k.alarms \subseteq Thread
  BY Fields DEF ConsistentNow, Consistent, Good
<1>2. ASSUME NEW t \in k.alarms
      PROVE  Live(t) /\ pc[t] = SleepingTicks
  <2>1. t \in Thread /\ ~Terminated(k, t) /\ pc[t] = SleepingTicks
    BY <1>1 DEF ConsistentNow, Consistent, AlarmsExact
  <2>2. t \in k.active
    BY <2>1 DEF ConsistentNow, Consistent, LivesExact, Terminated
  <2> QED
    BY <2>1, <2>2 DEF Live
<1> QED
  BY <1>2 DEF SleepAlarmOnStack

\* In a consistent state every end is followed through.
LEMMA ConsistentEnds ==
  ASSUME ConsistentNow
  PROVE  TerminationFollowsThrough
<1> SUFFICES ASSUME NEW t \in Thread, Terminated(k, t),
                    mutexQueue[t] # <<>> \/ Joiners(t) # {}
             PROVE  \E u \in Thread : pc[u] = Terminating(t)
  BY DEF TerminationFollowsThrough
<1>1. Joiners(t) # {} => ~NoSleeper(k, JoinQueue(t))
  <2>1. JoinQueue(t) \in BlockingQueues /\ Good(k, {})
    BY QueueNames DEF ConsistentNow, Consistent
  <2> QED
    BY <2>1, NobodyQueued DEF Joiners
<1> QED
  BY <1>1 DEF ConsistentNow, Consistent, EndsFollowed

\* Every thread is at one of the kernel's places.
CodesKnown == pc \in [Thread -> Codes]

\* A step takes a thread only to one of them.
LEMMA CodesStayKnown ==
  ASSUME CodesKnown, [Next]_vars
  PROVE  CodesKnown'
<1>1. ASSUME NEW c, NEW at \in Codes, pc' = [pc EXCEPT ![c] = at]
      PROVE  CodesKnown'
  BY <1>1 DEF CodesKnown
<1>2. CASE PlacesStep
  BY <1>1, <1>2 DEF PlacesStep, CodesKnown
<1>3. CASE OSExitThread
  <2>1. /\ k.current \in Thread
        /\ pc' = [pc EXCEPT ![k.current] = Terminating(k.current)]
    BY <1>3 DEF OSExitThread, Call, InUserCode, Resumes
  <2> QED
    BY <1>1, <2>1, CodesMembers
<1>4. ASSUME NEW t \in Thread, OSCancelThread(t) PROVE CodesKnown'
  <2>1. pc' = [pc EXCEPT ![k.current] = Terminating(t)]
    BY <1>4 DEF OSCancelThread, Resumes
  <2> QED
    BY <1>1, <2>1, CodesMembers
<1>5. CASE UNCHANGED vars
  BY <1>5 DEF vars, CodesKnown
<1> QED
  BY <1>2, <1>3, <1>4, <1>5, PlacesMove

\* A consistent state has the right shape.
LEMMA ConsistentType ==
  ASSUME OwnershipType, ConsistentNow, CodesKnown
  PROVE  TypeOK
<1>1. k \in Kernel
  BY DEF ConsistentNow, Consistent, Good
<1>2. k.Reschedule \in 0 .. 1
  BY DEF ConsistentNow, Consistent, ProcessorExact
<1>3. k.suspend \in [Thread -> 0 .. MaxSuspend]
  <2>1. k.suspend \in [Thread -> Nat] /\ MaxSuspend \in Nat
    BY <1>1, Fields, ThreadAssumption
  <2>2. \A t \in Thread : k.suspend[t] <= MaxSuspend
    BY DEF ConsistentNow, Consistent, SuspendBounded
  <2>3. \A t \in Thread : k.suspend[t] \in 0 .. MaxSuspend
    BY <2>1, <2>2
  <2> QED
    BY <2>1, <2>3
<1>4. \A t \in Thread :
        pc[t] \in {UserCode, SleepingTicks} \cup {Locking(m) : m \in Mutex}
                    \cup {Joining(u) : u \in Thread}
                    \cup {Terminating(u) : u \in Thread}
  BY DEF CodesKnown, Codes
<1> QED
  BY <1>1, <1>2, <1>3, <1>4, Fields DEF TypeOK, OwnershipType, Queues

\* Every state of the kernel has the shape that its data structures give it.
THEOREM TypeCorrect == Spec => []TypeOK
<1>1. KernelInv /\ CodesKnown => TypeOK
  BY ConsistentType DEF KernelInv, OwnershipInv
<1>2. Init => CodesKnown
  BY CodesMembers DEF Init, CodesKnown
<1>3. CodesKnown /\ [Next]_vars => CodesKnown'
  BY CodesStayKnown
<1> QED
  BY <1>1, <1>2, <1>3, KernelStaysConsistent, PTL DEF Spec

\* SetRun and UnsetRun keep the run queues and RunQueueBits in step with the
\* threads, whatever calls and interrupts come between.
THEOREM RunQueuesStayExact == Spec => []RunQueueExact
<1>1. KernelInv => RunQueueExact
  BY ConsistentRunQueues DEF KernelInv
<1> QED
  BY <1>1, KernelStaysConsistent, PTL

\* Every sleeping thread is in its wait queue, once, and the queue is ordered
\* by the present priorities, through promotions, suspensions, cancellations.
THEOREM WaitQueuesStayExact == Spec => []WaitQueueExact
<1>1. KernelInv => WaitQueueExact
  BY ConsistentWaitQueues DEF KernelInv
<1> QED
  BY <1>1, KernelStaysConsistent, PTL

\* No wakeup of OSUnlockMutex or of __OSUnlockAllMutex is lost.
THEOREM NoWaiterWithoutOwner == Spec => []WaitersHaveOwner
<1>1. KernelInv => WaitersHaveOwner
  BY ConsistentWaiters DEF KernelInv
<1> QED
  BY <1>1, KernelStaysConsistent, PTL

\* The alarm on the stack of OSSleepTicks does not outlive the call.
THEOREM AlarmsStayOnStack == Spec => []SleepAlarmOnStack
<1>1. KernelInv => SleepAlarmOnStack
  BY ConsistentAlarms DEF KernelInv
<1> QED
  BY <1>1, KernelStaysConsistent, PTL

\* OSExitThread and OSCancelThread leave nothing behind: while a thread that
\* is gone owns a mutex or has a joiner, some thread is still at its end.
THEOREM EndsAreFollowedThrough == Spec => []TerminationFollowsThrough
<1>1. KernelInv => TerminationFollowsThrough
  BY ConsistentEnds DEF KernelInv
<1> QED
  BY <1>1, KernelStaysConsistent, PTL

-----------------------------------------------------------------------------
(* Terminations are final. *)

\* A step ends a thread, makes a thread that was gone ready, or does neither.
LEMMA NextLives ==
  ASSUME KernelInv, Next
  PROVE  LivesStep
<1>1. OwnershipInv /\ ConsistentNow
  BY DEF KernelInv
<1>2. CASE ThreadNext
  BY <1>1, <1>2, ThreadNextConsistent
<1>3. CASE MutexNext
  <2>1. OwnershipInv'
    BY <1>1, <1>3, MutexNextOwnership
  <2> QED
    BY <1>1, <1>3, <2>1, MutexNextConsistent DEF LivesStep, Quiet
<1> QED
  BY <1>2, <1>3 DEF Next

\* A terminated thread never runs again: no wakeup, resumption, expired alarm
\* or released mutex makes it ready, only OSCreateThread does.
THEOREM TerminatedThreadsStayDead == Spec => DeadStaysDead
<1>1. KernelInv /\ [Next]_vars
        => [\A t \in Thread :
              Terminated(k, t) /\ k'.state[t] \notin {"MORIBUND", "EXITED"}
                => t \notin k.active /\ k'.state[t] = "READY"
                     /\ k'.suspend[t] > 0]_vars
  <2> SUFFICES ASSUME KernelInv, Next, NEW t \in Thread, Terminated(k, t),
                      k'.state[t] \notin {"MORIBUND", "EXITED"}
               PROVE  t \notin k.active /\ k'.state[t] = "READY"
                        /\ k'.suspend[t] > 0
    OBVIOUS
  <2>1. LivesStep /\ ~Terminated(k', t)
    BY NextLives DEF Terminated
  <2>2. ~SameEnds(k, k')
    BY <2>1 DEF SameEnds
  <2>3. ASSUME NEW u \in Thread PROVE ~Ended(k, k', u)
    BY <2>1 DEF Ended, Terminated
  <2>4. PICK u \in Thread : u \notin k.active /\ Reborn(k, k', u)
    BY <2>1, <2>2, <2>3 DEF LivesStep
  <2>5. u = t
    BY <2>1, <2>4 DEF Reborn
  <2> QED
    BY <2>4, <2>5 DEF Reborn
<1> QED
  BY <1>1, KernelStaysConsistent, PTL DEF Spec, DeadStaysDead

-----------------------------------------------------------------------------
(* The mutex service. *)

Alive == {t \in Thread : Live(t)}
Running == IF k.current \in Alive THEN k.current ELSE NULL

\* The threads the service knows are those that have not ended.
LEMMA AliveExact ==
  ASSUME ConsistentNow
  PROVE  \A t : t \in Alive <=> t \in Thread /\ ~Terminated(k, t)
BY DEF ConsistentNow, Consistent, LivesExact, Alive, Live, Terminated

\* The same after a step.
LEMMA AliveExactNext ==
  ASSUME ConsistentNow'
  PROVE  \A t : t \in Alive' <=> t \in Thread /\ ~Terminated(k', t)
BY DEF ConsistentNow, Consistent, LivesExact, Alive, Live, Terminated

\* The steps of the service, with the kernel's names.
LEMMA ServiceSwitch ==
  ASSUME UNCHANGED <<owner, lock>>, Alive' = Alive
  PROVE  Service!Next
<1>1. Running' \in Alive' \cup {NULL}
  BY DEF Running
<1> QED
  BY <1>1 DEF Service!Next, Service!Switch, Alive, Running

\* A thread ends.
LEMMA ServiceEnd ==
  ASSUME UNCHANGED <<owner, lock>>, NEW t \in Alive, Alive' = Alive \ {t}
  PROVE  Service!Next
<1>1. Running' \in Alive' \cup {NULL} /\ t \in Thread
  BY DEF Running, Alive
<1> QED
  BY <1>1 DEF Service!Next, Service!End, Alive, Running

\* A thread is created.
LEMMA ServiceStart ==
  ASSUME UNCHANGED <<owner, lock>>, NEW t \in Thread \ Alive,
         \A m \in Mutex : owner[m] # t, Alive' = Alive \cup {t}
  PROVE  Service!Next
<1>1. Running' \in Alive' \cup {NULL}
  BY DEF Running
<1> QED
  BY <1>1 DEF Service!Next, Service!Start, Alive, Running

\* The running thread takes a mutex, once more perhaps.
LEMMA ServiceAcquire ==
  ASSUME NEW m \in Mutex, k.current \in Alive,
         owner[m] \in {NULL, k.current}, lock[m] < MaxLock,
         owner' = [owner EXCEPT ![m] = k.current],
         lock' = [lock EXCEPT ![m] = @ + 1], Alive' = Alive
  PROVE  Service!Next
<1>1. Running' \in Alive' \cup {NULL} /\ Running = k.current
  BY DEF Running
<1>2. Service!Acquire(m)
  BY <1>1 DEF Service!Acquire, Alive, Running
<1> QED
  BY <1>1, <1>2 DEF Service!Next, Alive, Running

\* The running thread gives a mutex back.
LEMMA ServiceRelease ==
  ASSUME NEW m \in Mutex, k.current \in Alive, owner[m] = k.current,
         owner' = [owner EXCEPT ![m] = IF lock[m] = 1 THEN NULL ELSE @],
         lock' = [lock EXCEPT ![m] = @ - 1], Alive' = Alive
  PROVE  Service!Next
<1>1. Running' \in Alive' \cup {NULL} /\ Running = k.current
  BY DEF Running
<1>2. Service!Release(m)
  BY <1>1 DEF Service!Release, Alive, Running
<1> QED
  BY <1>1, <1>2 DEF Service!Next, Alive, Running

\* A mutex of a thread that is gone becomes free.
LEMMA ServiceAbandon ==
  ASSUME NEW m \in Mutex, owner[m] \notin Alive \cup {NULL},
         owner' = [owner EXCEPT ![m] = NULL],
         lock' = [lock EXCEPT ![m] = 0], Alive' = Alive
  PROVE  Service!Next
<1>1. Running' \in Alive' \cup {NULL}
  BY DEF Running
<1>2. Service!Abandon(m)
  BY DEF Service!Abandon, Alive
<1> QED
  BY <1>1, <1>2 DEF Service!Next, Alive, Running

\* The calls on threads leave the mutexes alone.
LEMMA ThreadNextOwners ==
  ASSUME ThreadNext
  PROVE  UNCHANGED mutexVars
<1>1. CASE \/ OSExitThread \/ OSYieldThread
           \/ OSSleepTicks \/ OSSleepTicksReturn
           \/ OSDisableScheduler \/ OSEnableScheduler \/ IdleLoopEnd
  BY <1>1
     DEF OSExitThread, OSYieldThread, OSSleepTicks, OSSleepTicksReturn,
         OSDisableScheduler, OSEnableScheduler, IdleLoopEnd
<1>2. ASSUME NEW t \in Thread,
             \/ OSCreateThread(t) \/ OSCancelThread(t) \/ TerminateEnd(t)
             \/ OSJoinThread(t) \/ OSJoinThreadReturn(t) \/ OSDetachThread(t)
             \/ OSResumeThread(t) \/ OSSuspendThread(t)
             \/ OSSetThreadPriority(t) \/ InterruptResume(t)
             \/ SleepAlarmHandler(t)
      PROVE  UNCHANGED mutexVars
  BY <1>2
     DEF OSCreateThread, OSCancelThread, TerminateEnd, OSJoinThread,
         OSJoinThreadReturn, OSDetachThread, OSResumeThread, OSSuspendThread,
         OSSetThreadPriority, InterruptResume, SleepAlarmHandler
<1>3. ASSUME NEW u \in UserQueue,
             OSSleepThread(u) \/ OSWakeupThread(u) \/ InterruptWakeup(u)
      PROVE  UNCHANGED mutexVars
  BY <1>3 DEF OSSleepThread, OSWakeupThread, InterruptWakeup
<1> QED
  BY <1>1, <1>2, <1>3 DEF ThreadNext

\* A call on threads starts a thread, ends one or lets another one run.
LEMMA ThreadNextService ==
  ASSUME KernelInv, ThreadNext
  PROVE  Service!Next
<1>1. OwnershipInv /\ ConsistentNow /\ LivesStep
  BY NextLives DEF KernelInv, Next
<1>2. ConsistentNow'
  BY <1>1, ThreadNextConsistent
<1>3. UNCHANGED <<owner, lock>>
  BY ThreadNextOwners DEF mutexVars
<1>4. CASE SameEnds(k, k')
  <2>1. Alive' = Alive
    BY <1>1, <1>2, <1>4, AliveExact, AliveExactNext DEF SameEnds
  <2> QED
    BY <1>3, <2>1, ServiceSwitch
<1>5. ASSUME NEW t \in Thread, Ended(k, k', t) PROVE Service!Next
  <2>1. /\ Terminated(k', t)
        /\ \A u \in Thread \ {t} : Terminated(k', u) <=> Terminated(k, u)
    BY <1>5 DEF Ended, Terminated
  <2>2. Alive' = Alive \ {t}
    BY <1>1, <1>2, <2>1, AliveExact, AliveExactNext
  <2>3. CASE t \in Alive
    BY <1>3, <2>2, <2>3, ServiceEnd
  <2>4. CASE t \notin Alive
    <3>1. Alive' = Alive
      BY <2>2, <2>4
    <3> QED
      BY <1>3, <3>1, ServiceSwitch
  <2> QED
    BY <2>3, <2>4
<1>6. ASSUME NEW t \in Thread, t \notin k.active, mutexQueue[t] = <<>>,
             Reborn(k, k', t)
      PROVE  Service!Next
  <2>1. t \notin Alive
    BY <1>6 DEF Alive, Live
  <2>2. /\ ~Terminated(k', t)
        /\ \A u \in Thread \ {t} : Terminated(k', u) <=> Terminated(k, u)
    BY <1>6 DEF Reborn, Terminated
  <2>3. Alive' = Alive \cup {t}
    BY <1>1, <1>2, <2>2, AliveExact, AliveExactNext
  <2>4. Range(mutexQueue[t]) = {}
    BY <1>6 DEF Range
  <2>5. \A m \in Mutex : owner[m] # t
    BY <1>1, <2>4 DEF OwnershipInv, OwnershipExact
  <2> QED
    BY <1>3, <2>1, <2>3, <2>5, ServiceStart
<1> QED
  BY <1>1, <1>4, <1>5, <1>6 DEF LivesStep

\* A call on a mutex takes it, gives it back or waits.
LEMMA MutexNextService ==
  ASSUME KernelInv, MutexNext
  PROVE  Service!Next
<1>1. OwnershipInv /\ ConsistentNow /\ EndsKnown /\ OwnershipType
  BY DEF KernelInv, OwnershipInv
<1>2. OwnershipInv'
  BY <1>1, MutexNextOwnership
<1>3. ConsistentNow' /\ SameEnds(k, k')
  BY <1>1, <1>2, MutexNextConsistent DEF Quiet
<1>4. Alive' = Alive
  BY <1>1, <1>3, AliveExact, AliveExactNext DEF SameEnds
<1>5. InUserCode => k.current \in Alive
  BY <1>1, InUserCodeRuns, AliveExact
<1>6. ASSUME NEW m \in Mutex, k.current \in Alive,
             (owner[m] = NULL /\ TakeMutex(m, k.current)) \/ LockAgain(m)
      PROVE  Service!Next
  <2>1. CASE owner[m] = NULL /\ TakeMutex(m, k.current)
    <3>1. lock[m] < MaxLock
      BY <1>1, <2>1, MutexAssumption
         DEF OwnershipInv, OwnershipType, OwnershipExact
    <3> QED
      BY <1>4, <1>6, <2>1, <3>1, ServiceAcquire DEF TakeMutex
  <2>2. CASE LockAgain(m)
    <3>1. owner' = [owner EXCEPT ![m] = k.current]
      BY <1>1, <2>2 DEF LockAgain, OwnershipType
    <3> QED
      BY <1>4, <1>6, <2>2, <3>1, ServiceAcquire DEF LockAgain
  <2> QED
    BY <1>6, <2>1, <2>2
<1>7. ASSUME NEW m \in Mutex, NEW kk, BlockOnMutex(m, kk) PROVE Service!Next
  BY <1>4, <1>7, ServiceSwitch DEF BlockOnMutex, mutexVars
<1>8. ASSUME NEW m \in Mutex, OSLockMutex(m) \/ OSTryLockMutex(m)
      PROVE  Service!Next
  BY <1>5, <1>6, <1>7, <1>8 DEF OSLockMutex, OSTryLockMutex, Call
<1>9. ASSUME NEW m \in Mutex, OSLockMutexRetry(m) PROVE Service!Next
  <2>1. k.current \in Thread /\ pc[k.current] = Locking(m)
    BY <1>9 DEF OSLockMutexRetry, Continues
  <2>2. k.state[k.current] = "RUNNING"
    BY <1>1, <2>1, CodeNames DEF ConsistentNow, Consistent, ProcessorExact
  <2>3. k.current \in Alive
    BY <1>1, <2>1, <2>2, AliveExact DEF Terminated
  <2> QED
    BY <1>6, <1>7, <1>9, <2>3 DEF OSLockMutexRetry
<1>10. ASSUME NEW m \in Mutex, OSUnlockMutex(m) PROVE Service!Next
  <2>1. InUserCode /\ owner[m] = k.current
    BY <1>10 DEF OSUnlockMutex, Call
  <2>2. CASE ReleaseMutex(m)
    <3>1. /\ owner' = [owner EXCEPT ![m] = IF lock[m] = 1 THEN NULL ELSE @]
          /\ lock' = [lock EXCEPT ![m] = @ - 1]
      BY <2>2 DEF ReleaseMutex
    <3> QED
      BY <1>4, <1>5, <2>1, <3>1, ServiceRelease
  <2>3. CASE /\ lock[m] > 1 /\ lock' = [lock EXCEPT ![m] = @ - 1]
             /\ owner' = owner
    <3>1. owner' = [owner EXCEPT ![m] = IF lock[m] = 1 THEN NULL ELSE @]
      BY <1>1, <2>3 DEF OwnershipType
    <3> QED
      BY <1>4, <1>5, <2>1, <2>3, <3>1, ServiceRelease
  <2> QED
    BY <1>10, <2>2, <2>3 DEF OSUnlockMutex
<1>11. ASSUME NEW t \in Thread, __OSUnlockAllMutex(t) PROVE Service!Next
  <2> DEFINE m == Head(mutexQueue[t])
  <2>1. /\ mutexQueue[t] # <<>> /\ mutexQueue[t] \in Seq(Mutex)
        /\ k.current \in Thread /\ pc[k.current] = Terminating(t)
        /\ owner' = [owner EXCEPT ![m] = NULL]
        /\ lock' = [lock EXCEPT ![m] = 0]
    BY <1>1, <1>11 DEF __OSUnlockAllMutex, Continues, OwnershipType
  <2>2. m \in Range(mutexQueue[t])
    BY <2>1 DEF Range
  <2>3. m \in Mutex /\ owner[m] = t
    BY <1>1, <2>2 DEF OwnershipInv, OwnershipExact
  <2>4. t \notin Alive
    BY <1>1, <2>1, AliveExact DEF EndsKnown
  <2> HIDE DEF m
  <2> QED
    BY <1>4, <2>1, <2>3, <2>4, CodeNames, ServiceAbandon
<1> QED
  BY <1>8, <1>9, <1>10, <1>11 DEF MutexNext

\* The kernel implements the mutex service: whatever the priorities, retries
\* and switches inside the calls, a mutex is taken by the thread that runs and
\* given back by its owner or, once the owner is gone, by its termination.
THEOREM KernelImplementsMutexService == Spec => ImplementsMutexService
<1>1. Init => Service!Init
  <2> SUFFICES ASSUME Init PROVE Service!Init
    OBVIOUS
  <2>1. /\ owner = [m \in Mutex |-> NULL] /\ lock = [m \in Mutex |-> 0]
        /\ k.current = DefaultThread /\ k.active = {DefaultThread}
        /\ k.state[DefaultThread] = "RUNNING" /\ DefaultThread \in Thread
    BY KernelAssumption DEF Init
  <2>2. Alive = {DefaultThread}
    BY <2>1 DEF Alive, Live, Terminated
  <2>3. Running = DefaultThread
    BY <2>1, <2>2 DEF Running
  <2> QED
    BY <2>1, <2>2, <2>3 DEF Service!Init, Alive, Running
<1>2. KernelInv /\ [Next]_vars
        => [Service!Next]_<<owner, lock, Alive, Running>>
  <2> SUFFICES ASSUME KernelInv, [Next]_vars
               PROVE  Service!Next \/ UNCHANGED <<owner, lock, Alive, Running>>
    OBVIOUS
  <2>1. CASE ThreadNext
    BY <2>1, ThreadNextService
  <2>2. CASE MutexNext
    BY <2>2, MutexNextService
  <2>3. CASE UNCHANGED vars
    BY <2>3 DEF vars, Alive, Live, Terminated, Running
  <2> QED
    BY <2>1, <2>2, <2>3 DEF Next
<1> QED
  BY <1>1, <1>2, KernelStaysConsistent, PTL
     DEF Spec, ImplementsMutexService, Service!Spec, Alive, Running

-----------------------------------------------------------------------------
(***************************************************************************)
(* Priority inheritance: the priority of every thread that can run or wait *)
(* is what its base priority and the waiters of its mutexes give it,       *)
(* through chains of owners of any length, and the thread that runs is     *)
(* therefore a most urgent one.                                            *)
(*                                                                         *)
(* A waiter lends its priority to the owner of the mutex it waits for.     *)
(* The walks of UpdatePriority and __OSPromoteThread follow the lending:   *)
(* at each step all threads but one are exact, and the walk ends, before   *)
(* WalkBound, at a thread whose priority does not change.  InheritanceInv  *)
(* is the invariant, inductive relative to KernelInv.                      *)
(***************************************************************************)

(* The effective priority, for functions base, prio and lends of threads.  *)

\* p is the least of the base priority of t and the priorities lent to t.
Effective(base, prio, lends, t, p) ==
    /\ p \in Nat /\ p <= base[t]
    /\ \A u \in Thread : lends[u] = t => p <= prio[u]
    /\ p = base[t] \/ \E u \in Thread : lends[u] = t /\ p = prio[u]

Exact(base, prio, lends, t) == Effective(base, prio, lends, t, prio[t])

Numbers(base, prio, lends) ==
    /\ base \in [Thread -> Nat] /\ prio \in [Thread -> Nat]
    /\ lends \in [Thread -> Thread \cup {NULL}]

With(prio, a, x) == [prio EXCEPT ![a] = x]

\* There is one effective priority.
LEMMA EffectiveUnique ==
  ASSUME NEW base, NEW prio, NEW lends, NEW t \in Thread,
         Numbers(base, prio, lends), NEW p, NEW q,
         Effective(base, prio, lends, t, p),
         Effective(base, prio, lends, t, q)
  PROVE  p = q
<1>1. p \in Nat /\ q \in Nat
  BY DEF Effective
<1>2. p <= q
  BY DEF Effective
<1>3. q <= p
  BY DEF Effective
<1> QED
  BY <1>1, <1>2, <1>3

\* And there always is one.
LEMMA EffectiveExists ==
  ASSUME NEW base, NEW prio, NEW lends, NEW t \in Thread,
         Numbers(base, prio, lends)
  PROVE  \E p \in Nat : Effective(base, prio, lends, t, p)
<1> DEFINE S == {base[t]} \cup {prio[u] : u \in {v \in Thread : lends[v] = t}}
<1>1. S \in SUBSET Nat /\ S # {}
  BY DEF Numbers
<1>2. PICK p \in S : \A x \in S : p <= x
  BY <1>1, LeastElement
<1>3. p \in Nat /\ p <= base[t]
  BY <1>1, <1>2
<1>4. \A u \in Thread : lends[u] = t => p <= prio[u]
  BY <1>2
<1>5. p = base[t] \/ \E u \in Thread : lends[u] = t /\ p = prio[u]
  BY <1>2
<1> QED
  BY <1>3, <1>4, <1>5 DEF Effective

\* What a thread has is no concern of one that it lends nothing.
LEMMA LendsToOther ==
  ASSUME NEW base, NEW prio, NEW lends, Numbers(base, prio, lends),
         NEW a \in Thread, NEW x, NEW t \in Thread, lends[a] # t, NEW p,
         NEW prio1, prio1 = With(prio, a, x)
  PROVE  Effective(base, prio, lends, t, p)
           <=> Effective(base, prio1, lends, t, p)
<1>1. \A u \in Thread : lends[u] = t => prio1[u] = prio[u]
  BY DEF Numbers, With
<1> QED
  BY <1>1 DEF Effective

\* A lender becomes more urgent.
LEMMA LendsMore ==
  ASSUME NEW base, NEW prio, NEW lends, Numbers(base, prio, lends),
         NEW a \in Thread, NEW x \in Nat, x <= prio[a],
         NEW t \in Thread, lends[a] = t,
         NEW p, Effective(base, prio, lends, t, p),
         NEW prio1, prio1 = With(prio, a, x)
  PROVE  Effective(base, prio1, lends, t, IF p <= x THEN p ELSE x)
<1>1. /\ p \in Nat /\ p <= base[t] /\ base[t] \in Nat
      /\ \A u \in Thread : prio[u] \in Nat /\ prio1[u] \in Nat
      /\ \A u \in Thread : lends[u] = t => p <= prio[u]
      /\ prio1[a] = x /\ \A u \in Thread \ {a} : prio1[u] = prio[u]
  BY DEF Effective, Numbers, With
<1>2. CASE p <= x
  <2>1. \A u \in Thread : lends[u] = t => p <= prio1[u]
    BY <1>1, <1>2
  <2>2. p = base[t] \/ \E u \in Thread : lends[u] = t /\ p = prio1[u]
    <3>1. CASE p = base[t]
      BY <3>1
    <3>2. CASE \E u \in Thread : lends[u] = t /\ p = prio[u]
      <4>1. PICK u \in Thread : lends[u] = t /\ p = prio[u]
        BY <3>2
      <4>2. CASE u = a
        BY <1>1, <1>2, <4>1, <4>2
      <4>3. CASE u # a
        BY <1>1, <4>1, <4>3
      <4> QED
        BY <4>2, <4>3
    <3> QED
      BY <3>1, <3>2 DEF Effective
  <2> QED
    BY <1>1, <1>2, <2>1, <2>2 DEF Effective
<1>3. CASE ~(p <= x)
  <2>1. \A u \in Thread : lends[u] = t => x <= prio1[u]
    BY <1>1, <1>3
  <2>2. x <= base[t]
    BY <1>1, <1>3
  <2> QED
    BY <1>1, <1>3, <2>1, <2>2 DEF Effective
<1> QED
  BY <1>2, <1>3

\* A lender becomes less urgent: if it was not the most urgent one, nothing
\* happens, and otherwise the priority can only fall.
LEMMA LendsLess ==
  ASSUME NEW base, NEW prio, NEW lends, Numbers(base, prio, lends),
         NEW a \in Thread, NEW x \in Nat, prio[a] < x,
         NEW t \in Thread, lends[a] = t,
         NEW p, Effective(base, prio, lends, t, p),
         NEW prio1, prio1 = With(prio, a, x),
         NEW q, Effective(base, prio1, lends, t, q)
  PROVE  q = p \/ (p = prio[a] /\ q > p)
<1>1. /\ p \in Nat /\ p <= base[t] /\ base[t] \in Nat /\ q \in Nat
      /\ \A u \in Thread : prio[u] \in Nat /\ prio1[u] \in Nat
      /\ \A u \in Thread : lends[u] = t => p <= prio[u]
      /\ prio1[a] = x /\ \A u \in Thread \ {a} : prio1[u] = prio[u]
  BY DEF Effective, Numbers, With
<1>2. Numbers(base, prio1, lends)
  BY DEF Numbers, With
<1>3. \A u \in Thread : lends[u] = t => p <= prio1[u]
  BY <1>1
<1>4. p <= q
  BY <1>1, <1>3 DEF Effective
<1>5. ASSUME p # prio[a] PROVE q = p
  <2>1. p = base[t] \/ \E u \in Thread : lends[u] = t /\ p = prio1[u]
    BY <1>1, <1>5 DEF Effective
  <2>2. Effective(base, prio1, lends, t, p)
    BY <1>1, <1>3, <2>1 DEF Effective
  <2> QED
    BY <1>2, <2>2, EffectiveUnique
<1> QED
  BY <1>1, <1>4, <1>5

-----------------------------------------------------------------------------
(* A walk, as a sequence of changes of prio.  All threads of E but the one  *)
(* the walk has come to have their effective priority.                      *)

OthersExact(base, prio, lends, E, at) ==
    \A t \in E \ {at} : Exact(base, prio, lends, t)

\* The walk makes threads more urgent, as urgent as v.
Raising(base, prio, lends, E, v, at) ==
    /\ OthersExact(base, prio, lends, E, at)
    /\ at \in E
         => \/ Exact(base, prio, lends, at) /\ prio[at] <= v
            \/ Effective(base, prio, lends, at, v) /\ v < prio[at]

\* The walk makes threads less urgent that were as urgent as v.
Lowering(base, prio, lends, E, v, at) ==
    /\ OthersExact(base, prio, lends, E, at)
    /\ at \in E
         => \/ Exact(base, prio, lends, at)
            \/ /\ prio[at] = v
               /\ \A q : Effective(base, prio, lends, at, q) => q > v

\* A step of such a walk goes on to the thread that the changed one lends to.
LEMMA RaisingMoves ==
  ASSUME NEW base, NEW prio, NEW lends, Numbers(base, prio, lends),
         NEW E \in SUBSET Thread, NEW v \in Nat, NEW a \in E,
         Raising(base, prio, lends, E, v, a), ~Exact(base, prio, lends, a),
         NEW prio1, prio1 = With(prio, a, v)
  PROVE  v < prio[a] /\ Raising(base, prio1, lends, E, v, lends[a])
<1>1. /\ v < prio[a] /\ Effective(base, prio, lends, a, v)
      /\ a \in Thread /\ prio[a] \in Nat /\ v <= prio[a]
      /\ \A t \in E \ {a} : Exact(base, prio, lends, t)
  BY DEF Raising, OthersExact, Numbers
<1>2. prio1[a] = v /\ \A t \in Thread \ {a} : prio1[t] = prio[t]
  BY <1>1 DEF Numbers, With
<1>3. ASSUME NEW t \in E \ {lends[a]} PROVE Exact(base, prio1, lends, t)
  <2>1. t \in Thread /\ lends[a] # t
    OBVIOUS
  <2>2. \A p : Effective(base, prio, lends, t, p)
                 => Effective(base, prio1, lends, t, p)
    BY <1>1, <2>1, LendsToOther
  <2>3. Effective(base, prio, lends, t, prio1[t])
    BY <1>1, <1>2, <2>1 DEF Exact
  <2> QED
    BY <2>2, <2>3 DEF Exact
<1>4. ASSUME lends[a] \in E
      PROVE  \/ Exact(base, prio1, lends, lends[a]) /\ prio1[lends[a]] <= v
             \/ /\ Effective(base, prio1, lends, lends[a], v)
                /\ v < prio1[lends[a]]
  <2> DEFINE t == lends[a]
  <2>1. t \in Thread /\ lends[a] = t
    BY <1>4
  <2>2. \A p : Effective(base, prio, lends, t, p)
                 => Effective(base, prio1, lends, t,
                              IF p <= v THEN p ELSE v)
    BY <1>1, <2>1, LendsMore
  <2>3. CASE t = a
    <3>1. Effective(base, prio1, lends, t, IF v <= v THEN v ELSE v)
      BY <1>1, <2>2, <2>3
    <3>2. prio1[t] = v
      BY <1>2, <2>3
    <3> QED
      BY <3>1, <3>2 DEF Exact
  <2>4. CASE t # a
    <3>1. Effective(base, prio, lends, t, prio[t]) /\ prio[t] \in Nat
      BY <1>1, <1>4, <2>1, <2>4 DEF Exact, Numbers
    <3>2. Effective(base, prio1, lends, t, IF prio[t] <= v THEN prio[t] ELSE v)
      BY <2>2, <3>1
    <3>3. prio1[t] = prio[t]
      BY <1>2, <2>1, <2>4
    <3> QED
      BY <3>1, <3>2, <3>3 DEF Exact
  <2> QED
    BY <2>3, <2>4
<1>5. OthersExact(base, prio1, lends, E, lends[a])
  BY <1>3 DEF OthersExact
<1> QED
  BY <1>1, <1>4, <1>5 DEF Raising

\* The same in the other direction.
LEMMA LoweringMoves ==
  ASSUME NEW base, NEW prio, NEW lends, Numbers(base, prio, lends),
         NEW E \in SUBSET Thread, NEW v \in Nat, NEW a \in E,
         Lowering(base, prio, lends, E, v, a), ~Exact(base, prio, lends, a),
         NEW x, Effective(base, prio, lends, a, x),
         NEW prio1, prio1 = With(prio, a, x)
  PROVE  /\ prio[a] = v /\ prio1[a] > v
         /\ Lowering(base, prio1, lends, E, v, lends[a])
<1>1. /\ prio[a] = v /\ x > v /\ x \in Nat
      /\ a \in Thread /\ prio[a] \in Nat /\ prio[a] < x
      /\ \A t \in E \ {a} : Exact(base, prio, lends, t)
  BY DEF Lowering, OthersExact, Numbers, Effective
<1>2. prio1[a] = x /\ \A t \in Thread \ {a} : prio1[t] = prio[t]
  BY <1>1 DEF Numbers, With
<1>3. lends[a] # a
  <2> SUFFICES ASSUME lends[a] = a PROVE FALSE
    OBVIOUS
  <2>1. x <= prio[a]
    BY <1>1 DEF Effective
  <2> QED
    BY <1>1, <2>1
<1>4. ASSUME NEW t \in E \ {lends[a]} PROVE Exact(base, prio1, lends, t)
  <2>1. t \in Thread /\ lends[a] # t
    OBVIOUS
  <2>2. \A p : Effective(base, prio, lends, t, p)
                 => Effective(base, prio1, lends, t, p)
    BY <1>1, <2>1, LendsToOther
  <2>3. Effective(base, prio, lends, t, prio1[t])
    BY <1>1, <1>2, <2>1 DEF Exact
  <2> QED
    BY <2>2, <2>3 DEF Exact
<1>5. ASSUME lends[a] \in E
      PROVE  \/ Exact(base, prio1, lends, lends[a])
             \/ /\ prio1[lends[a]] = v
                /\ \A q : Effective(base, prio1, lends, lends[a], q) => q > v
  <2> DEFINE t == lends[a]
             p == prio[t]
  <2>1. t \in Thread /\ t # a /\ lends[a] = t
    BY <1>3, <1>5
  <2>2. Effective(base, prio, lends, t, p) /\ prio1[t] = p
    BY <1>1, <1>2, <1>5, <2>1 DEF Exact
  <2>3. \A q : Effective(base, prio1, lends, t, q)
                 => q = p \/ (p = prio[a] /\ q > p)
    <3> SUFFICES ASSUME NEW q, Effective(base, prio1, lends, t, q)
                 PROVE  q = p \/ (p = prio[a] /\ q > p)
      OBVIOUS
    <3> HIDE DEF p, t
    <3> QED
      BY <1>1, <2>1, <2>2, LendsLess
  <2>4. Numbers(base, prio1, lends)
    BY <1>1 DEF Numbers, With
  <2>5. PICK q \in Nat : Effective(base, prio1, lends, t, q)
    BY <2>1, <2>4, EffectiveExists
  <2>6. CASE q = p
    BY <2>2, <2>5, <2>6 DEF Exact
  <2>7. CASE q # p
    <3>1. p = v /\ q > v
      BY <1>1, <2>3, <2>5, <2>7
    <3>2. \A y : Effective(base, prio1, lends, t, y) => y = q
      BY <2>1, <2>4, <2>5, EffectiveUnique
    <3> QED
      BY <2>2, <3>1, <3>2
  <2> QED
    BY <2>6, <2>7
<1>6. OthersExact(base, prio1, lends, E, lends[a])
  BY <1>4 DEF OthersExact
<1> QED
  BY <1>1, <1>2, <1>5, <1>6 DEF Lowering

\* A walk that comes to a thread which has its effective priority, or to none
\* of E, has done its work.
LEMMA WalkDone ==
  ASSUME NEW base, NEW prio, NEW lends, NEW E, NEW at,
         OthersExact(base, prio, lends, E, at),
         at \in E => Exact(base, prio, lends, at)
  PROVE  \A t \in E : Exact(base, prio, lends, t)
BY DEF OthersExact

-----------------------------------------------------------------------------
(* The effective priorities of the kernel's threads.                        *)

\* The thread that a sleeper lends its priority to; those of L lend none.
Lends(kk, ow, L) ==
    [u \in Thread |-> IF /\ u \notin L /\ kk.state[u] = "SLEEPING"
                         /\ kk.mutex[u] # NULL
                      THEN ow[kk.mutex[u]] ELSE NULL]

\* The threads that have a priority to be run with.
Ranked(kk, L) ==
    {t \in Thread \ L : ~Terminated(kk, t) /\ kk.suspend[t] = 0}

\* A sleeper is in the queue of the mutex it waits for.
Linked(kk, L) ==
    \A u \in Thread \ L :
      kk.state[u] = "SLEEPING"
        => \A m \in Mutex : kk.queue[u] = MutexWait(m) <=> kk.mutex[u] = m

\* The mutex queues are those of the owners.
Owned(ow, mq) ==
    /\ ow \in [Mutex -> Thread \cup {NULL}]
    /\ mq \in [Thread -> Seq(Mutex)]
    /\ \A t \in Thread : Range(mq[t]) = {m \in Mutex : ow[m] = t}

\* All threads but one have the priority that is due to them.
Inherited(kk, ow, L, at) ==
    OthersExact(kk.base, kk.priority, Lends(kk, ow, L), Ranked(kk, L), at)

\* The fields are functions to numbers and threads.
LEMMA KernelNumbers ==
  ASSUME NEW kk \in Kernel, NEW L, NEW ow \in [Mutex -> Thread \cup {NULL}]
  PROVE  Numbers(kk.base, kk.priority, Lends(kk, ow, L))
<1>1. kk.base \in [Thread -> Nat] /\ kk.priority \in [Thread -> Nat]
  BY Fields, PriorityNumbers
<1>2. \A u \in Thread : kk.mutex[u] \in Mutex \cup {NULL}
  BY Fields
<1>3. Lends(kk, ow, L) \in [Thread -> Thread \cup {NULL}]
  BY <1>2 DEF Lends
<1> QED
  BY <1>1, <1>3 DEF Numbers

\* The head of a wait queue that is not empty is its most urgent member.
LEMMA MostUrgentWaiter ==
  ASSUME NEW kk, NEW L, Good(kk, L), NEW q \in BlockingQueues, kk.q[q] # <<>>
  PROVE  /\ Head(kk.q[q]) \in Range(kk.q[q])
         /\ \A u \in Range(kk.q[q]) :
              kk.priority[Head(kk.q[q])] <= kk.priority[u]
<1>1. /\ kk \in Kernel /\ q \in Queues /\ kk.q[q] \in Seq(Thread)
      /\ SortedBy(kk.q[q], kk.priority)
  <2>1. kk \in Kernel /\ q \in Queues
    BY QueueNames DEF Good
  <2> QED
    BY <2>1, Fields DEF Good
<1> DEFINE s == kk.q[q]
           p == kk.priority
<1>2. s \in Seq(Thread) /\ s # <<>> /\ SortedBy(s, p) /\ p \in [Thread -> Nat]
  BY <1>1, Fields, PriorityNumbers
<1> HIDE DEF s, p
<1>3. /\ Len(s) \in Nat /\ Len(s) # 0 /\ DOMAIN s = 1 .. Len(s)
      /\ Head(s) = s[1]
  BY <1>2, EmptySeq
<1>4. 1 \in DOMAIN s
  BY <1>3
<1>5. Head(s) \in Range(s) /\ Head(s) \in Thread
  BY <1>2, <1>3, <1>4 DEF Range
<1>6. ASSUME NEW u \in Range(s) PROVE p[Head(s)] <= p[u]
  <2>1. PICK i \in DOMAIN s : u = s[i]
    BY DEF Range
  <2>2. CASE i = 1
    <3>1. u = Head(s)
      BY <1>3, <2>1, <2>2
    <3> QED
      BY <1>2, <1>5, <3>1
  <2>3. CASE i # 1
    <3>1. 1 < i
      BY <1>3, <2>3
    <3> QED
      BY <1>2, <1>3, <1>4, <2>1, <3>1 DEF SortedBy
  <2> QED
    BY <2>2, <2>3
<1> QED
  BY <1>5, <1>6 DEF s, p

\* The waiters of a mutex are the sleepers that wait for it.
LEMMA WaitersOf ==
  ASSUME NEW kk, NEW L, Good(kk, L), Linked(kk, L), NEW m \in Mutex
  PROVE  Range(kk.q[MutexWait(m)])
           = {u \in Thread \ L :
                kk.state[u] = "SLEEPING" /\ kk.mutex[u] = m}
<1>1. /\ MutexWait(m) \in Queues
      /\ \A p : MutexWait(m) # RunQueue(p)
  BY QueueNames
<1>2. \A u \in Thread : u \in Range(kk.q[MutexWait(m)])
                          <=> u \notin L /\ In(kk, MutexWait(m), u)
  BY <1>1 DEF Good
<1>3. Range(kk.q[MutexWait(m)]) \subseteq Thread
  <2>1. kk.q[MutexWait(m)] \in Seq(Thread)
    BY <1>1, Fields DEF Good
  <2> QED
    BY <2>1 DEF Range
<1>4. \A u \in Thread \ L :
        In(kk, MutexWait(m), u)
          <=> kk.state[u] = "SLEEPING" /\ kk.mutex[u] = m
  BY <1>1 DEF In, Linked
<1> QED
  BY <1>2, <1>3, <1>4

\* What __OSGetEffectivePriority computes.
LEMMA EffectiveComputed ==
  ASSUME NEW kk, NEW L, Good(kk, L), Linked(kk, L),
         NEW ow, NEW mq, Owned(ow, mq), NEW t \in Thread
  PROVE  Effective(kk.base, kk.priority, Lends(kk, ow, L), t,
                   __OSGetEffectivePriority(kk, mq, t))
<1> DEFINE waited == {m \in Range(mq[t]) : kk.q[MutexWait(m)] # <<>>}
           first(m) == Head(kk.q[MutexWait(m)])
           S == {kk.base[t]} \cup {kk.priority[first(m)] : m \in waited}
           p == Min(S)
           lends == Lends(kk, ow, L)
<1>1. /\ kk \in Kernel /\ kk.base[t] \in Nat
      /\ \A u \in Thread : kk.priority[u] \in Nat
      /\ \A u \in Thread : kk.mutex[u] \in Mutex \cup {NULL}
  <2>1. kk \in Kernel
    BY DEF Good
  <2> QED
    BY <2>1, Fields, PriorityNumbers
<1>2. waited = {m \in Mutex : ow[m] = t /\ kk.q[MutexWait(m)] # <<>>}
  BY DEF Owned
<1>3. ASSUME NEW m \in waited
      PROVE  /\ first(m) \in Thread /\ lends[first(m)] = t
             /\ \A u \in Thread :
                  u \notin L /\ kk.state[u] = "SLEEPING" /\ kk.mutex[u] = m
                    => kk.priority[first(m)] <= kk.priority[u]
  <2>1. m \in Mutex /\ ow[m] = t /\ kk.q[MutexWait(m)] # <<>>
    BY <1>2
  <2>2. MutexWait(m) \in BlockingQueues /\ m # NULL
    BY <2>1, QueueNames, KernelAssumption
  <2>3. /\ first(m) \in Range(kk.q[MutexWait(m)])
        /\ \A u \in Range(kk.q[MutexWait(m)]) :
             kk.priority[first(m)] <= kk.priority[u]
    BY <2>1, <2>2, MostUrgentWaiter
  <2>4. Range(kk.q[MutexWait(m)])
          = {u \in Thread \ L : kk.state[u] = "SLEEPING" /\ kk.mutex[u] = m}
    BY <2>1, WaitersOf
  <2> HIDE DEF first
  <2> QED
    BY <2>1, <2>2, <2>3, <2>4 DEF Lends
<1>4. ASSUME NEW u \in Thread, lends[u] = t
      PROVE  /\ u \notin L /\ kk.state[u] = "SLEEPING"
             /\ kk.mutex[u] \in waited
  <2>1. /\ u \notin L /\ kk.state[u] = "SLEEPING" /\ kk.mutex[u] # NULL
        /\ ow[kk.mutex[u]] = t
    BY <1>4, KernelAssumption DEF Lends
  <2>2. kk.mutex[u] \in Mutex
    BY <1>1, <2>1
  <2>3. u \in Range(kk.q[MutexWait(kk.mutex[u])])
    BY <2>1, <2>2, WaitersOf
  <2>4. kk.q[MutexWait(kk.mutex[u])] # <<>>
    BY <2>3 DEF Range
  <2> QED
    BY <1>2, <2>1, <2>2, <2>4
<1> HIDE DEF waited, first, lends
<1>5. S \in SUBSET Nat /\ S # {}
  BY <1>1, <1>3
<1>6. p \in S /\ p \in Nat /\ \A x \in S : p <= x
  <2> HIDE DEF S
  <2>1. \E x \in S : \A y \in S : x <= y
    BY <1>5, LeastElement
  <2> QED
    BY <1>5, <2>1 DEF Min
<1> HIDE DEF p
<1>7. p <= kk.base[t]
  BY <1>6
<1>8. ASSUME NEW u \in Thread, lends[u] = t PROVE p <= kk.priority[u]
  <2> DEFINE m == kk.mutex[u]
  <2>1. m \in waited /\ u \notin L /\ kk.state[u] = "SLEEPING"
    BY <1>4, <1>8
  <2>2. kk.priority[first(m)] <= kk.priority[u] /\ first(m) \in Thread
    BY <1>3, <2>1
  <2>3. p <= kk.priority[first(m)]
    BY <1>6, <2>1
  <2> HIDE DEF m
  <2> QED
    BY <1>1, <1>6, <2>2, <2>3
<1>9. p = kk.base[t] \/ \E u \in Thread : lends[u] = t /\ p = kk.priority[u]
  BY <1>3, <1>6
<1>10. Effective(kk.base, kk.priority, lends, t, p)
  BY <1>6, <1>7, <1>8, <1>9 DEF Effective
<1>11. p = __OSGetEffectivePriority(kk, mq, t)
  BY DEF __OSGetEffectivePriority, p, S, waited, first
<1> QED
  BY <1>10, <1>11 DEF lends

-----------------------------------------------------------------------------
(* The steps of the walks of UpdatePriority and __OSPromoteThread.          *)

\* The priority of t is all that SetEffectivePriority changes of priorities.
LEMMA SetPriorityField ==
  ASSUME NEW kk, NEW L, Good(kk, L), NEW t \in Thread \ L,
         kk.suspend[t] = 0, NEW p \in Priority,
         NEW r, r = SetEffectivePriority(kk, t, p)
  PROVE  IF Terminated(kk, t) THEN r = kk
         ELSE r.priority = With(kk.priority, t, p)
<1>1. kk \in Kernel /\ kk.state[t] \in States /\ p \in 0 .. OS_PRIORITY_MAX + 1
  <2>1. kk \in Kernel
    BY DEF Good
  <2> QED
    BY <2>1, Fields, PriorityNumbers
<1>2. CASE kk.state[t] = "READY"
  <2> DEFINE x == UnsetRun(kk, t)
             y == [x EXCEPT !.priority[t] = p]
  <2>1. r = SetRun(y, t)
    BY <1>2 DEF SetEffectivePriority
  <2>2. x \in Kernel /\ x.priority = kk.priority
    <3>1. /\ kk.q = kk.q /\ kk.RunQueueBits = kk.RunQueueBits
          /\ kk.queue = kk.queue /\ kk.priority = kk.priority
          /\ \A u \in Thread \ {t} : SameAt(kk, kk, u)
      BY DEF SameAt
    <3>2. x = UnsetRun(kk, t)
      OBVIOUS
    <3> HIDE DEF x
    <3> QED
      BY <1>1, <1>2, <3>1, <3>2, UnsetRunEffect, SMTT(30) DEF Good
  <2> HIDE DEF x
  <2>3. [x.priority EXCEPT ![t] = p] \in [Thread -> 0 .. OS_PRIORITY_MAX + 1]
    BY <1>1, <2>2, Fields
  <2>4. y \in Kernel /\ y.priority = [x.priority EXCEPT ![t] = p]
    BY <2>2, <2>3 DEF Kernel
  <2> HIDE DEF y
  <2>5. r.priority = y.priority
    BY <2>1, <2>4 DEF SetRun, Kernel
  <2> QED
    BY <1>2, <2>2, <2>4, <2>5 DEF With, Terminated
<1>3. CASE kk.state[t] = "SLEEPING"
  <2>1. r = Requeue(kk, t, p)
    BY <1>3 DEF SetEffectivePriority
  <2>2. r.priority = [kk.priority EXCEPT ![t] = p]
    BY <1>1, <2>1 DEF Requeue, Kernel
  <2> QED
    BY <1>3, <2>2 DEF With, Terminated
<1>4. CASE kk.state[t] = "RUNNING"
  <2>1. r = [kk EXCEPT !.RunQueueHint = TRUE, !.priority[t] = p]
    BY <1>4 DEF SetEffectivePriority
  <2>2. r.priority = [kk.priority EXCEPT ![t] = p]
    BY <1>1, <2>1 DEF Kernel
  <2> QED
    BY <1>4, <2>2 DEF With, Terminated
<1>5. CASE kk.state[t] \in {"MORIBUND", "EXITED"}
  BY <1>5 DEF SetEffectivePriority, Terminated
<1> QED
  BY <1>1, <1>2, <1>3, <1>4, <1>5 DEF States

\* The thread that the walk has come to needs no other priority.
Finished(kk, L, lends, s) ==
    s.at \in Ranked(kk, L) => Exact(kk.base, s.k.priority, lends, s.at)

\* lends says of the threads of the walk whom they wait for.
Leads(kk, L, C, Z, lends) ==
    \A u \in C \ Z : u \in Ranked(kk, L) => lends[u] = BlockedBy(kk, u)

\* What a step of a walk in kk does.
LEMMA StepMoves ==
  ASSUME NEW kk, NEW L, NEW C, ClosedFor(C, kk, L), NEW Z, NEW lends,
         Leads(kk, L, C, Z, lends),
         NEW s \in Reached(kk, L, C), s.at \notin Z, NEW p,
         s.at # NULL /\ s.k.priority[s.at] # p => p \in Priority,
         NEW r, r = WalkStep(s, p)
  PROVE  \/ s.at \notin Ranked(kk, L)
            /\ r.k.priority = s.k.priority /\ r.at \notin Ranked(kk, L)
         \/ s.at \in Ranked(kk, L) /\ s.k.priority[s.at] = p /\ r = s
         \/ /\ s.at \in Ranked(kk, L) /\ s.k.priority[s.at] # p
            /\ r.k.priority = With(s.k.priority, s.at, p)
            /\ r.at = lends[s.at]
<1> DEFINE a == s.at
<1>1. /\ s.k \in Kernel /\ Good(s.k, L) /\ Repriced(kk, s.k)
      /\ a \in C \cup {NULL} /\ C \subseteq Thread \ L
      /\ NULL \notin Ranked(kk, L) /\ NULL \notin Thread
  BY KernelAssumption DEF Reached, ClosedFor, Ranked
<1>2. /\ s.k.state = kk.state /\ s.k.suspend = kk.suspend
      /\ s.k.mutex = kk.mutex
  BY <1>1 DEF Repriced, Frame
<1>3. CASE a = NULL
  BY <1>1, <1>3 DEF WalkStep
<1>4. CASE a \in C /\ s.k.suspend[a] > 0
  <2>1. a \notin Ranked(kk, L)
    <3>1. kk.suspend[a] # 0
      BY <1>1, <1>2, <1>4, Fields
    <3> QED
      BY <3>1 DEF Ranked
  <2>2. r = s
    BY <1>4 DEF WalkStep
  <2> QED
    BY <2>1, <2>2
<1>5. CASE a \in C /\ ~(s.k.suspend[a] > 0) /\ s.k.priority[a] = p
  <2>1. r = s
    BY <1>5 DEF WalkStep
  <2> QED
    BY <1>5, <2>1
<1>6. CASE a \in C /\ ~(s.k.suspend[a] > 0) /\ s.k.priority[a] # p
  <2>1. /\ r.k = SetEffectivePriority(s.k, a, p) /\ r.at = BlockedBy(s.k, a)
        /\ a \in Thread \ L /\ a # NULL /\ p \in Priority
    BY <1>1, <1>6 DEF WalkStep
  <2>2. s.k.suspend[a] = 0
    BY <1>1, <1>6, <2>1, Fields
  <2>3. IF Terminated(s.k, a) THEN r.k = s.k
        ELSE r.k.priority = With(s.k.priority, a, p)
    BY <1>1, <2>1, <2>2, SetPriorityField
  <2>4. Terminated(s.k, a) <=> a \notin Ranked(kk, L)
    BY <1>2, <2>1, <2>2 DEF Ranked, Terminated
  <2>5. BlockedBy(s.k, a) = BlockedBy(kk, a)
    BY <1>2 DEF BlockedBy
  <2>6. CASE Terminated(s.k, a)
    <3>1. r.at = NULL
      BY <2>1, <2>6 DEF BlockedBy, Terminated
    <3> QED
      BY <1>1, <2>3, <2>4, <2>6, <3>1
  <2>7. CASE ~Terminated(s.k, a)
    <3>1. lends[a] = BlockedBy(kk, a)
      BY <1>6, <2>4, <2>7 DEF Leads
    <3> QED
      BY <1>6, <2>1, <2>3, <2>4, <2>5, <2>7, <3>1
  <2> QED
    BY <2>6, <2>7
<1> QED
  BY <1>1, <1>3, <1>4, <1>5, <1>6

\* M[n] is a part of S, and loses a member until n is one of D.
Shrinking(M, N, S, D) ==
    /\ \A n \in 0 .. N : M[n] \subseteq S
    /\ \A n \in 1 .. N :
         \/ n \in D
         \/ n - 1 \notin D /\ \E x \in M[n - 1] : M[n] = M[n - 1] \ {x}

\* A finite set does not lose a member N times.
LEMMA Shrinks ==
  ASSUME NEW N \in Nat, NEW S, IsFiniteSet(S), Cardinality(S) < N,
         NEW M, NEW D, Shrinking(M, N, S, D)
  PROVE  N \in D
<1> USE DEF Shrinking
<1> DEFINE c == Cardinality(S)
           T == {n \in Nat : n <= N => \/ n \in D
                                       \/ /\ IsFiniteSet(M[n])
                                          /\ n + Cardinality(M[n]) <= c}
<1>1. /\ c \in Nat
      /\ \A n \in 0 .. N : IsFiniteSet(M[n]) /\ Cardinality(M[n]) \in Nat
                           /\ Cardinality(M[n]) <= c
  BY FS_CardinalityType, FS_Subset
<1> HIDE DEF c
<1>2. 0 \in T
  BY <1>1
<1>3. ASSUME NEW n \in Nat, n \in T PROVE n + 1 \in T
  <2> SUFFICES ASSUME n + 1 <= N, n + 1 \notin D
               PROVE  n + 1 + Cardinality(M[n + 1]) <= c
    BY <1>1
  <2>1. n + 1 \in 1 .. N /\ (n + 1) - 1 = n /\ n \in 0 .. N
        /\ n + 1 \in 0 .. N
    OBVIOUS
  <2>2. n \notin D
    BY <2>1
  <2>3. PICK x \in M[n] : M[n + 1] = M[n] \ {x}
    BY <2>1
  <2>4. IsFiniteSet(M[n]) /\ n + Cardinality(M[n]) <= c
    BY <1>3, <2>1, <2>2
  <2>5. Cardinality(M[n + 1]) = Cardinality(M[n]) - 1
    BY <2>3, <2>4, FS_RemoveElement
  <2> QED
    BY <1>1, <2>1, <2>4, <2>5
<1> HIDE DEF T
<1>4. Nat \subseteq T
  BY <1>2, <1>3, Induction
<1>5. N \in D \/ N + Cardinality(M[N]) <= c
  BY <1>4 DEF T
<1>6. N \in 0 .. N /\ c < N
  BY DEF c
<1> QED
  BY <1>1, <1>5, <1>6

Above(prio, v) == {t \in Thread : prio[t] > v}
Level(prio, v) == {t \in Thread : prio[t] = v}

\* The walk raises threads to v; those of Z are that urgent.
Up(kk, L, Z, lends, v, s) ==
    /\ Numbers(kk.base, s.k.priority, lends)
    /\ \A u \in Z : s.k.priority[u] <= v
    /\ Raising(kk.base, s.k.priority, lends, Ranked(kk, L), v, s.at)

\* A step of such a walk wants v, or nothing.
WantedUp(kk, L, lends, v, s, p) ==
    /\ s.at # NULL /\ s.k.priority[s.at] # p => p \in Priority
    /\ s.at \in Ranked(kk, L)
         => p = IF Exact(kk.base, s.k.priority, lends, s.at)
                THEN s.k.priority[s.at] ELSE v

\* It comes to an end, or to a thread that was less urgent than v.
LEMMA UpStep ==
  ASSUME NEW kk, NEW L, NEW C, ClosedFor(C, kk, L),
         NEW Z, Z \subseteq Ranked(kk, L), NEW lends,
         Leads(kk, L, C, Z, lends), NEW v \in Priority,
         NEW s \in Reached(kk, L, C), Up(kk, L, Z, lends, v, s),
         NEW p, WantedUp(kk, L, lends, v, s, p), NEW r, r = WalkStep(s, p)
  PROVE  /\ Up(kk, L, Z, lends, v, r)
         /\ \/ Finished(kk, L, lends, r)
            \/ /\ ~Finished(kk, L, lends, s)
               /\ \E x \in Above(s.k.priority, v) :
                    Above(r.k.priority, v) = Above(s.k.priority, v) \ {x}
<1> DEFINE E == Ranked(kk, L)
           prio == s.k.priority
           a == s.at
<1>1. /\ E \in SUBSET Thread /\ v \in Nat
      /\ Raising(kk.base, prio, lends, E, v, a)
      /\ Numbers(kk.base, prio, lends) /\ \A u \in Z : prio[u] <= v
  BY PriorityNumbers DEF Up, Ranked
<1>2. CASE a \in E /\ Exact(kk.base, prio, lends, a)
  <2>1. p = prio[a]
    BY <1>2 DEF WantedUp
  <2>2. r = s
    BY <2>1 DEF WalkStep
  <2> QED
    BY <1>2, <2>2 DEF Finished
<1>3. CASE a \notin E
  <2>1. a \notin Z
    BY <1>3
  <2>2. r.k.priority = prio /\ r.at \notin E
    BY <1>3, <2>1, StepMoves DEF WantedUp
  <2>3. Up(kk, L, Z, lends, v, r)
    BY <1>1, <1>3, <2>2 DEF Up, Raising, OthersExact
  <2> QED
    BY <2>2, <2>3 DEF Finished
<1>4. CASE a \in E /\ ~Exact(kk.base, prio, lends, a)
  <2>1. v < prio[a] /\ prio[a] \in Nat /\ p = v /\ a \in Thread
    BY <1>1, <1>4 DEF Raising, WantedUp, Numbers
  <2>2. a \notin Z /\ prio[a] # p
    BY <1>1, <2>1
  <2>3. r.k.priority = With(prio, a, v) /\ r.at = lends[a]
    BY <1>4, <2>1, <2>2, StepMoves DEF WantedUp
  <2>4. Raising(kk.base, r.k.priority, lends, E, v, r.at)
    <3> HIDE DEF E, prio, a
    <3> QED
      BY <1>1, <1>4, <2>3, RaisingMoves
  <2>5. /\ r.k.priority \in [Thread -> Nat] /\ r.k.priority[a] = v
        /\ \A u \in Thread \ {a} : r.k.priority[u] = prio[u]
    BY <1>1, <2>1, <2>3 DEF With, Numbers
  <2>6. Up(kk, L, Z, lends, v, r)
    BY <1>1, <2>2, <2>4, <2>5 DEF Up, Numbers
  <2>7. a \in Above(prio, v) /\ Above(r.k.priority, v) = Above(prio, v) \ {a}
    BY <1>1, <2>1, <2>5 DEF Above, Numbers
  <2>8. ~Finished(kk, L, lends, s)
    BY <1>4 DEF Finished
  <2> QED
    BY <2>6, <2>7, <2>8
<1> QED
  BY <1>2, <1>3, <1>4

\* The walk lowers threads that were as urgent as v.
Down(kk, L, lends, v, s) ==
    /\ Numbers(kk.base, s.k.priority, lends)
    /\ Lowering(kk.base, s.k.priority, lends, Ranked(kk, L), v, s.at)

\* A step of it wants the effective priority.
WantedDown(kk, L, lends, s, p) ==
    /\ s.at # NULL => p \in Priority
    /\ s.at \in Ranked(kk, L)
         => Effective(kk.base, s.k.priority, lends, s.at, p)

\* It comes to an end, or to a thread that was as urgent as v.
LEMMA DownStep ==
  ASSUME NEW kk, NEW L, NEW C, ClosedFor(C, kk, L), NEW lends,
         Leads(kk, L, C, {}, lends), NEW v \in Nat,
         NEW s \in Reached(kk, L, C), Down(kk, L, lends, v, s),
         NEW p, WantedDown(kk, L, lends, s, p), NEW r, r = WalkStep(s, p)
  PROVE  /\ Down(kk, L, lends, v, r)
         /\ \/ Finished(kk, L, lends, r)
            \/ /\ ~Finished(kk, L, lends, s)
               /\ \E x \in Level(s.k.priority, v) :
                    Level(r.k.priority, v) = Level(s.k.priority, v) \ {x}
<1> DEFINE E == Ranked(kk, L)
           prio == s.k.priority
           a == s.at
           Z == {}
<1>1. /\ E \in SUBSET Thread
      /\ Lowering(kk.base, prio, lends, E, v, a)
      /\ Numbers(kk.base, prio, lends)
      /\ Leads(kk, L, C, Z, lends) /\ a \notin Z
  BY DEF Down, Ranked
<1> HIDE DEF Z
<1>2. CASE a \in E /\ Exact(kk.base, prio, lends, a)
  <2>1. p = prio[a]
    <3>1. /\ Effective(kk.base, prio, lends, a, p)
          /\ Effective(kk.base, prio, lends, a, prio[a]) /\ a \in Thread
      BY <1>1, <1>2 DEF WantedDown, Exact
    <3> HIDE DEF prio, a, E
    <3> QED
      BY <1>1, <3>1, EffectiveUnique
  <2>2. r = s
    BY <2>1 DEF WalkStep
  <2> QED
    BY <1>2, <2>2 DEF Finished
<1>3. CASE a \notin E
  <2>2. r.k.priority = prio /\ r.at \notin E
    BY <1>1, <1>3, StepMoves DEF WantedDown
  <2>3. Down(kk, L, lends, v, r)
    BY <1>1, <1>3, <2>2 DEF Down, Lowering, OthersExact
  <2> QED
    BY <2>2, <2>3 DEF Finished
<1>4. CASE a \in E /\ ~Exact(kk.base, prio, lends, a)
  <2>1. /\ prio[a] \in Nat /\ a \in Thread
        /\ Effective(kk.base, prio, lends, a, p) /\ p \in Nat
    BY <1>1, <1>4 DEF WantedDown, Numbers, Effective
  <2>2. prio[a] # p
    BY <1>4, <2>1 DEF Exact
  <2>3. r.k.priority = With(prio, a, p) /\ r.at = lends[a]
    BY <1>1, <1>4, <2>1, <2>2, StepMoves DEF WantedDown
  <2>4. /\ prio[a] = v /\ r.k.priority[a] > v
        /\ Lowering(kk.base, r.k.priority, lends, E, v, r.at)
    <3> DEFINE prio1 == r.k.priority
    <3>1. prio1 = With(prio, a, p)
      BY <2>3
    <3> HIDE DEF E, prio, a, prio1
    <3>2. /\ prio[a] = v /\ prio1[a] > v
          /\ Lowering(kk.base, prio1, lends, E, v, lends[a])
      BY <1>1, <1>4, <2>1, <3>1, LoweringMoves
    <3> QED
      BY <2>3, <3>2 DEF prio1
  <2>5. /\ r.k.priority \in [Thread -> Nat]
        /\ \A u \in Thread \ {a} : r.k.priority[u] = prio[u]
    BY <1>1, <2>1, <2>3 DEF With, Numbers
  <2>6. Down(kk, L, lends, v, r)
    BY <1>1, <2>4, <2>5 DEF Down, Numbers
  <2>7. a \in Level(prio, v) /\ Level(r.k.priority, v) = Level(prio, v) \ {a}
    BY <1>1, <2>1, <2>4, <2>5 DEF Level, Numbers
  <2>8. ~Finished(kk, L, lends, s)
    BY <1>4 DEF Finished
  <2> QED
    BY <2>6, <2>7, <2>8
<1> QED
  BY <1>2, <1>3, <1>4

-----------------------------------------------------------------------------
(* The walks come to their end before WalkBound.                            *)

\* WalkBound is more than the number of threads.
LEMMA BoundSuffices ==
  /\ WalkBound \in Nat /\ IsFiniteSet(Thread)
  /\ Cardinality(Thread) < WalkBound
<1>1. IsFiniteSet(Thread) /\ Thread # {}
  BY KernelAssumption
<1>2. Cardinality(Thread) \in Nat /\ Cardinality(Thread) # 0
  BY <1>1, FS_CardinalityType, FS_EmptySet
<1> QED
  BY <1>1, <1>2, WalkBoundType DEF WalkBound

\* Every step of the walk f wants what a walk that raises wants.
StepsUp(f, kk, L, Z, lends, v) ==
    \A n \in 1 .. WalkBound :
      Up(kk, L, Z, lends, v, f[n - 1])
        => \E p : /\ WantedUp(kk, L, lends, v, f[n - 1], p)
                  /\ f[n] = WalkStep(f[n - 1], p)

\* All threads have their effective priority after a walk that raises.
LEMMA UpWalk ==
  ASSUME NEW kk, NEW L, NEW C, ClosedFor(C, kk, L),
         NEW Z, Z \subseteq Ranked(kk, L), NEW lends,
         Leads(kk, L, C, Z, lends), NEW v \in Priority, NEW t, NEW r,
         NEW f, WalksTo(f, kk, L, C, t, r),
         Up(kk, L, Z, lends, v, f[0]), StepsUp(f, kk, L, Z, lends, v)
  PROVE  \A u \in Ranked(kk, L) : Exact(kk.base, r.priority, lends, u)
<1> DEFINE S == {s \in Reached(kk, L, C) : Up(kk, L, Z, lends, v, s)}
           N == WalkBound
           Fin(n) == Finished(kk, L, lends, f[n])
           A(n) == Above(f[n].k.priority, v)
<1>1. N \in Nat /\ Cardinality(Thread) < N /\ IsFiniteSet(Thread)
  BY BoundSuffices
<1>2. \A n \in 0 .. N : f[n] \in Reached(kk, L, C)
  BY DEF WalksTo
<1>3. ASSUME NEW n \in 1 .. N, f[n - 1] \in S
      PROVE  /\ f[n] \in S
             /\ \/ Fin(n)
                \/ ~Fin(n - 1) /\ \E x \in A(n - 1) : A(n) = A(n - 1) \ {x}
  <2>1. PICK p : /\ WantedUp(kk, L, lends, v, f[n - 1], p)
                 /\ f[n] = WalkStep(f[n - 1], p)
    BY <1>3 DEF StepsUp
  <2>2. /\ f[n - 1] \in Reached(kk, L, C)
        /\ Up(kk, L, Z, lends, v, f[n - 1])
    BY <1>3
  <2>3. /\ Up(kk, L, Z, lends, v, f[n])
        /\ \/ Finished(kk, L, lends, f[n])
           \/ /\ ~Finished(kk, L, lends, f[n - 1])
              /\ \E x \in Above(f[n - 1].k.priority, v) :
                   Above(f[n].k.priority, v)
                     = Above(f[n - 1].k.priority, v) \ {x}
    BY <2>1, <2>2, UpStep
  <2>4. f[n] \in Reached(kk, L, C)
    BY <1>1, <1>2
  <2> QED
    BY <2>3, <2>4
<1>4. f[0] \in S
  BY <1>1, <1>2
<1> HIDE DEF S, N, Fin, A
<1>5. \A n \in 0 .. N : f[n] \in S
  BY <1>1, <1>3, <1>4, Reach
<1> DEFINE D == {n \in 0 .. N : Fin(n)}
           M == [n \in 0 .. N |-> A(n)]
<1>6. \A n \in 1 .. N :
         \/ n \in D
         \/ n - 1 \notin D /\ \E x \in M[n - 1] : M[n] = M[n - 1] \ {x}
  <2> TAKE n \in 1 .. N
  <2>1. n \in 0 .. N /\ n - 1 \in 0 .. N
    BY <1>1
  <2> QED
    BY <1>3, <1>5, <2>1
<1>7. \A n \in 0 .. N : M[n] \subseteq Thread
  BY DEF A, Above
<1> HIDE DEF D, M
<1>8. N \in D
  <2>1. Shrinking(M, N, Thread, D)
    BY <1>6, <1>7 DEF Shrinking
  <2> QED
    BY ONLY <1>1, <2>1, Shrinks
<1>9. Finished(kk, L, lends, f[N]) /\ Up(kk, L, Z, lends, v, f[N])
      /\ r = f[N].k
  BY <1>1, <1>5, <1>8 DEF D, S, Fin, N, WalksTo
<1> QED
  BY <1>9, WalkDone DEF Finished, Up, Raising

\* And after one that lowers.
LEMMA DownWalk ==
  ASSUME NEW kk, NEW L, NEW C, ClosedFor(C, kk, L), NEW lends,
         Leads(kk, L, C, {}, lends), NEW v \in Nat, NEW t, NEW r,
         NEW f, WalksTo(f, kk, L, C, t, r),
         Down(kk, L, lends, v, f[0]),
         \A n \in 1 .. WalkBound :
            \E p : /\ WantedDown(kk, L, lends, f[n - 1], p)
                   /\ f[n] = WalkStep(f[n - 1], p)
  PROVE  \A u \in Ranked(kk, L) : Exact(kk.base, r.priority, lends, u)
<1> DEFINE S == {s \in Reached(kk, L, C) : Down(kk, L, lends, v, s)}
           N == WalkBound
           Fin(n) == Finished(kk, L, lends, f[n])
           A(n) == Level(f[n].k.priority, v)
<1>1. N \in Nat /\ Cardinality(Thread) < N /\ IsFiniteSet(Thread)
  BY BoundSuffices
<1>2. \A n \in 0 .. N : f[n] \in Reached(kk, L, C)
  BY DEF WalksTo
<1>3. ASSUME NEW n \in 1 .. N, f[n - 1] \in S
      PROVE  /\ f[n] \in S
             /\ \/ Fin(n)
                \/ ~Fin(n - 1) /\ \E x \in A(n - 1) : A(n) = A(n - 1) \ {x}
  <2>1. PICK p : /\ WantedDown(kk, L, lends, f[n - 1], p)
                 /\ f[n] = WalkStep(f[n - 1], p)
    OBVIOUS
  <2>2. /\ f[n - 1] \in Reached(kk, L, C)
        /\ Down(kk, L, lends, v, f[n - 1])
    BY <1>3
  <2>3. /\ Down(kk, L, lends, v, f[n])
        /\ \/ Finished(kk, L, lends, f[n])
           \/ /\ ~Finished(kk, L, lends, f[n - 1])
              /\ \E x \in Level(f[n - 1].k.priority, v) :
                   Level(f[n].k.priority, v)
                     = Level(f[n - 1].k.priority, v) \ {x}
    BY <2>1, <2>2, DownStep
  <2>4. f[n] \in Reached(kk, L, C)
    BY <1>1, <1>2
  <2> QED
    BY <2>3, <2>4
<1>4. f[0] \in S
  BY <1>1, <1>2
<1> HIDE DEF S, N, Fin, A
<1>5. \A n \in 0 .. N : f[n] \in S
  BY <1>1, <1>3, <1>4, Reach
<1> DEFINE D == {n \in 0 .. N : Fin(n)}
           M == [n \in 0 .. N |-> A(n)]
<1>6. \A n \in 1 .. N :
         \/ n \in D
         \/ n - 1 \notin D /\ \E x \in M[n - 1] : M[n] = M[n - 1] \ {x}
  <2> TAKE n \in 1 .. N
  <2>1. n \in 0 .. N /\ n - 1 \in 0 .. N
    BY <1>1
  <2> QED
    BY <1>3, <1>5, <2>1
<1>7. \A n \in 0 .. N : M[n] \subseteq Thread
  BY DEF A, Level
<1> HIDE DEF D, M
<1>8. N \in D
  <2>1. Shrinking(M, N, Thread, D)
    BY <1>6, <1>7 DEF Shrinking
  <2> QED
    BY ONLY <1>1, <2>1, Shrinks
<1>9. Finished(kk, L, lends, f[N]) /\ Down(kk, L, lends, v, f[N])
      /\ r = f[N].k
  BY <1>1, <1>5, <1>8 DEF D, S, Fin, N, WalksTo
<1> QED
  BY <1>9, WalkDone DEF Finished, Down, Lowering

-----------------------------------------------------------------------------
(* What the walks achieve.                                                  *)

\* In the course of a walk the threads lend to the same threads.
LEMMA RepricedLends ==
  ASSUME NEW kk, NEW r, Repriced(kk, r), NEW L, NEW ow
  PROVE  /\ Lends(r, ow, L) = Lends(kk, ow, L)
         /\ Ranked(r, L) = Ranked(kk, L) /\ r.base = kk.base
         /\ Linked(kk, L) => Linked(r, L)
<1>1. /\ r.state = kk.state /\ r.suspend = kk.suspend /\ r.mutex = kk.mutex
      /\ r.base = kk.base
      /\ \A t \in Thread :
           kk.state[t] = "SLEEPING" => r.queue[t] = kk.queue[t]
  BY DEF Repriced, Frame
<1> QED
  BY <1>1 DEF Lends, Ranked, Linked, Terminated

\* What UpdatePriority computes at a thread is the effective priority.
LEMMA EffectiveOnTheWay ==
  ASSUME NEW kk, NEW L, NEW C, ClosedFor(C, kk, L), Linked(kk, L),
         Owned(owner, mutexQueue), NEW s \in Reached(kk, L, C), s.at # NULL
  PROVE  /\ EffectiveOf(s.k, s.at) \in Priority
         /\ Effective(kk.base, s.k.priority, Lends(kk, owner, L), s.at,
                      EffectiveOf(s.k, s.at))
<1>1. /\ s.at \in Thread /\ s.k \in Kernel
      /\ Good(s.k, L) /\ Repriced(kk, s.k)
  BY DEF Reached, ClosedFor
<1>2. /\ Lends(s.k, owner, L) = Lends(kk, owner, L) /\ s.k.base = kk.base
      /\ Linked(s.k, L)
  BY <1>1, RepricedLends
<1>3. EffectiveOf(s.k, s.at) \in Priority
  BY <1>1, EffectivePriorityType DEF EffectiveOf, Owned
<1>4. Effective(s.k.base, s.k.priority, Lends(s.k, owner, L), s.at,
                __OSGetEffectivePriority(s.k, mutexQueue, s.at))
  BY <1>1, <1>2, EffectiveComputed
<1> QED
  BY <1>2, <1>3, <1>4 DEF EffectiveOf

\* Reading a result of a walk as the invariant.
LEMMA AllExact ==
  ASSUME NEW kk, NEW r, Repriced(kk, r), NEW L, NEW ow,
         \A u \in Ranked(kk, L) :
            Exact(kk.base, r.priority, Lends(kk, ow, L), u)
  PROVE  Inherited(r, ow, L, NULL)
BY RepricedLends DEF Inherited, OthersExact

\* UpdatePriority puts right the one thread it begins with, and what follows
\* from that.
LEMMA UpdateSettles ==
  ASSUME OwnershipType, Owned(owner, mutexQueue),
         NEW kk, NEW L, Good(kk, L), Linked(kk, L),
         NEW C, ClosedFor(C, kk, L), NEW t \in C \cup {NULL},
         Inherited(kk, owner, L, t),
         NEW r, r = UpdatePriority(kk, t)
  PROVE  Inherited(r, owner, L, NULL)
<1> DEFINE lends == Lends(kk, owner, L)
           E == Ranked(kk, L)
           first == [k |-> kk, at |-> t]
<1>1. PICK f : /\ WalksTo(f, kk, L, C, t, r)
               /\ \A n \in 1 .. WalkBound :
                    f[n] = WalkStep(f[n - 1],
                                    EffectiveOf(f[n - 1].k, f[n - 1].at))
  BY UpdateWalks
<1>2. Repriced(kk, r) /\ kk \in Kernel /\ WalkBound \in Nat
      /\ f[0].k = kk /\ f[0].at = t
  BY <1>1, WalkEffect, WalkBoundType DEF Good, WalksTo
<1>3. \A n \in 1 .. WalkBound : f[n - 1] \in Reached(kk, L, C)
  <2> TAKE n \in 1 .. WalkBound
  <2>1. n - 1 \in 0 .. WalkBound
    BY <1>2
  <2> QED
    BY <1>1, <2>1 DEF WalksTo
<1>4. ASSUME NEW s \in Reached(kk, L, C)
      PROVE  /\ Numbers(kk.base, s.k.priority, lends)
             /\ WantedDown(kk, L, lends, s, EffectiveOf(s.k, s.at))
  <2>1. s.k \in Kernel /\ Repriced(kk, s.k)
    BY DEF Reached
  <2>2. Numbers(kk.base, s.k.priority, lends)
    <3>1. Numbers(s.k.base, s.k.priority, Lends(s.k, owner, L))
      BY <2>1, KernelNumbers DEF Owned
    <3> QED
      BY <2>1, <3>1, RepricedLends
  <2>3. s.at \in E => s.at # NULL
    BY KernelAssumption DEF Ranked
  <2> QED
    BY <2>2, <2>3, EffectiveOnTheWay DEF WantedDown
<1>5. ASSUME NEW Z, Z = {} PROVE Leads(kk, L, C, Z, lends)
  BY DEF Leads, ClosedFor, Lends, BlockedBy
<1>6. f[0] \in Reached(kk, L, C)
  BY <1>1, <1>2 DEF WalksTo
<1>7. Numbers(kk.base, kk.priority, lends)
  BY <1>2, <1>4, <1>6
<1>8. OthersExact(kk.base, kk.priority, lends, E, t)
  BY DEF Inherited
<1>9. ASSUME NEW v \in Nat, Down(kk, L, lends, v, f[0])
      PROVE  \A u \in E : Exact(kk.base, r.priority, lends, u)
  <2> DEFINE Z == {}
  <2>1. Leads(kk, L, C, Z, lends)
    BY <1>5
  <2>2. \A n \in 1 .. WalkBound :
          \E p : /\ WantedDown(kk, L, lends, f[n - 1], p)
                 /\ f[n] = WalkStep(f[n - 1], p)
    BY <1>1, <1>3, <1>4
  <2> HIDE DEF lends
  <2> QED
    BY <1>1, <1>9, <2>1, <2>2, DownWalk
<1>10. ASSUME NEW v \in Priority,
              \A Z : Z = {} => Up(kk, L, Z, lends, v, f[0])
       PROVE  \A u \in E : Exact(kk.base, r.priority, lends, u)
  <2> DEFINE Z == {}
  <2>1. Leads(kk, L, C, Z, lends) /\ Up(kk, L, Z, lends, v, f[0])
        /\ Z \subseteq E
    BY <1>5, <1>10
  <2> HIDE DEF Z
  <2>2. ASSUME NEW n \in 1 .. WalkBound, Up(kk, L, Z, lends, v, f[n - 1])
        PROVE  \E p : /\ WantedUp(kk, L, lends, v, f[n - 1], p)
                      /\ f[n] = WalkStep(f[n - 1], p)
    <3> DEFINE s == f[n - 1]
               a == s.at
               prio == s.k.priority
               p == EffectiveOf(s.k, a)
    <3>1. Numbers(kk.base, prio, lends) /\ WantedDown(kk, L, lends, s, p)
      BY <1>3, <1>4
    <3>2. f[n] = WalkStep(s, p)
      BY <1>1
    <3>3. ASSUME a \in E
          PROVE  p = IF Exact(kk.base, prio, lends, a) THEN prio[a] ELSE v
      <4>1. Effective(kk.base, prio, lends, a, p) /\ a \in Thread
        BY <3>1, <3>3 DEF WantedDown, Ranked
      <4>2. \/ Exact(kk.base, prio, lends, a)
            \/ Effective(kk.base, prio, lends, a, v)
        BY <2>2, <3>3 DEF Up, Raising
      <4> HIDE DEF lends, E, s, a, prio, p
      <4>3. \A q : Effective(kk.base, prio, lends, a, q) => q = p
        BY <3>1, <4>1, EffectiveUnique
      <4> QED
        BY <4>2, <4>3 DEF Exact
    <3>4. WantedUp(kk, L, lends, v, s, p)
      BY <3>1, <3>3 DEF WantedUp, WantedDown
    <3> QED
      BY <3>2, <3>4
  <2>3. StepsUp(f, kk, L, Z, lends, v)
    BY <2>2 DEF StepsUp
  <2> HIDE DEF lends
  <2> QED
    BY <1>1, <2>1, <2>3, UpWalk
<1>11. CASE t \notin E \/ Exact(kk.base, kk.priority, lends, t)
  <2>1. Down(kk, L, lends, 0, f[0])
    BY <1>2, <1>7, <1>8, <1>11 DEF Down, Lowering
  <2> QED
    BY <1>2, <1>9, <2>1, AllExact
<1>12. CASE t \in E /\ ~Exact(kk.base, kk.priority, lends, t)
  <2> DEFINE q == EffectiveOf(kk, t)
  <2>1. t \in Thread /\ t # NULL
    BY <1>12, KernelAssumption DEF Ranked
  <2>2. /\ q \in Priority /\ q \in Nat
        /\ Effective(kk.base, kk.priority, lends, t, q)
    <3>1. /\ EffectiveOf(f[0].k, f[0].at) \in Priority
          /\ Effective(kk.base, f[0].k.priority, lends, f[0].at,
                       EffectiveOf(f[0].k, f[0].at))
      BY <1>2, <1>6, <2>1, EffectiveOnTheWay
    <3> QED
      BY <1>2, <3>1, PriorityNumbers
  <2> HIDE DEF q
  <2>3. q # kk.priority[t] /\ kk.priority[t] \in Nat
    BY <1>7, <1>12, <2>1, <2>2 DEF Exact, Numbers
  <2>4. \A y : Effective(kk.base, kk.priority, lends, t, y) => y = q
    <3> HIDE DEF lends, E
    <3> QED
      BY <1>7, <2>1, <2>2, EffectiveUnique
  <2>5. CASE q < kk.priority[t]
    <3>1. \A Z : Z = {} => Up(kk, L, Z, lends, q, f[0])
      BY <1>2, <1>7, <1>8, <2>2, <2>5 DEF Up, Raising
    <3> QED
      BY <1>2, <1>10, <2>2, <3>1, AllExact
  <2>6. CASE q > kk.priority[t]
    <3>1. Down(kk, L, lends, kk.priority[t], f[0])
      BY <1>2, <1>7, <1>8, <2>4, <2>6 DEF Down, Lowering
    <3> QED
      BY <1>2, <1>9, <2>3, <3>1, AllExact
  <2> QED
    BY <2>2, <2>3, <2>5, <2>6
<1> QED
  BY <1>11, <1>12

\* A thread that lent nothing lends to t.
LEMMA NewLender ==
  ASSUME NEW base, NEW prio, NEW lends, Numbers(base, prio, lends),
         NEW c \in Thread, lends[c] = NULL, NEW t \in Thread,
         NEW lends1, lends1 = With(lends, c, t)
  PROVE  /\ Numbers(base, prio, lends1)
         /\ \A u \in Thread \ {t} :
              Exact(base, prio, lends, u) => Exact(base, prio, lends1, u)
         /\ Exact(base, prio, lends, t)
              => \/ Exact(base, prio, lends1, t) /\ prio[t] <= prio[c]
                 \/ /\ Effective(base, prio, lends1, t, prio[c])
                    /\ prio[c] < prio[t]
<1>1. /\ lends1[c] = t /\ \A u \in Thread \ {c} : lends1[u] = lends[u]
      /\ lends1 \in [Thread -> Thread \cup {NULL}] /\ NULL \notin Thread
  BY KernelAssumption DEF Numbers, With
<1>2. Numbers(base, prio, lends1)
  BY <1>1 DEF Numbers
<1>3. ASSUME NEW u \in Thread \ {t}, Exact(base, prio, lends, u)
      PROVE  Exact(base, prio, lends1, u)
  <2>1. \A w \in Thread : lends1[w] = u <=> lends[w] = u
    BY <1>1
  <2> QED
    BY <1>3, <2>1 DEF Exact, Effective
<1>4. ASSUME Exact(base, prio, lends, t)
      PROVE  \/ Exact(base, prio, lends1, t) /\ prio[t] <= prio[c]
             \/ /\ Effective(base, prio, lends1, t, prio[c])
                /\ prio[c] < prio[t]
  <2>1. /\ \A w \in Thread : prio[w] \in Nat
        /\ prio[t] <= base[t] /\ base[t] \in Nat
        /\ \A w \in Thread : lends[w] = t => prio[t] <= prio[w]
        /\ prio[t] = base[t]
             \/ \E w \in Thread : lends[w] = t /\ prio[t] = prio[w]
    BY <1>4 DEF Exact, Effective, Numbers
  <2>2. \A w \in Thread : lends1[w] = t <=> lends[w] = t \/ w = c
    BY <1>1
  <2>3. CASE prio[t] <= prio[c]
    BY <2>1, <2>2, <2>3 DEF Exact, Effective
  <2>4. CASE ~(prio[t] <= prio[c])
    <3>1. prio[c] < prio[t] /\ prio[c] <= base[t] /\ prio[c] \in Nat
      BY <2>1, <2>4
    <3>2. \A w \in Thread : lends1[w] = t => prio[c] <= prio[w]
      BY <2>1, <2>2, <3>1
    <3> QED
      BY <2>2, <3>1, <3>2 DEF Effective
  <2> QED
    BY <2>3, <2>4
<1> QED
  BY <1>2, <1>3, <1>4

\* __OSPromoteThread gives the owners the priority of a thread that is about
\* to wait for them.
LEMMA PromotionSettles ==
  ASSUME OwnershipType, NEW kk, NEW L, L = {}, Good(kk, L),
         NEW c \in Thread, kk.state[c] = "RUNNING", NEW t \in Thread,
         Inherited(kk, owner, L, NULL),
         NEW r, r = __OSPromoteThread(kk, t, kk.priority[c])
  PROVE  \A u \in Ranked(kk, L) :
            Exact(kk.base, r.priority, With(Lends(kk, owner, L), c, t), u)
<1> DEFINE lends == Lends(kk, owner, L)
           lends1 == With(lends, c, t)
           E == Ranked(kk, L)
           v == kk.priority[c]
           C == Thread
           Z == {c}
<1>1. kk \in Kernel /\ c \in Thread \ L /\ c \in E /\ v \in Priority
      /\ NULL \notin Thread
  BY KernelAssumption DEF Good, Sound, Ranked, Terminated
<1>2. ClosedFor(C, kk, L)
  BY <1>1, AllClosed
<1>3. PICK f : /\ WalksTo(f, kk, L, C, t, r)
               /\ \A n \in 1 .. WalkBound :
                    f[n] = WalkStep(f[n - 1],
                                    AtMost(v, f[n - 1].k, f[n - 1].at))
  <2> HIDE DEF v, C
  <2>1. t \in C \cup {NULL}
    BY DEF C
  <2>2. r = __OSPromoteThread(kk, t, v)
    BY DEF v
  <2> QED
    BY <1>1, <1>2, <2>1, <2>2, PromotionWalks
<1>4. Numbers(kk.base, kk.priority, lends) /\ lends[c] = NULL
  <2>1. Numbers(kk.base, kk.priority, lends)
    BY <1>1, KernelNumbers DEF OwnershipType
  <2> QED
    BY <2>1 DEF Lends
<1>5. /\ Numbers(kk.base, kk.priority, lends1)
      /\ \A u \in Thread \ {t} :
           Exact(kk.base, kk.priority, lends, u)
             => Exact(kk.base, kk.priority, lends1, u)
      /\ Exact(kk.base, kk.priority, lends, t)
           => \/ Exact(kk.base, kk.priority, lends1, t) /\ kk.priority[t] <= v
              \/ /\ Effective(kk.base, kk.priority, lends1, t, v)
                 /\ v < kk.priority[t]
  <2> HIDE DEF lends
  <2> QED
    BY <1>4, NewLender
<1>6. \A u \in E : u \in Thread /\ Exact(kk.base, kk.priority, lends, u)
  BY <1>1 DEF Inherited, OthersExact, Ranked
<1>7. Z \subseteq E /\ t \in C
  BY <1>1
<1>8. Leads(kk, L, C, Z, lends1)
  <2>1. \A u \in C \ Z : lends1[u] = lends[u]
    BY <1>4 DEF With, Numbers
  <2>2. \A u \in C : lends[u] = BlockedBy(kk, u)
    BY DEF Lends, BlockedBy
  <2> QED
    BY <2>1, <2>2 DEF Leads
<1>9. f[0].k = kk /\ f[0].at = t /\ WalkBound \in Nat
  BY <1>3, WalkBoundType DEF WalksTo
<1>10. Up(kk, L, Z, lends1, v, f[0])
  <2>1. Raising(kk.base, kk.priority, lends1, E, v, t)
    <3> HIDE DEF lends, lends1, E, v
    <3> QED
      BY <1>5, <1>6 DEF Raising, OthersExact
  <2>2. \A u \in Z : kk.priority[u] <= v
    <3>1. v \in Nat
      BY <1>1, PriorityNumbers
    <3> QED
      BY <3>1
  <2> QED
    BY <1>5, <1>9, <2>1, <2>2 DEF Up
<1>11. StepsUp(f, kk, L, Z, lends1, v)
  <2> SUFFICES ASSUME NEW n \in 1 .. WalkBound,
                      Up(kk, L, Z, lends1, v, f[n - 1])
               PROVE  \E p : /\ WantedUp(kk, L, lends1, v, f[n - 1], p)
                             /\ f[n] = WalkStep(f[n - 1], p)
    BY DEF StepsUp
  <2> DEFINE s == f[n - 1]
             a == s.at
             prio == s.k.priority
             p == AtMost(v, s.k, a)
  <2>1. f[n] = WalkStep(s, p)
    BY <1>3
  <2>2. a # NULL /\ prio[a] # p => p \in Priority
    BY <1>1 DEF AtMost
  <2>3. ASSUME a \in E
        PROVE  p = IF Exact(kk.base, prio, lends1, a) THEN prio[a] ELSE v
    <3>1. /\ Numbers(kk.base, prio, lends1) /\ a \in Thread
          /\ \/ Exact(kk.base, prio, lends1, a) /\ prio[a] <= v
             \/ Effective(kk.base, prio, lends1, a, v) /\ v < prio[a]
      BY <2>3 DEF Up, Raising, Ranked
    <3>2. p = IF prio[a] > v THEN v ELSE prio[a]
      BY DEF AtMost
    <3>3. prio[a] \in Nat /\ v \in Nat
      BY <1>1, <3>1, PriorityNumbers DEF Numbers
    <3> HIDE DEF lends1, E, s, a, prio, p, v
    <3>4. CASE Exact(kk.base, prio, lends1, a) /\ prio[a] <= v
      BY <3>2, <3>3, <3>4
    <3>5. CASE Effective(kk.base, prio, lends1, a, v) /\ v < prio[a]
      <4>1. ASSUME Exact(kk.base, prio, lends1, a) PROVE FALSE
        <5>1. v = prio[a]
          BY <3>1, <3>5, <4>1, EffectiveUnique DEF Exact
        <5> QED
          BY <3>3, <3>5, <5>1
      <4> QED
        BY <3>2, <3>3, <3>5, <4>1
    <3> QED
      BY <3>1, <3>4, <3>5
  <2>4. WantedUp(kk, L, lends1, v, s, p)
    BY <2>2, <2>3 DEF WantedUp
  <2> QED
    BY <2>1, <2>4
<1> HIDE DEF lends1, C, Z, v
<1>12. \A u \in E : Exact(kk.base, r.priority, lends1, u)
  BY <1>1, <1>2, <1>3, <1>7, <1>8, <1>10, <1>11, UpWalk
<1> QED
  BY <1>12 DEF lends1

-----------------------------------------------------------------------------
(* What switches and wakeups do to the inherited priorities: nothing.       *)

\* The threads sleep, wait and rank as they did.
Still(kk, r) ==
    /\ r.base = kk.base /\ r.mutex = kk.mutex /\ r.priority = kk.priority
    /\ r.suspend = kk.suspend
    /\ \A t \in Thread :
         /\ r.state[t] = "SLEEPING" <=> kk.state[t] = "SLEEPING"
         /\ Terminated(r, t) <=> Terminated(kk, t)
         /\ kk.state[t] = "SLEEPING" => r.queue[t] = kk.queue[t]

\* One such step after another.
LEMMA StillTrans ==
  ASSUME NEW a, NEW b, NEW c, Still(a, b), Still(b, c)
  PROVE  Still(a, c)
BY DEF Still

\* SwitchThread only takes a ready thread to the processor.
LEMMA SwitchStill ==
  ASSUME NEW kk, Good(kk, {}), kk.RunQueueBits # {},
         \A u \in Thread : kk.state[u] # "RUNNING",
         NEW r, r = SwitchThread(kk)
  PROVE  Still(kk, r)
<1>1. /\ Frame(kk, r) /\ r.current \in Thread
      /\ r.state[r.current] = "RUNNING" /\ kk.state[r.current] = "READY"
      /\ \A u \in Thread \ {r.current} :
           r.state[u] = kk.state[u] /\ r.queue[u] = kk.queue[u]
      /\ r.suspend = kk.suspend /\ r.priority = kk.priority
  BY SwitchEffect
<1>2. ASSUME NEW t \in Thread
      PROVE  /\ r.state[t] = "SLEEPING" <=> kk.state[t] = "SLEEPING"
             /\ Terminated(r, t) <=> Terminated(kk, t)
             /\ kk.state[t] = "SLEEPING" => r.queue[t] = kk.queue[t]
  <2>1. CASE t = r.current
    BY <1>1, <2>1 DEF Terminated
  <2>2. CASE t # r.current
    BY <1>1, <2>2 DEF Terminated
  <2> QED
    BY <2>1, <2>2
<1> QED
  BY <1>1, <1>2 DEF Still, Frame

\* SelectThread moves threads between the processor and the run queues.
LEMMA SelectStill ==
  ASSUME NEW kk, Good(kk, {}), NEW yield \in BOOLEAN,
         NEW r, r = SelectThread(kk, yield)
  PROVE  Still(kk, r)
<1> DEFINE t == kk.current
           keeps == /\ kk.state[t] = "RUNNING"
                    /\ ~yield
                    /\ \A p \in kk.RunQueueBits : kk.priority[t] <= p
           stopped == IF kk.state[t] = "RUNNING"
                      THEN SetRun([kk EXCEPT !.state[t] = "READY"], t)
                      ELSE kk
<1>1. kk \in Kernel /\ t \in Thread \cup {NULL}
  BY Fields DEF Good
<1>2. CASE kk.Reschedule > 0 \/ t = NULL \/ keeps
  BY <1>2 DEF SelectThread, Still
<1>3. CASE ~(kk.Reschedule > 0 \/ t = NULL \/ keeps)
  <2>1. r = IF stopped.RunQueueBits = {}
            THEN [stopped EXCEPT !.current = NULL]
            ELSE SwitchThread(stopped)
    BY <1>3 DEF SelectThread
  <2>2. t \in Thread
    BY <1>1, <1>3
  <2>3. \A u \in Thread \ {t} : kk.state[u] # "RUNNING"
    BY DEF Good, Sound
  <2>4. /\ Good(stopped, {}) /\ Still(kk, stopped)
        /\ \A u \in Thread : stopped.state[u] # "RUNNING"
    <3>1. CASE kk.state[t] = "RUNNING"
      <4>1. /\ Good(stopped, {}) /\ Frame(kk, stopped)
            /\ stopped.state[t] = "READY"
            /\ \A u \in Thread \ {t} : /\ stopped.state[u] = kk.state[u]
                                       /\ stopped.queue[u] = kk.queue[u]
            /\ stopped.suspend = kk.suspend /\ stopped.priority = kk.priority
        BY <2>2, <3>1, PreemptEffect
      <4> HIDE DEF stopped, t
      <4>2. \A u \in Thread : stopped.state[u] # "RUNNING"
        BY <2>3, <4>1
      <4>3. ASSUME NEW u \in Thread
            PROVE  /\ stopped.state[u] = "SLEEPING"
                        <=> kk.state[u] = "SLEEPING"
                   /\ Terminated(stopped, u) <=> Terminated(kk, u)
                   /\ kk.state[u] = "SLEEPING"
                        => stopped.queue[u] = kk.queue[u]
        <5>1. CASE u = t
          BY <3>1, <4>1, <5>1 DEF Terminated
        <5>2. CASE u # t
          BY <4>1, <5>2 DEF Terminated
        <5> QED
          BY <5>1, <5>2
      <4> QED
        BY <4>1, <4>2, <4>3 DEF Still, Frame
    <3>2. CASE kk.state[t] # "RUNNING"
      BY <2>3, <3>2 DEF Still
    <3> QED
      BY <3>1, <3>2
  <2> HIDE DEF stopped
  <2>5. stopped \in Kernel
    BY <2>4 DEF Good
  <2>6. CASE stopped.RunQueueBits = {}
    <3>1. r = [stopped EXCEPT !.current = NULL]
      BY <2>1, <2>6
    <3>2. Still(stopped, r)
      BY <2>5, <3>1 DEF Kernel, Still, Terminated
    <3> QED
      BY <2>4, <3>2, StillTrans
  <2>7. CASE stopped.RunQueueBits # {}
    <3>1. r = SwitchThread(stopped)
      BY <2>1, <2>7
    <3>2. Still(stopped, r)
      BY <2>4, <2>7, <3>1, SwitchStill
    <3> QED
      BY <2>4, <3>2, StillTrans
  <2> QED
    BY <2>6, <2>7
<1> QED
  BY <1>2, <1>3

\* So does __OSReschedule.
LEMMA RescheduleStill ==
  ASSUME NEW kk, Good(kk, {}), NEW r, r = __OSReschedule(kk)
  PROVE  Good(r, {}) /\ Still(kk, r)
<1>1. Good(r, {})
  BY RescheduleEffect
<1>2. CASE kk.RunQueueHint
  BY <1>1, <1>2, SelectStill DEF __OSReschedule
<1>3. CASE ~kk.RunQueueHint
  BY <1>1, <1>3 DEF __OSReschedule, Still
<1> QED
  BY <1>2, <1>3

\* The threads that sleep in q wake up, and nothing else.
Wakes(kk, r, q) ==
    /\ r.base = kk.base /\ r.mutex = kk.mutex /\ r.priority = kk.priority
    /\ r.suspend = kk.suspend
    /\ \A t \in Thread :
         /\ r.state[t] = "SLEEPING"
              <=> kk.state[t] = "SLEEPING" /\ kk.queue[t] # q
         /\ Terminated(r, t) <=> Terminated(kk, t)
         /\ kk.state[t] = "SLEEPING" /\ kk.queue[t] # q
              => r.queue[t] = kk.queue[t]

\* OSWakeupThread does that.
LEMMA WakeupWakes ==
  ASSUME NEW kk, Good(kk, {}), NEW q \in BlockingQueues,
         NEW r, r = WakeupThread(kk, q)
  PROVE  Good(r, {}) /\ Wakes(kk, r, q)
<1>1. PICK s, L : /\ L \in SUBSET Thread
                  /\ \A t \in Thread :
                       t \in L <=> /\ kk.state[t] = "SLEEPING"
                                  /\ kk.queue[t] = q
                  /\ Good(s, {}) /\ Woken(kk, s, L)
                  /\ r = __OSReschedule(s)
  BY WakeupParts
<1>2. Good(r, {}) /\ Still(s, r)
  BY <1>1, RescheduleStill
<1>3. ASSUME NEW t \in Thread
      PROVE  /\ r.state[t] = "SLEEPING"
                  <=> kk.state[t] = "SLEEPING" /\ kk.queue[t] # q
             /\ Terminated(r, t) <=> Terminated(kk, t)
             /\ kk.state[t] = "SLEEPING" /\ kk.queue[t] # q
                  => r.queue[t] = kk.queue[t]
  <2>1. CASE t \in L
    <3>1. s.state[t] = "READY" /\ kk.state[t] = "SLEEPING" /\ kk.queue[t] = q
      BY <1>1, <2>1 DEF Woken
    <3>2. ~Terminated(s, t) /\ ~Terminated(kk, t)
      BY <3>1 DEF Terminated
    <3> QED
      BY <1>2, <3>1, <3>2 DEF Still
  <2>2. CASE t \notin L
    <3>1. /\ s.state[t] = kk.state[t] /\ s.queue[t] = kk.queue[t]
          /\ ~(kk.state[t] = "SLEEPING" /\ kk.queue[t] = q)
      BY <1>1, <2>2 DEF Woken
    <3>2. Terminated(s, t) <=> Terminated(kk, t)
      BY <3>1 DEF Terminated
    <3> QED
      BY <1>2, <3>1, <3>2 DEF Still
  <2> QED
    BY <2>1, <2>2
<1> QED
  BY <1>1, <1>2, <1>3 DEF Wakes, Woken, Still, Frame

-----------------------------------------------------------------------------
(* The invariant: every sleeper is in the queue of the mutex it waits for,  *)
(* every thread that has a rank has its effective priority, and a thread    *)
(* that has set its mutex field is in the loop of OSLockMutex.              *)

Inheriting(kk, ow) == Linked(kk, {}) /\ Inherited(kk, ow, {}, NULL)

Waits(kk, pp) ==
    \A t \in Thread : ~Terminated(kk, t) /\ kk.mutex[t] # NULL
                        => pp[t] = Locking(kk.mutex[t])

\* Lends and Ranked depend on nothing else.
LEMMA SameLenders ==
  ASSUME NEW kk, NEW r, NEW ow, NEW ow1, NEW L,
         r.base = kk.base, r.priority = kk.priority,
         Ranked(r, L) \subseteq Ranked(kk, L),
         Lends(r, ow1, L) = Lends(kk, ow, L), NEW at,
         Inherited(kk, ow, L, at)
  PROVE  Inherited(r, ow1, L, at)
BY DEF Inherited, OthersExact

\* A switch leaves the invariant as it is.
LEMMA StillInherits ==
  ASSUME NEW kk, NEW r, Still(kk, r), NEW ow, Inheriting(kk, ow)
  PROVE  Inheriting(r, ow)
<1> DEFINE L == {}
<1>1. Linked(kk, L) /\ Inherited(kk, ow, L, NULL)
  BY DEF Inheriting
<1> HIDE DEF L
<1>2. Lends(r, ow, L) = Lends(kk, ow, L)
  BY DEF Still, Lends
<1>3. Ranked(r, L) = Ranked(kk, L)
  BY DEF Still, Ranked
<1>4. Linked(r, L)
  BY <1>1 DEF Still, Linked
<1>5. Inherited(r, ow, L, NULL)
  BY <1>1, <1>2, <1>3, SameLenders DEF Still
<1> QED
  BY <1>4, <1>5 DEF Inheriting, L

\* And wait for the same mutexes.
LEMMA StillWaits ==
  ASSUME NEW kk, NEW r, Still(kk, r), NEW pp, Waits(kk, pp)
  PROVE  Waits(r, pp)
BY DEF Still, Waits

\* Nor do threads matter that wake up and lent nothing.
LEMMA WakesLenders ==
  ASSUME NEW kk, NEW r, NEW q, Wakes(kk, r, q), NEW ow,
         \A u \in Thread :
           kk.state[u] = "SLEEPING" /\ kk.queue[u] = q /\ kk.mutex[u] # NULL
             => ow[kk.mutex[u]] = NULL,
         Inheriting(kk, ow)
  PROVE  Inheriting(r, ow)
<1> DEFINE L == {}
<1>1. Linked(kk, L) /\ Inherited(kk, ow, L, NULL)
  BY DEF Inheriting
<1> HIDE DEF L
<1>2. Lends(r, ow, L) = Lends(kk, ow, L)
  <2>1. ASSUME NEW u \in Thread
        PROVE  Lends(r, ow, L)[u] = Lends(kk, ow, L)[u]
    <3>1. CASE kk.state[u] = "SLEEPING" /\ kk.queue[u] = q
      BY <3>1 DEF Wakes, Lends
    <3>2. CASE ~(kk.state[u] = "SLEEPING" /\ kk.queue[u] = q)
      BY <3>2 DEF Wakes, Lends
    <3> QED
      BY <3>1, <3>2
  <2>2. Lends(r, ow, L) = [u \in Thread |-> Lends(r, ow, L)[u]]
    BY DEF Lends
  <2>3. Lends(kk, ow, L) = [u \in Thread |-> Lends(kk, ow, L)[u]]
    BY DEF Lends
  <2> QED
    BY <2>1, <2>2, <2>3
<1>3. Ranked(r, L) = Ranked(kk, L)
  BY DEF Wakes, Ranked
<1>4. Linked(r, L)
  BY <1>1 DEF Wakes, Linked
<1>5. Inherited(r, ow, L, NULL)
  BY <1>1, <1>2, <1>3, SameLenders DEF Wakes
<1> QED
  BY <1>4, <1>5 DEF Inheriting, L

\* A wakeup on a queue that is not that of a mutex.
LEMMA WakesInherits ==
  ASSUME NEW kk \in Kernel, NEW r, NEW q, Wakes(kk, r, q),
         \A m \in Mutex : q # MutexWait(m), NEW ow, Inheriting(kk, ow)
  PROVE  Inheriting(r, ow)
<1>1. ASSUME NEW u \in Thread, kk.state[u] = "SLEEPING", kk.queue[u] = q,
             kk.mutex[u] # NULL
      PROVE  FALSE
  <2>1. kk.mutex[u] \in Mutex
    BY <1>1, Fields
  <2>2. kk.queue[u] = MutexWait(kk.mutex[u])
    BY <1>1, <2>1 DEF Inheriting, Linked
  <2> QED
    BY <1>1, <2>1, <2>2
<1> QED
  BY <1>1, WakesLenders

\* And waits for the mutexes it waited for.
LEMMA WakesWaits ==
  ASSUME NEW kk, NEW r, NEW q, Wakes(kk, r, q), NEW pp, Waits(kk, pp)
  PROVE  Waits(r, pp)
BY DEF Wakes, Waits

\* The owner of the mutex that t waits for.
AwaitedOwner(kk, ow, t) ==
    IF kk.mutex[t] # NULL THEN ow[kk.mutex[t]] ELSE NULL

\* Whom the threads lend to once c has gone to sleep.
LEMMA AsleepLends ==
  ASSUME NEW kk, NEW c \in Thread, kk.state[c] = "RUNNING", NEW q,
         NEW x, FallsAsleep(kk, x, c, q), NEW L, L = {}, NEW ow
  PROVE  /\ Lends(x, ow, L)
              = With(Lends(kk, ow, L), c, AwaitedOwner(kk, ow, c))
         /\ Lends(kk, ow, L)[c] = NULL
         /\ Ranked(x, L) = Ranked(kk, L)
<1> DEFINE to == AwaitedOwner(kk, ow, c)
<1>1. /\ x.suspend = kk.suspend /\ x.mutex = kk.mutex
      /\ x.state[c] = "SLEEPING"
      /\ \A u \in Thread \ {c} : x.state[u] = kk.state[u]
  BY DEF FallsAsleep, Frame
<1>2. \A u \in Thread : Terminated(x, u) <=> Terminated(kk, u)
  <2> TAKE u \in Thread
  <2>1. CASE u = c
    BY <1>1, <2>1 DEF Terminated
  <2>2. CASE u # c
    BY <1>1, <2>2 DEF Terminated
  <2> QED
    BY <2>1, <2>2
<1>3. Ranked(x, L) = Ranked(kk, L)
  BY <1>1, <1>2 DEF Ranked
<1>4. Lends(kk, ow, L)[c] = NULL
  BY DEF Lends
<1>5. ASSUME NEW u \in Thread
      PROVE  Lends(x, ow, L)[u] = IF u = c THEN to ELSE Lends(kk, ow, L)[u]
  BY <1>1 DEF Lends, AwaitedOwner
<1>6. Lends(x, ow, L) = With(Lends(kk, ow, L), c, to)
  <2>1. Lends(x, ow, L) = [u \in Thread |-> Lends(x, ow, L)[u]]
    BY DEF Lends
  <2>2. With(Lends(kk, ow, L), c, to)
          = [u \in Thread |-> IF u = c THEN to ELSE Lends(kk, ow, L)[u]]
    BY DEF Lends, With
  <2> QED
    BY <1>5, <2>1, <2>2
<1> QED
  BY <1>3, <1>4, <1>6

\* A sleeper is in the queue of the mutex it waits for, also when c is new.
LEMMA AsleepLinked ==
  ASSUME NEW kk \in Kernel, NEW c \in Thread, NEW q,
         \A m \in Mutex : q = MutexWait(m) <=> kk.mutex[c] = m,
         NEW x, FallsAsleep(kk, x, c, q), NEW L, Linked(kk, L)
  PROVE  Linked(x, L)
<1>1. /\ x.mutex = kk.mutex /\ x.queue[c] = q
      /\ \A u \in Thread \ {c} :
           x.state[u] = kk.state[u] /\ x.queue[u] = kk.queue[u]
  BY DEF FallsAsleep, Frame
<1> SUFFICES ASSUME NEW u \in Thread \ L, x.state[u] = "SLEEPING",
                    NEW m \in Mutex
             PROVE  x.queue[u] = MutexWait(m) <=> x.mutex[u] = m
  BY DEF Linked
<1>2. CASE u = c
  BY <1>1, <1>2
<1>3. CASE u # c
  BY <1>1, <1>3 DEF Linked
<1> QED
  BY <1>2, <1>3

\* A thread that waits for no mutex goes to sleep in another queue.
LEMMA SleepInherits ==
  ASSUME NEW kk, Good(kk, {}), NEW c \in Thread, c = kk.current,
         kk.state[c] = "RUNNING", kk.mutex[c] = NULL,
         NEW q \in BlockingQueues, \A m \in Mutex : q # MutexWait(m),
         NEW r, r = SleepThread(kk, q), NEW ow, Inheriting(kk, ow)
  PROVE  Inheriting(r, ow)
<1>1. PICK x : /\ Good(x, {}) /\ FallsAsleep(kk, x, c, q)
               /\ r = __OSReschedule(x)
  BY SleepParts
<1> DEFINE L == {}
<1>2. Linked(kk, L) /\ Inherited(kk, ow, L, NULL) /\ kk \in Kernel /\ L = {}
  BY DEF Inheriting, Good
<1> HIDE DEF L
<1>3. \A m \in Mutex : q = MutexWait(m) <=> kk.mutex[c] = m
  BY KernelAssumption
<1>4. Linked(x, L)
  BY <1>1, <1>2, <1>3, AsleepLinked
<1>5. /\ Lends(x, ow, L) = With(Lends(kk, ow, L), c, NULL)
      /\ Lends(kk, ow, L)[c] = NULL
      /\ Ranked(x, L) = Ranked(kk, L)
  <2>1. AwaitedOwner(kk, ow, c) = NULL
    BY DEF AwaitedOwner
  <2>2. /\ Lends(x, ow, L)
             = With(Lends(kk, ow, L), c, AwaitedOwner(kk, ow, c))
        /\ Lends(kk, ow, L)[c] = NULL
        /\ Ranked(x, L) = Ranked(kk, L)
    BY <1>1, <1>2, AsleepLends
  <2> QED
    BY <2>1, <2>2
<1>6. With(Lends(kk, ow, L), c, NULL) = Lends(kk, ow, L)
  BY <1>5 DEF With, Lends
<1>7. Inherited(x, ow, L, NULL)
  BY <1>1, <1>2, <1>5, <1>6, SameLenders DEF FallsAsleep, Frame
<1>8. Inheriting(x, ow)
  BY <1>4, <1>7 DEF Inheriting, L
<1>9. Still(x, r)
  BY <1>1, RescheduleStill
<1> QED
  BY <1>8, <1>9, StillInherits

\* SleepThread says nothing of what threads wait for.
LEMMA SleepWaits ==
  ASSUME NEW kk, Good(kk, {}), NEW c \in Thread, c = kk.current,
         kk.state[c] = "RUNNING", NEW q \in BlockingQueues,
         NEW r, r = SleepThread(kk, q), NEW pp, Waits(kk, pp)
  PROVE  Waits(r, pp)
<1>1. PICK x : /\ Good(x, {}) /\ FallsAsleep(kk, x, c, q)
               /\ r = __OSReschedule(x)
  BY SleepParts
<1>2. Still(x, r)
  BY <1>1, RescheduleStill
<1>3. ASSUME NEW t \in Thread, ~Terminated(x, t), x.mutex[t] # NULL
      PROVE  pp[t] = Locking(x.mutex[t])
  <2>1. x.mutex = kk.mutex
    BY <1>1 DEF FallsAsleep, Frame
  <2>2. ~Terminated(kk, t)
    <3>1. CASE t = c
      BY <3>1 DEF Terminated
    <3>2. CASE t # c
      BY <1>1, <1>3, <3>2 DEF FallsAsleep, Terminated
    <3> QED
      BY <3>1, <3>2
  <2> QED
    BY <1>3, <2>1, <2>2 DEF Waits
<1>4. Waits(x, pp)
  BY <1>3 DEF Waits
<1> QED
  BY <1>2, <1>4, StillWaits

\* r differs from kk in the mutex field of c.
SetsMutex(kk, r, c, m) == r = [kk EXCEPT !.mutex[c] = m]

\* The thread that runs changes its mutex field.
LEMMA MutexFieldInherits ==
  ASSUME NEW kk \in Kernel, NEW c \in Thread, kk.state[c] = "RUNNING",
         NEW m \in Mutex \cup {NULL}, NEW r, SetsMutex(kk, r, c, m),
         NEW ow, Inheriting(kk, ow)
  PROVE  /\ r \in Kernel /\ Inheriting(r, ow) /\ r.mutex = With(kk.mutex, c, m)
         /\ r.state = kk.state /\ r.suspend = kk.suspend
         /\ r.priority = kk.priority /\ r.queue = kk.queue
         /\ r.current = kk.current
<1> DEFINE mu == With(kk.mutex, c, m)
           L == {}
<1>1. mu \in [Thread -> Mutex \cup {NULL}]
      /\ \A u \in Thread \ {c} : mu[u] = kk.mutex[u]
  BY Fields DEF With
<1>2. r = [kk EXCEPT !.mutex = mu]
  BY DEF Kernel, With, SetsMutex
<1> HIDE DEF mu
<1>3. r \in Kernel
  BY <1>1, <1>2 DEF Kernel
<1>4. /\ r.mutex = mu /\ r.state = kk.state /\ r.suspend = kk.suspend
      /\ r.priority = kk.priority /\ r.queue = kk.queue /\ r.base = kk.base
      /\ r.current = kk.current
  BY <1>2 DEF Kernel
<1>5. Linked(kk, L) /\ Inherited(kk, ow, L, NULL)
  BY DEF Inheriting
<1> HIDE DEF L
<1>6. ASSUME NEW u \in Thread, kk.state[u] = "SLEEPING"
      PROVE  r.mutex[u] = kk.mutex[u]
  BY <1>1, <1>4, <1>6
<1>7. Lends(r, ow, L) = Lends(kk, ow, L)
  BY <1>4, <1>6 DEF Lends
<1>8. Ranked(r, L) = Ranked(kk, L)
  BY <1>4 DEF Ranked, Terminated
<1>9. Linked(r, L)
  BY <1>4, <1>5, <1>6 DEF Linked
<1>10. Inherited(r, ow, L, NULL)
  BY <1>4, <1>5, <1>7, <1>8, SameLenders
<1> QED
  BY <1>3, <1>4, <1>9, <1>10 DEF Inheriting, L, mu

\* Its place in the queues is not affected.
LEMMA MutexFieldGood ==
  ASSUME NEW kk, NEW L, Good(kk, L), NEW c \in Thread,
         NEW m \in Mutex \cup {NULL}, NEW r, SetsMutex(kk, r, c, m)
  PROVE  Good(r, L)
<1> DEFINE mu == With(kk.mutex, c, m)
<1>1. kk \in Kernel
  BY DEF Good
<1>2. mu \in [Thread -> Mutex \cup {NULL}]
  BY <1>1, Fields DEF With
<1>3. r = [kk EXCEPT !.mutex = mu]
  BY <1>1 DEF Kernel, With, SetsMutex
<1> HIDE DEF mu
<1>4. r \in Kernel
  BY <1>1, <1>2, <1>3 DEF Kernel
<1>5. /\ r.state = kk.state /\ r.suspend = kk.suspend /\ r.q = kk.q
      /\ r.priority = kk.priority /\ r.queue = kk.queue
      /\ r.RunQueueBits = kk.RunQueueBits /\ r.current = kk.current
  BY <1>1, <1>3 DEF Kernel
<1>6. \A u \in Thread :
         /\ SameAt(kk, r, u)
         /\ u \notin L /\ r.state[u] = "RUNNING" => u = r.current
  BY <1>5 DEF SameAt, Good, Sound
<1> QED
  BY <1>4, <1>5, <1>6, Unmoved

\* The thread c goes on at another place, the others stay where they are.
MovesTo(pp, new, c, at) ==
    new[c] = at /\ \A u \in Thread \ {c} : new[u] = pp[u]

\* The last branch of OSLockMutex: the owner is promoted, the thread sleeps.
LEMMA BlockInherits ==
  ASSUME OwnershipType, NEW kk, Good(kk, {}),
         NEW c \in Thread, c = kk.current, kk.state[c] = "RUNNING",
         NEW m \in Mutex, owner[m] # NULL, Inheriting(kk, owner),
         NEW b, SetsMutex(kk, b, c, m),
         NEW r, r = SleepThread(
                      __OSPromoteThread(b, owner[m], kk.priority[c]),
                      MutexWait(m)),
         NEW pp, NEW new, MovesTo(pp, new, c, Locking(m)), Waits(kk, pp)
  PROVE  Inheriting(r, owner) /\ Waits(r, new)
<1> DEFINE p == kk.priority[c]
           t == owner[m]
           s == __OSPromoteThread(b, t, p)
           q == MutexWait(m)
           L == {}
<1>1. /\ kk \in Kernel /\ Good(kk, L) /\ L = {} /\ t \in Thread
      /\ NULL \notin Thread \cup Mutex
  BY KernelAssumption DEF Good, OwnershipType
<1> HIDE DEF L
<1>2. /\ b \in Kernel /\ Inheriting(b, owner) /\ b.mutex = With(kk.mutex, c, m)
      /\ b.state = kk.state /\ b.suspend = kk.suspend
      /\ b.priority = kk.priority /\ b.queue = kk.queue
      /\ b.current = kk.current
  BY <1>1, MutexFieldInherits
<1>3. Good(b, L)
  BY <1>1, MutexFieldGood
<1>4. Linked(b, L) /\ Inherited(b, owner, L, NULL) /\ b.priority[c] = p
  BY <1>1, <1>2 DEF Inheriting
<1>5. \A u \in Ranked(b, L) :
         Exact(b.base, s.priority, With(Lends(b, owner, L), c, t), u)
  <2>1. b.state[c] = "RUNNING" /\ s = __OSPromoteThread(b, t, b.priority[c])
    BY <1>2, <1>4
  <2> HIDE DEF s, t
  <2> QED
    BY <1>1, <1>3, <1>4, <2>1, PromotionSettles
<1>6. Good(s, L) /\ Repriced(b, s)
  <2>1. p \in Priority
    BY <1>3, <1>2, <1>1 DEF Good, Sound
  <2>2. ClosedFor(Thread, b, L) /\ t \in Thread \cup {NULL}
    BY <1>1, <1>2, AllClosed
  <2> HIDE DEF s, t, p
  <2>3. s = __OSPromoteThread(b, t, p)
    BY DEF s
  <2> QED
    BY <1>3, <2>1, <2>2, <2>3, PromotionEffect
<1>7. r = SleepThread(s, q)
  OBVIOUS
<1> HIDE DEF s, q, t
<1>8. /\ s.current = c /\ s.state = kk.state /\ s.state[c] = "RUNNING"
      /\ s.mutex = b.mutex /\ s.base = b.base
  BY <1>2, <1>6 DEF Repriced, Frame
<1>9. q \in BlockingQueues /\ \A n \in Mutex : q = MutexWait(n) <=> n = m
  BY QueueNames DEF q
<1>10. PICK x : /\ Good(x, {}) /\ FallsAsleep(s, x, c, q)
                /\ r = __OSReschedule(x)
  <2>1. Good(s, {})
    BY <1>1, <1>6
  <2> QED
    BY <1>7, <1>8, <1>9, <2>1, SleepParts
<1>11. s.mutex[c] = m /\ s.mutex[c] # NULL
  BY <1>1, <1>2, <1>8, Fields DEF With
<1>12. /\ Lends(s, owner, L) = Lends(b, owner, L)
       /\ Ranked(s, L) = Ranked(b, L) /\ Linked(s, L)
  BY <1>4, <1>6, RepricedLends
<1>13. /\ Lends(x, owner, L) = With(Lends(b, owner, L), c, t)
       /\ Ranked(x, L) = Ranked(b, L)
  <2>1. AwaitedOwner(s, owner, c) = t
    BY <1>11 DEF AwaitedOwner, t
  <2>2. /\ Lends(x, owner, L)
             = With(Lends(s, owner, L), c, AwaitedOwner(s, owner, c))
        /\ Ranked(x, L) = Ranked(s, L)
    <3>1. L = {} /\ s.state[c] = "RUNNING" /\ FallsAsleep(s, x, c, q)
      BY <1>1, <1>8, <1>10
    <3> QED
      BY ONLY c \in Thread, <3>1, AsleepLends
  <2> QED
    BY <1>12, <2>1, <2>2
<1>14. x.base = b.base /\ x.priority = s.priority
  BY <1>8, <1>10 DEF FallsAsleep, Frame
<1>15. Inherited(x, owner, L, NULL)
  BY <1>5, <1>13, <1>14 DEF Inherited, OthersExact
<1>16. Linked(x, L)
  <2>1. s \in Kernel /\ \A n \in Mutex : q = MutexWait(n) <=> s.mutex[c] = n
    BY <1>6, <1>9, <1>11 DEF Good
  <2> QED
    BY <1>10, <1>12, <2>1, AsleepLinked
<1>17. Inheriting(x, owner)
  BY <1>1, <1>15, <1>16 DEF Inheriting
<1>18. Inheriting(r, owner)
  <2>1. Still(x, r)
    BY <1>10, RescheduleStill
  <2> QED
    BY <1>17, <2>1, StillInherits
<1>19. Waits(s, new)
  <2> SUFFICES ASSUME NEW u \in Thread, ~Terminated(s, u), s.mutex[u] # NULL
               PROVE  new[u] = Locking(s.mutex[u])
    BY DEF Waits
  <2>1. CASE u = c
    BY <1>11, <2>1 DEF MovesTo
  <2>2. CASE u # c
    <3>1. s.mutex[u] = kk.mutex[u] /\ new[u] = pp[u]
      BY <1>1, <1>2, <1>8, <2>2, Fields DEF With, MovesTo
    <3>2. ~Terminated(kk, u)
      BY <1>8 DEF Terminated
    <3> QED
      BY <3>1, <3>2 DEF Waits
  <2> QED
    BY <2>1, <2>2
<1>20. Waits(r, new)
  <2>1. Good(s, {})
    BY <1>1, <1>6
  <2> QED
    BY <1>7, <1>8, <1>9, <1>19, <2>1, SleepWaits
<1> QED
  BY <1>18, <1>20

\* The owner of a mutex that nobody waits for does not matter.
LEMMA OwnersInherit ==
  ASSUME NEW kk \in Kernel, NEW ow, NEW ow1,
         \A m \in Mutex : ow1[m] = ow[m] \/ NoSleeper(kk, MutexWait(m)),
         Inheriting(kk, ow)
  PROVE  Inheriting(kk, ow1)
<1> DEFINE L == {}
<1>1. Linked(kk, L) /\ Inherited(kk, ow, L, NULL) /\ L = {}
  BY DEF Inheriting
<1> HIDE DEF L
<1>2. ASSUME NEW u \in Thread, kk.state[u] = "SLEEPING", kk.mutex[u] # NULL
      PROVE  ow1[kk.mutex[u]] = ow[kk.mutex[u]]
  <2>1. kk.mutex[u] \in Mutex
    BY <1>2, Fields
  <2>2. kk.queue[u] = MutexWait(kk.mutex[u])
    BY <1>1, <1>2, <2>1 DEF Linked
  <2> QED
    BY <1>2, <2>1, <2>2 DEF NoSleeper
<1>3. Lends(kk, ow1, L) = Lends(kk, ow, L)
  BY <1>2 DEF Lends
<1>4. Inherited(kk, ow1, L, NULL)
  BY <1>1, <1>3, SameLenders
<1> QED
  BY <1>1, <1>4 DEF Inheriting, L

\* A free mutex is taken.
LEMMA TakeInherits ==
  ASSUME OwnershipType, NEW kk \in Kernel, WaitersOwned(kk, owner),
         NEW m \in Mutex, owner[m] = NULL, NEW c \in Thread, TakeMutex(m, c),
         Inheriting(kk, owner)
  PROVE  Inheriting(kk, owner')
<1>1. \A n \in Mutex : owner'[n] = owner[n] \/ NoSleeper(kk, MutexWait(n))
  <2> TAKE n \in Mutex
  <2>1. CASE n = m
    BY <2>1 DEF WaitersOwned
  <2>2. CASE n # m
    BY <2>2 DEF TakeMutex, OwnershipType
  <2> QED
    BY <2>1, <2>2
<1> QED
  BY <1>1, OwnersInherit

\* When a mutex becomes free, its waiters lend to nobody.
Frees(ow, ow1, m) == ow1 = [ow EXCEPT ![m] = NULL]

\* That is the concern of its owner only.
LEMMA FreeLends ==
  ASSUME NEW kk \in Kernel, NEW L, NEW ow \in [Mutex -> Thread \cup {NULL}],
         NEW m \in Mutex, NEW ow1, Frees(ow, ow1, m)
  PROVE  /\ ow1 \in [Mutex -> Thread \cup {NULL}] /\ ow1[m] = NULL
         /\ \A u \in Thread : \/ Lends(kk, ow1, L)[u] = Lends(kk, ow, L)[u]
                              \/ /\ Lends(kk, ow1, L)[u] = NULL
                                 /\ Lends(kk, ow, L)[u] = ow[m]
         /\ \A t \in Thread \ {ow[m]} : \A p :
              Effective(kk.base, kk.priority, Lends(kk, ow, L), t, p)
                => Effective(kk.base, kk.priority, Lends(kk, ow1, L), t, p)
<1>1. /\ ow1 \in [Mutex -> Thread \cup {NULL}] /\ ow1[m] = NULL
      /\ \A n \in Mutex \ {m} : ow1[n] = ow[n]
      /\ NULL \notin Thread
  BY KernelAssumption DEF Frees
<1>2. \A u \in Thread : kk.mutex[u] \in Mutex \cup {NULL}
  BY Fields
<1>3. \A u \in Thread : \/ Lends(kk, ow1, L)[u] = Lends(kk, ow, L)[u]
                        \/ /\ Lends(kk, ow1, L)[u] = NULL
                           /\ Lends(kk, ow, L)[u] = ow[m]
  <2> TAKE u \in Thread
  <2>1. CASE kk.mutex[u] = m
    BY <1>1, <2>1 DEF Lends
  <2>2. CASE kk.mutex[u] # m
    BY <1>1, <1>2, <2>2 DEF Lends
  <2> QED
    BY <2>1, <2>2
<1>4. \A u \in Thread, t \in Thread \ {ow[m]} :
         Lends(kk, ow1, L)[u] = t <=> Lends(kk, ow, L)[u] = t
  BY <1>1, <1>3
<1>5. ASSUME NEW t \in Thread \ {ow[m]}, NEW p,
             Effective(kk.base, kk.priority, Lends(kk, ow, L), t, p)
      PROVE  Effective(kk.base, kk.priority, Lends(kk, ow1, L), t, p)
  <2> DEFINE l0 == Lends(kk, ow, L)
             l1 == Lends(kk, ow1, L)
  <2>1. \A u \in Thread : l1[u] = t <=> l0[u] = t
    BY <1>4
  <2> HIDE DEF l0, l1
  <2>2. Effective(kk.base, kk.priority, l0, t, p)
    BY <1>5 DEF l0
  <2>3. Effective(kk.base, kk.priority, l1, t, p)
    BY <2>1, <2>2 DEF Effective
  <2> QED
    BY <2>3 DEF l1
<1> QED
  BY <1>1, <1>3, <1>5

\* A mutex whose owner is gone becomes free, and its waiters wake up.
LEMMA AbandonInherits ==
  ASSUME NEW kk, Good(kk, {}), NEW ow \in [Mutex -> Thread \cup {NULL}],
         NEW m \in Mutex, ow[m] \in Thread => Terminated(kk, ow[m]),
         NEW ow1, Frees(ow, ow1, m), NEW r, r = WakeupThread(kk, MutexWait(m)),
         Inheriting(kk, ow)
  PROVE  Inheriting(r, ow1)
<1> DEFINE L == {}
<1>1. /\ Linked(kk, L) /\ Inherited(kk, ow, L, NULL) /\ kk \in Kernel
      /\ NULL \notin Thread \cup Mutex
  BY KernelAssumption DEF Inheriting, Good
<1> HIDE DEF L
<1>2. /\ ow1[m] = NULL
      /\ \A t \in Thread \ {ow[m]} : \A p :
           Effective(kk.base, kk.priority, Lends(kk, ow, L), t, p)
             => Effective(kk.base, kk.priority, Lends(kk, ow1, L), t, p)
  BY <1>1, FreeLends
<1>3. Inherited(kk, ow1, L, NULL)
  <2> SUFFICES ASSUME NEW t \in Ranked(kk, L)
               PROVE  Exact(kk.base, kk.priority, Lends(kk, ow1, L), t)
    BY DEF Inherited, OthersExact
  <2>1. t \in Thread \ {ow[m]} /\ t # NULL
    BY <1>1 DEF Ranked
  <2>2. Exact(kk.base, kk.priority, Lends(kk, ow, L), t)
    BY <1>1, <2>1 DEF Inherited, OthersExact
  <2> QED
    BY <1>2, <2>1, <2>2 DEF Exact
<1>4. Inheriting(kk, ow1)
  BY <1>1, <1>3 DEF Inheriting, L
<1>5. Wakes(kk, r, MutexWait(m))
  BY WakeupWakes, QueueNames
<1>6. \A u \in Thread :
         kk.state[u] = "SLEEPING" /\ kk.queue[u] = MutexWait(m)
           /\ kk.mutex[u] # NULL => ow1[kk.mutex[u]] = NULL
  BY <1>1, <1>2, <1>4 DEF Inheriting, Linked
<1> QED
  BY <1>4, <1>5, <1>6, WakesLenders

\* What lowering the priority of c leaves alone.
LEMMA LoweredFields ==
  ASSUME NEW kk \in Kernel, NEW c, NEW p, NEW x, Lowers(kk, x, c, p)
  PROVE  /\ x.priority = With(kk.priority, c, p) /\ x.base = kk.base
         /\ x.state = kk.state /\ x.mutex = kk.mutex /\ x.queue = kk.queue
         /\ x.suspend = kk.suspend
BY DEF Lowers, Kernel, With

\* The owner gives a mutex up: the threads but the owner inherit as before,
\* and the owner what the other mutexes give it.
LEMMA ReleaseLowers ==
  ASSUME NEW kk, NEW L, L = {}, Good(kk, L), NEW c \in Thread,
         kk.state[c] = "RUNNING",
         NEW ow \in [Mutex -> Thread \cup {NULL}], NEW m \in Mutex, ow[m] = c,
         NEW ow1, Frees(ow, ow1, m), NEW mq1, Owned(ow1, mq1),
         NEW p, p = __OSGetEffectivePriority(kk, mq1, c),
         Linked(kk, L), Inherited(kk, ow, L, NULL)
  PROVE  /\ kk.priority[c] < kk.base[c]
              => \A x : Lowers(kk, x, c, p) => Inherited(x, ow1, L, NULL)
         /\ ~(kk.priority[c] < kk.base[c]) => Inherited(kk, ow1, L, NULL)
<1> DEFINE l0 == Lends(kk, ow, L)
           l1 == Lends(kk, ow1, L)
           E == Ranked(kk, L)
<1>1. kk \in Kernel /\ NULL \notin Thread /\ c \in E /\ E \subseteq Thread
  BY KernelAssumption DEF Good, Sound, Ranked, Terminated
<1>2. /\ ow1 \in [Mutex -> Thread \cup {NULL}]
      /\ \A u \in Thread : l1[u] = l0[u] \/ (l1[u] = NULL /\ l0[u] = c)
      /\ \A t \in Thread \ {c} : \A q :
           Effective(kk.base, kk.priority, l0, t, q)
             => Effective(kk.base, kk.priority, l1, t, q)
  <2>1. ow1 \in [Mutex -> Thread \cup {NULL}]
    BY <1>1, FreeLends
  <2>2. \A u \in Thread : \/ Lends(kk, ow1, L)[u] = Lends(kk, ow, L)[u]
                          \/ /\ Lends(kk, ow1, L)[u] = NULL
                             /\ Lends(kk, ow, L)[u] = ow[m]
    BY <1>1, FreeLends
  <2>3. \A t \in Thread \ {ow[m]} : \A q :
           Effective(kk.base, kk.priority, Lends(kk, ow, L), t, q)
             => Effective(kk.base, kk.priority, Lends(kk, ow1, L), t, q)
    BY <1>1, FreeLends
  <2> QED
    BY <2>1, <2>2, <2>3
<1>3. /\ Numbers(kk.base, kk.priority, l0)
      /\ Numbers(kk.base, kk.priority, l1)
  BY <1>1, <1>2, KernelNumbers
<1>4. Effective(kk.base, kk.priority, l1, c, p)
  BY EffectiveComputed
<1>5. \A t \in E : Exact(kk.base, kk.priority, l0, t)
  BY <1>1 DEF Inherited, OthersExact
<1>6. l1[c] = NULL
  BY DEF Lends
<1>7. ASSUME kk.priority[c] < kk.base[c], NEW x, Lowers(kk, x, c, p)
      PROVE  Inherited(x, ow1, L, NULL)
  <2>1. /\ x.priority = With(kk.priority, c, p) /\ x.base = kk.base
        /\ x.state = kk.state /\ x.mutex = kk.mutex /\ x.queue = kk.queue
        /\ x.suspend = kk.suspend
    BY <1>1, <1>7, LoweredFields
  <2>2. Lends(x, ow1, L) = l1 /\ Ranked(x, L) = E
    BY <2>1 DEF Lends, Ranked, Terminated
  <2>3. ASSUME NEW t \in E PROVE Exact(x.base, x.priority, l1, t)
    <3>1. \A q : Effective(kk.base, kk.priority, l1, t, q)
                   => Effective(x.base, x.priority, l1, t, q)
      <4>1. t \in Thread /\ l1[c] # t
        BY <1>1, <1>6
      <4> HIDE DEF l1
      <4> QED
        BY <1>3, <2>1, <4>1, LendsToOther
    <3>2. CASE t = c
      <4>1. x.priority[t] = p
        BY <1>3, <2>1, <3>2 DEF With, Numbers
      <4> QED
        BY <1>4, <3>1, <3>2, <4>1 DEF Exact
    <3>3. CASE t # c
      <4>1. x.priority[t] = kk.priority[t] /\ t \in Thread \ {c}
        BY <1>1, <1>3, <2>1, <3>3 DEF With, Numbers
      <4>2. Effective(kk.base, kk.priority, l1, t, kk.priority[t])
        BY <1>2, <1>5, <4>1 DEF Exact
      <4> QED
        BY <3>1, <4>1, <4>2 DEF Exact
    <3> QED
      BY <3>2, <3>3
  <2> QED
    BY <2>2, <2>3 DEF Inherited, OthersExact
<1>8. ASSUME ~(kk.priority[c] < kk.base[c])
      PROVE  Inherited(kk, ow1, L, NULL)
  <2>1. ASSUME NEW t \in E PROVE Exact(kk.base, kk.priority, l1, t)
    <3>1. CASE t = c
      <4> HIDE DEF l0, l1
      <4>1. kk.priority[c] = kk.base[c]
        <5>1. kk.priority[c] <= kk.base[c]
          BY <1>1, <1>5 DEF Exact, Effective
        <5>2. kk.priority[c] \in Nat /\ kk.base[c] \in Nat
          BY <1>3 DEF Numbers
        <5> QED
          BY <1>8, <5>1, <5>2
      <4>2. \A u \in Thread : l1[u] = c => l0[u] = c
        BY <1>1, <1>2
      <4>3. Effective(kk.base, kk.priority, l0, c, kk.priority[c])
        BY <1>1, <1>5 DEF Exact
      <4>4. Effective(kk.base, kk.priority, l1, c, kk.priority[c])
        BY <4>1, <4>2, <4>3 DEF Effective
      <4> QED
        BY <3>1, <4>4 DEF Exact
    <3>2. CASE t # c
      BY <1>1, <1>2, <1>5, <3>2 DEF Exact
    <3> QED
      BY <3>1, <3>2
  <2> QED
    BY <2>1 DEF Inherited, OthersExact
<1> QED
  BY <1>7, <1>8

\* OSUnlockMutex, the last unlock.
LEMMA ReleaseInherits ==
  ASSUME NEW kk, Good(kk, {}), NEW c \in Thread, kk.state[c] = "RUNNING",
         NEW ow \in [Mutex -> Thread \cup {NULL}], NEW m \in Mutex, ow[m] = c,
         NEW ow1, Frees(ow, ow1, m), NEW mq1, Owned(ow1, mq1),
         NEW p, p = __OSGetEffectivePriority(kk, mq1, c),
         NEW x, Good(x, {}),
         kk.priority[c] < kk.base[c] => Lowers(kk, x, c, p),
         ~(kk.priority[c] < kk.base[c]) => x = kk,
         NEW r, r = WakeupThread(x, MutexWait(m)), Inheriting(kk, ow)
  PROVE  Inheriting(r, ow1) /\ \A pp : Waits(kk, pp) => Waits(r, pp)
<1> DEFINE L == {}
<1>1. /\ Linked(kk, L) /\ Inherited(kk, ow, L, NULL) /\ Good(kk, L) /\ L = {}
      /\ kk \in Kernel
  BY DEF Inheriting, Good
<1> HIDE DEF L
<1>2. Inherited(x, ow1, L, NULL)
  <2>1. /\ kk.priority[c] < kk.base[c]
             => \A y : Lowers(kk, y, c, p) => Inherited(y, ow1, L, NULL)
        /\ ~(kk.priority[c] < kk.base[c]) => Inherited(kk, ow1, L, NULL)
    BY <1>1, ReleaseLowers
  <2> QED
    BY <2>1
<1>3. /\ x.state = kk.state /\ x.mutex = kk.mutex /\ x.queue = kk.queue
  BY <1>1, LoweredFields
<1>4. Inheriting(x, ow1)
  BY <1>1, <1>2, <1>3 DEF Inheriting, Linked, L
<1>5. Wakes(x, r, MutexWait(m))
  BY WakeupWakes, QueueNames
<1>6. \A u \in Thread :
         x.state[u] = "SLEEPING" /\ x.queue[u] = MutexWait(m)
           /\ x.mutex[u] # NULL => ow1[x.mutex[u]] = NULL
  <2>1. ow1[m] = NULL
    BY DEF Frees
  <2> QED
    BY <1>4, <2>1 DEF Inheriting, Linked
<1>7. Inheriting(r, ow1)
  BY <1>4, <1>5, <1>6, WakesLenders
<1>8. ASSUME NEW pp, Waits(kk, pp) PROVE Waits(r, pp)
  <2>1. Waits(x, pp)
    BY <1>3, <1>8 DEF Waits, Terminated
  <2> QED
    BY <1>5, <2>1, WakesWaits
<1> QED
  BY <1>7, <1>8

-----------------------------------------------------------------------------
(* One thread changes: it is resumed, suspended, cancelled or created.      *)

\* The other threads sleep, wait and rank as they did.
Alters(kk, r, t) ==
    \A u \in Thread \ {t} :
      /\ r.base[u] = kk.base[u] /\ r.mutex[u] = kk.mutex[u]
      /\ r.priority[u] = kk.priority[u] /\ r.suspend[u] = kk.suspend[u]
      /\ r.state[u] = "SLEEPING" <=> kk.state[u] = "SLEEPING"
      /\ Terminated(r, u) <=> Terminated(kk, u)
      /\ kk.state[u] = "SLEEPING" => r.queue[u] = kk.queue[u]

\* Whoever t lends nothing to, before and after, is not concerned.
LEMMA OtherEffective ==
  ASSUME NEW base, NEW prio, NEW lends, NEW base1, NEW prio1, NEW lends1,
         NEW t \in Thread,
         \A u \in Thread \ {t} : lends1[u] = lends[u] /\ prio1[u] = prio[u],
         NEW v \in Thread, base1[v] = base[v], lends[t] # v, lends1[t] # v,
         NEW p
  PROVE  Effective(base, prio, lends, v, p)
           <=> Effective(base1, prio1, lends1, v, p)
<1>1. \A u \in Thread : lends1[u] = v <=> lends[u] = v
  OBVIOUS
<1>2. \A u \in Thread : lends[u] = v => prio1[u] = prio[u]
  OBVIOUS
<1> QED
  BY <1>1, <1>2 DEF Effective

\* So all threads have the priority that is due to them but the one that t
\* lends to or lent to.
LEMMA AlteredInherited ==
  ASSUME NEW kk, NEW r, NEW t \in Thread, Alters(kk, r, t),
         NEW ow, NEW L, NEW M,
         \A u \in Thread \ {t} : u \notin L /\ u \notin M,
         Inherited(kk, ow, L, NULL),
         NEW o, Lends(kk, ow, L)[t] \in {o, NULL},
         Lends(r, ow, M)[t] \in {o, NULL},
         t \in Ranked(r, M) /\ t # o
            => Exact(r.base, r.priority, Lends(r, ow, M), t)
  PROVE  Inherited(r, ow, M, o)
<1>1. \A u \in Thread \ {t} : /\ Lends(r, ow, M)[u] = Lends(kk, ow, L)[u]
                              /\ r.priority[u] = kk.priority[u]
                              /\ r.base[u] = kk.base[u]
                              /\ u \in Ranked(r, M) <=> u \in Ranked(kk, L)
  BY DEF Alters, Lends, Ranked
<1> SUFFICES ASSUME NEW v \in Ranked(r, M) \ {o}, v # t
             PROVE  Exact(r.base, r.priority, Lends(r, ow, M), v)
  BY DEF Inherited, OthersExact
<1>2. v \in Thread \ {t} /\ v # NULL /\ v \in Ranked(kk, L)
  BY <1>1, KernelAssumption DEF Ranked
<1>3. Effective(kk.base, kk.priority, Lends(kk, ow, L), v, r.priority[v])
  BY <1>1, <1>2 DEF Inherited, OthersExact, Exact
<1> DEFINE l0 == Lends(kk, ow, L)
           l1 == Lends(r, ow, M)
           b0 == kk.base
           b1 == r.base
           p0 == kk.priority
           p1 == r.priority
           p  == r.priority[v]
<1>4. /\ \A u \in Thread \ {t} : l1[u] = l0[u] /\ p1[u] = p0[u]
      /\ l0[t] # v /\ l1[t] # v /\ b1[v] = b0[v] /\ v \in Thread
  BY <1>1, <1>2
<1>5. Effective(b0, p0, l0, v, p)
  BY <1>3
<1> HIDE DEF l0, l1, b0, b1, p0, p1, p
<1>6. Effective(b1, p1, l1, v, p)
  BY ONLY t \in Thread, <1>4, <1>5, OtherEffective
<1> QED
  BY <1>6 DEF Exact, l1, b1, p1, p

\* And every sleeper is in the queue of its mutex.
LEMMA AlteredLinked ==
  ASSUME NEW kk, NEW r, NEW t \in Thread, Alters(kk, r, t), NEW L, NEW M,
         \A u \in Thread \ {t} : u \notin L /\ u \notin M,
         t \notin M /\ r.state[t] = "SLEEPING"
            => /\ t \notin L /\ kk.state[t] = "SLEEPING"
               /\ r.queue[t] = kk.queue[t] /\ r.mutex[t] = kk.mutex[t],
         Linked(kk, L)
  PROVE  Linked(r, M)
<1> SUFFICES ASSUME NEW u \in Thread \ M, r.state[u] = "SLEEPING",
                    NEW m \in Mutex
             PROVE  r.queue[u] = MutexWait(m) <=> r.mutex[u] = m
  BY DEF Linked
<1>1. CASE u = t
  BY <1>1 DEF Linked
<1>2. CASE u # t
  BY <1>2 DEF Linked, Alters
<1> QED
  BY <1>1, <1>2

\* And every thread is where its mutex field says.
LEMMA AlteredWaits ==
  ASSUME NEW kk, NEW r, NEW t \in Thread, Alters(kk, r, t), NEW pp,
         ~Terminated(r, t) /\ r.mutex[t] # NULL
            => ~Terminated(kk, t) /\ r.mutex[t] = kk.mutex[t],
         Waits(kk, pp)
  PROVE  Waits(r, pp)
<1> SUFFICES ASSUME NEW u \in Thread, ~Terminated(r, u), r.mutex[u] # NULL
             PROVE  pp[u] = Locking(r.mutex[u])
  BY DEF Waits
<1>1. CASE u = t
  BY <1>1 DEF Waits
<1>2. CASE u # t
  BY <1>2 DEF Waits, Alters
<1> QED
  BY <1>1, <1>2

\* t does not sleep and is not run, before and after: nobody is concerned.
LEMMA AwakeInherits ==
  ASSUME NEW kk, NEW r, NEW t \in Thread, Alters(kk, r, t), NEW ow,
         kk.state[t] # "SLEEPING", r.state[t] # "SLEEPING",
         Terminated(r, t) \/ r.suspend[t] # 0, Inheriting(kk, ow)
  PROVE  Inheriting(r, ow)
<1> DEFINE L == {}
<1>1. Linked(kk, L) /\ Inherited(kk, ow, L, NULL)
      /\ \A u \in Thread : u \notin L
  BY DEF Inheriting
<1> HIDE DEF L
<1>2. Lends(kk, ow, L)[t] = NULL /\ Lends(r, ow, L)[t] = NULL
      /\ t \notin Ranked(r, L)
  BY DEF Lends, Ranked
<1>3. Inherited(r, ow, L, NULL)
  BY <1>1, <1>2, AlteredInherited
<1>4. Linked(r, L)
  BY <1>1, AlteredLinked
<1> QED
  BY <1>3, <1>4 DEF Inheriting, L

\* UpdateBlocker puts the owner right that t lends to or lent to.
LEMMA BlockerSettles ==
  ASSUME OwnershipType, Owned(owner, mutexQueue),
         NEW kk, NEW L, Good(kk, L), Linked(kk, L),
         NEW C, ClosedFor(C, kk, L), NEW t \in Thread,
         AwaitedOwner(kk, owner, t) \in C \cup {NULL},
         Inherited(kk, owner, L, AwaitedOwner(kk, owner, t)),
         NEW r, r = UpdateBlocker(kk, t)
  PROVE  Good(r, L) /\ Repriced(kk, r) /\ Linked(r, L)
         /\ Inherited(r, owner, L, NULL)
<1>1. kk.mutex[t] # NULL => owner[kk.mutex[t]] \in C \cup {NULL}
  BY DEF AwaitedOwner
<1>2. Good(r, L) /\ Repriced(kk, r)
  BY <1>1, UpdateBlockerEffect
<1>3. Linked(r, L)
  BY <1>2, RepricedLends
<1>4. Inherited(r, owner, L, NULL)
  <2>1. CASE kk.mutex[t] = NULL
    <3>1. r = kk
      BY <2>1 DEF UpdateBlocker
    <3>2. AwaitedOwner(kk, owner, t) = NULL
      BY <2>1 DEF AwaitedOwner
    <3> QED
      BY <3>1, <3>2
  <2>2. CASE kk.mutex[t] # NULL
    <3> DEFINE o == AwaitedOwner(kk, owner, t)
    <3>1. r = UpdatePriority(kk, o) /\ o \in C \cup {NULL}
          /\ Inherited(kk, owner, L, o)
      BY <2>2 DEF UpdateBlocker, AwaitedOwner
    <3> HIDE DEF o
    <3> QED
      BY <3>1, UpdateSettles
  <2> QED
    BY <2>1, <2>2
<1> QED
  BY <1>2, <1>3, <1>4

\* What t lends, if anything, goes to the owner of its mutex.
LEMMA LendsAwaited ==
  ASSUME NEW kk, NEW ow, NEW L, NEW t \in Thread
  PROVE  Lends(kk, ow, L)[t] \in {AwaitedOwner(kk, ow, t), NULL}
BY DEF Lends, AwaitedOwner

\* A walk says nothing of what threads wait for.
LEMMA RepricedWaits ==
  ASSUME NEW kk, NEW r, Repriced(kk, r), NEW pp, Waits(kk, pp)
  PROVE  Waits(r, pp)
BY DEF Repriced, Frame, Waits, Terminated

\* One suspension more or less of a thread that stays suspended.
LEMMA CountInherits ==
  ASSUME NEW kk \in Kernel, NEW t \in Thread, NEW n \in Nat \ {0},
         NEW r, r = [kk EXCEPT !.suspend[t] = n], NEW ow, Inheriting(kk, ow)
  PROVE  Inheriting(r, ow) /\ \A pp : Waits(kk, pp) => Waits(r, pp)
<1>1. /\ r.suspend[t] = n /\ \A u \in Thread \ {t} : SameAt(kk, r, u)
      /\ r.state = kk.state /\ r.queue = kk.queue /\ r.priority = kk.priority
      /\ Frame(kk, r)
  BY SuspendField
<1>2. r.base = kk.base /\ r.mutex = kk.mutex /\ r.suspend[t] # 0
      /\ \A u \in Thread \ {t} : r.suspend[u] = kk.suspend[u]
  BY <1>1 DEF Frame, SameAt
<1> DEFINE L == {}
<1>3. Linked(kk, L) /\ Inherited(kk, ow, L, NULL)
  BY DEF Inheriting
<1> HIDE DEF L
<1>4. Lends(r, ow, L) = Lends(kk, ow, L)
  BY <1>1, <1>2 DEF Lends
<1>5. Ranked(r, L) \subseteq Ranked(kk, L)
  BY <1>1, <1>2 DEF Ranked, Terminated
<1>6. Inherited(r, ow, L, NULL)
  BY <1>1, <1>2, <1>3, <1>4, <1>5, SameLenders
<1>7. Linked(r, L)
  BY <1>1, <1>2, <1>3 DEF Linked
<1>8. Inheriting(r, ow)
  BY <1>6, <1>7 DEF Inheriting, L
<1>9. ASSUME NEW pp, Waits(kk, pp) PROVE Waits(r, pp)
  BY <1>1, <1>2, <1>9 DEF Waits, Terminated
<1> QED
  BY <1>8, <1>9

\* A thread that is resumed has its effective priority again, and so has the
\* thread that it lends to.
LEMMA ResumedInherits ==
  ASSUME OwnershipType, Owned(owner, mutexQueue), NEW kk, Good(kk, {}),
         NEW t \in Thread, kk.suspend[t] # 0,
         NEW p, p = __OSGetEffectivePriority(kk, mutexQueue, t),
         NEW x, Good(x, {}), Resumed(kk, x, t, p), NEW r,
         kk.state[t] = "SLEEPING" => r = __OSReschedule(UpdateBlocker(x, t)),
         kk.state[t] # "SLEEPING" => r = __OSReschedule(x),
         Inheriting(kk, owner)
  PROVE  Inheriting(r, owner) /\ \A pp : Waits(kk, pp) => Waits(r, pp)
<1> DEFINE L == {}
           o == IF kk.state[t] = "SLEEPING" THEN AwaitedOwner(kk, owner, t)
                ELSE NULL
<1>1. /\ Linked(kk, L) /\ Inherited(kk, owner, L, NULL)
      /\ Good(kk, L) /\ Good(x, L) /\ kk \in Kernel /\ x \in Kernel
      /\ NULL \notin Thread /\ ClosedFor(Thread, x, L)
      /\ \A u \in Thread : u \notin L
  <2>1. x \in Kernel
    BY DEF Good
  <2> QED
    BY <2>1, KernelAssumption, AllClosed DEF Inheriting, Good
<1>2. L = {}
  OBVIOUS
<1> HIDE DEF L
<1>3. /\ x.base = kk.base /\ x.mutex = kk.mutex /\ x.state = kk.state
      /\ x.suspend[t] = 0
      /\ \A u \in Thread \ {t} :
           /\ x.suspend[u] = kk.suspend[u] /\ x.queue[u] = kk.queue[u]
           /\ x.priority[u] = kk.priority[u]
      /\ kk.state[t] \in {"READY", "SLEEPING"} => x.priority[t] = p
      /\ kk.state[t] = "SLEEPING" => x.queue[t] = kk.queue[t]
  BY DEF Resumed, Frame
<1>4. Alters(kk, x, t)
  BY <1>3 DEF Alters, Terminated
<1>5. Lends(x, owner, L) = Lends(kk, owner, L)
  BY <1>3 DEF Lends
<1>6. Lends(kk, owner, L)[t] \in {o, NULL}
  BY LendsAwaited DEF Lends
<1> HIDE DEF o
<1>7. ASSUME t \in Ranked(x, L), t # o
      PROVE  Exact(x.base, x.priority, Lends(x, owner, L), t)
  <2>1. kk.state[t] \in {"READY", "SLEEPING"}
    <3>1. kk.state[t] \in States /\ ~Terminated(kk, t)
      BY <1>1, <1>3, <1>7, Fields DEF Ranked, Terminated
    <3>2. kk.state[t] # "RUNNING"
      BY DEF Good, Sound
    <3> QED
      BY <3>1, <3>2 DEF States, Terminated
  <2>2. x.priority[t] = p
    BY <1>3, <2>1
  <2>3. Effective(kk.base, kk.priority, Lends(kk, owner, L), t, p)
    BY <1>1, EffectiveComputed
  <2> DEFINE l  == Lends(kk, owner, L)
             b0 == kk.base
             p0 == kk.priority
             p1 == x.priority
  <2>4. Effective(b0, p0, l, t, p) /\ l[t] # t
        /\ \A u \in Thread \ {t} : l[u] = l[u] /\ p1[u] = p0[u]
    BY <1>1, <1>3, <1>6, <1>7, <2>3
  <2> HIDE DEF l, b0, p0, p1
  <2>5. Effective(b0, p1, l, t, p)
    BY ONLY t \in Thread, <2>4, OtherEffective
  <2> QED
    BY <1>3, <1>5, <2>2, <2>5 DEF Exact, l, b0, p1
<1>8. Inherited(x, owner, L, o)
  BY <1>1, <1>4, <1>5, <1>6, <1>7, AlteredInherited
<1>9. Linked(x, L)
  BY <1>1, <1>3, <1>4, AlteredLinked
<1>10. \A pp : Waits(kk, pp) => Waits(x, pp)
  BY <1>3 DEF Waits, Terminated
<1>11. CASE kk.state[t] = "SLEEPING"
  <2> DEFINE s == UpdateBlocker(x, t)
  <2>1. r = __OSReschedule(s)
    BY <1>11
  <2>2. o = AwaitedOwner(x, owner, t)
    BY <1>3, <1>11 DEF o, AwaitedOwner
  <2>3. AwaitedOwner(x, owner, t) \in Thread \cup {NULL}
    BY <1>1, Fields DEF AwaitedOwner, OwnershipType
  <2>4. s = UpdateBlocker(x, t)
    OBVIOUS
  <2> HIDE DEF s
  <2>5. /\ Good(s, L) /\ Repriced(x, s) /\ Linked(s, L)
        /\ Inherited(s, owner, L, NULL)
    BY <1>1, <1>8, <1>9, <2>2, <2>3, <2>4, BlockerSettles
  <2>6. Inheriting(s, owner)
    BY <2>5, <1>2 DEF Inheriting
  <2>7. Good(s, {})
    BY <2>5, <1>2
  <2>8. Still(s, r)
    BY <2>1, <2>7, RescheduleStill
  <2>9. \A pp : Waits(kk, pp) => Waits(r, pp)
    BY <1>10, <2>5, <2>8, RepricedWaits, StillWaits
  <2> QED
    BY <2>6, <2>8, <2>9, StillInherits
<1>12. CASE kk.state[t] # "SLEEPING"
  <2>1. r = __OSReschedule(x) /\ o = NULL
    BY <1>12 DEF o
  <2>2. Inheriting(x, owner)
    BY <1>2, <1>8, <1>9, <2>1 DEF Inheriting
  <2>3. Still(x, r)
    BY <2>1, RescheduleStill
  <2>4. \A pp : Waits(kk, pp) => Waits(r, pp)
    BY <1>10, <2>3, StillWaits
  <2> QED
    BY <2>2, <2>3, <2>4, StillInherits
<1> QED
  BY <1>11, <1>12

\* OSResumeThread.
LEMMA ResumeInherits ==
  ASSUME OwnershipType, Owned(owner, mutexQueue), NEW kk, Good(kk, {}),
         NEW t \in Thread, NEW r, r = ResumeThread(kk, t),
         Inheriting(kk, owner)
  PROVE  Inheriting(r, owner) /\ \A pp : Waits(kk, pp) => Waits(r, pp)
<1>1. kk \in Kernel /\ kk.suspend \in [Thread -> Nat]
  BY Fields DEF Good
<1>2. CASE kk.suspend[t] = 0
  <2>1. r = kk
    BY <1>1, <1>2 DEF ResumeThread, Kernel
  <2> QED
    BY <2>1
<1>3. CASE kk.suspend[t] > 1
  <2> DEFINE left == kk.suspend[t] - 1
  <2>1. r = [kk EXCEPT !.suspend[t] = left] /\ left \in Nat \ {0}
    BY <1>1, <1>3 DEF ResumeThread
  <2> HIDE DEF left
  <2> QED
    BY <1>1, <2>1, CountInherits
<1>4. CASE kk.suspend[t] = 1
  <2> DEFINE p == __OSGetEffectivePriority(kk, mutexQueue, t)
  <2>1. p = __OSGetEffectivePriority(kk, mutexQueue, t)
    OBVIOUS
  <2> HIDE DEF p
  <2>2. PICK x : /\ Good(x, {}) /\ Resumed(kk, x, t, p)
                 /\ kk.state[t] = "SLEEPING"
                      => r = __OSReschedule(UpdateBlocker(x, t))
                 /\ kk.state[t] # "SLEEPING" => r = __OSReschedule(x)
    BY <1>4, <2>1, ResumeParts
  <2>3. kk.suspend[t] # 0
    BY <1>4
  <2> QED
    BY <2>1, <2>2, <2>3, ResumedInherits
<1> QED
  BY <1>1, <1>2, <1>3, <1>4

\* A thread that is suspended lends nothing, and loses its rank.
LEMMA SuspendInherits ==
  ASSUME OwnershipType, Owned(owner, mutexQueue), NEW kk, Good(kk, {}),
         NEW t \in Thread, NEW r, r = SuspendThread(kk, t),
         Inheriting(kk, owner)
  PROVE  Inheriting(r, owner) /\ \A pp : Waits(kk, pp) => Waits(r, pp)
<1>1. kk \in Kernel /\ kk.suspend \in [Thread -> Nat]
  BY Fields DEF Good
<1>2. CASE kk.suspend[t] # 0
  <2> DEFINE n == kk.suspend[t] + 1
  <2>1. r = [kk EXCEPT !.suspend[t] = n] /\ n \in Nat \ {0}
    BY <1>1, <1>2 DEF SuspendThread
  <2> HIDE DEF n
  <2> QED
    BY <1>1, <2>1, CountInherits
<1>3. CASE kk.suspend[t] = 0
  <2> DEFINE x == [kk EXCEPT !.suspend[t] = 1]
             s == Suspend(x, t)
             L == {}
             o == IF kk.state[t] = "SLEEPING" THEN AwaitedOwner(kk, owner, t)
                  ELSE NULL
  <2>1. r = __OSReschedule(s) /\ s = Suspend(x, t)
    <3>1. kk.suspend[t] + 1 = 1
      BY <1>3
    <3> QED
      BY <1>3, <3>1 DEF SuspendThread
  <2>2. FirstCount(kk, x, t)
    BY <1>1, SuspendField DEF FirstCount
  <2> HIDE DEF x, s
  <2>3. PICK y : /\ Good(y, {}) /\ Suspends(kk, y, t)
                 /\ \A u \in Thread \ {t} : y.priority[u] = kk.priority[u]
                 /\ kk.state[t] # "RUNNING" => y.state[t] = kk.state[t]
                 /\ kk.state[t] = "SLEEPING" => s = UpdateBlocker(y, t)
                 /\ kk.state[t] # "SLEEPING" => s = y
    BY <1>3, <2>1, <2>2, SuspendParts
  <2>4. /\ Linked(kk, L) /\ Inherited(kk, owner, L, NULL)
        /\ Good(y, L) /\ y \in Kernel /\ ClosedFor(Thread, y, L)
        /\ \A u \in Thread : u \notin L
    <3>1. y \in Kernel
      BY <2>3 DEF Good
    <3> QED
      BY <2>3, <3>1, AllClosed DEF Inheriting
  <2>5. L = {}
    OBVIOUS
  <2> HIDE DEF L
  <2>6. /\ y.base = kk.base /\ y.mutex = kk.mutex /\ y.suspend[t] = 1
        /\ \A u \in Thread \ {t} :
             /\ y.suspend[u] = kk.suspend[u] /\ y.state[u] = kk.state[u]
             /\ kk.state[u] = "SLEEPING" => y.queue[u] = kk.queue[u]
        /\ Terminated(kk, t) \/ Terminated(y, t) => y.state[t] = kk.state[t]
        /\ y.state[t] = "SLEEPING"
             => kk.state[t] = "SLEEPING" /\ y.queue[t] = kk.queue[t]
    BY <2>3 DEF Suspends, Frame
  <2>7. Alters(kk, y, t)
    BY <2>3, <2>6 DEF Alters, Terminated
  <2>8. Lends(kk, owner, L)[t] \in {o, NULL}
        /\ Lends(y, owner, L)[t] \in {o, NULL}
    BY <2>6 DEF Lends, AwaitedOwner
  <2> HIDE DEF o
  <2>9. t \notin Ranked(y, L)
    BY <2>6 DEF Ranked
  <2>10. Inherited(y, owner, L, o)
    BY <2>4, <2>7, <2>8, <2>9, AlteredInherited
  <2>11. Linked(y, L)
    BY <2>4, <2>6, <2>7, AlteredLinked
  <2>12. \A pp : Waits(kk, pp) => Waits(y, pp)
    <3>1. ~Terminated(y, t) => ~Terminated(kk, t)
      BY <2>6 DEF Terminated
    <3> QED
      BY <2>6, <2>7, <3>1, AlteredWaits
  <2>13. CASE kk.state[t] = "SLEEPING"
    <3>1. o = AwaitedOwner(y, owner, t)
      BY <2>6, <2>13 DEF o, AwaitedOwner
    <3>2. AwaitedOwner(y, owner, t) \in Thread \cup {NULL}
      BY <2>4, Fields DEF AwaitedOwner, OwnershipType
    <3>3. s = UpdateBlocker(y, t)
      BY <2>3, <2>13
    <3>4. /\ Good(s, L) /\ Repriced(y, s) /\ Linked(s, L)
          /\ Inherited(s, owner, L, NULL)
      BY <2>4, <2>10, <2>11, <3>1, <3>2, <3>3, BlockerSettles
    <3>5. Inheriting(s, owner) /\ Good(s, {})
      BY <2>5, <3>4 DEF Inheriting
    <3>6. Still(s, r)
      BY <2>1, <3>5, RescheduleStill
    <3>7. \A pp : Waits(kk, pp) => Waits(r, pp)
      BY <2>12, <3>4, <3>6, RepricedWaits, StillWaits
    <3> QED
      BY <3>5, <3>6, <3>7, StillInherits
  <2>14. CASE kk.state[t] # "SLEEPING"
    <3>1. r = __OSReschedule(y) /\ o = NULL
      BY <2>1, <2>3, <2>14 DEF o
    <3>2. Inheriting(y, owner)
      BY <2>5, <2>10, <2>11, <3>1 DEF Inheriting
    <3>3. Still(y, r)
      BY <2>3, <3>1, RescheduleStill
    <3>4. \A pp : Waits(kk, pp) => Waits(r, pp)
      BY <2>12, <3>3, StillWaits
    <3> QED
      BY <3>2, <3>3, <3>4, StillInherits
  <2> QED
    BY <2>13, <2>14
<1> QED
  BY <1>2, <1>3

\* Terminate concerns t only.
LEMMA TerminateAlters ==
  ASSUME NEW kk \in Kernel, NEW t \in Thread, NEW r, r = Terminate(kk, t)
  PROVE  Alters(kk, r, t) /\ Terminated(r, t)
<1> DEFINE e == IF t \in kk.detached THEN "EXITED" ELSE "MORIBUND"
           st == [kk.state EXCEPT ![t] = e]
           ac == IF t \in kk.detached THEN kk.active \ {t} ELSE kk.active
<1>1. r = [kk EXCEPT !.active = ac, !.state = st]
  BY DEF Terminate, Kernel
<1>2. e \in {"EXITED", "MORIBUND"} /\ st[t] = e
      /\ \A u \in Thread \ {t} : st[u] = kk.state[u]
  BY Fields
<1> HIDE DEF e, st, ac
<1>3. /\ r.state = st /\ r.base = kk.base /\ r.mutex = kk.mutex
      /\ r.priority = kk.priority /\ r.suspend = kk.suspend
      /\ r.queue = kk.queue
  BY <1>1 DEF Kernel
<1> QED
  BY <1>2, <1>3 DEF Alters, Terminated

\* A suspended sleeper is less urgent than any base priority: nobody notices
\* when it is gone.
LEMMA LeastLender ==
  ASSUME NEW base, NEW prio, NEW lends, Numbers(base, prio, lends),
         NEW t \in Thread, NEW v \in Thread, base[v] < prio[t],
         NEW lends1, \A u \in Thread \ {t} : lends1[u] = lends[u],
         lends1[t] = NULL, Exact(base, prio, lends, v)
  PROVE  Exact(base, prio, lends1, v)
<1>1. /\ prio[v] \in Nat /\ base[v] \in Nat /\ prio[t] \in Nat
      /\ prio[v] <= base[v]
      /\ \A u \in Thread : lends[u] = v => prio[v] <= prio[u]
      /\ prio[v] = base[v]
           \/ \E u \in Thread : lends[u] = v /\ prio[v] = prio[u]
  BY DEF Exact, Effective, Numbers
<1>2. \A u \in Thread : lends1[u] = v <=> lends[u] = v /\ u # t
  BY KernelAssumption
<1>3. prio[v] # prio[t]
  BY <1>1
<1> QED
  BY <1>1, <1>2, <1>3 DEF Exact, Effective

\* A sleeper is taken out of its queue: the owner it lent to is put right.
LEMMA WithdrawnInherits ==
  ASSUME OwnershipType, Owned(owner, mutexQueue), Good(k, {}),
         NEW t \in Thread, ~Deadlocked(t), k.state[t] = "SLEEPING",
         NEW s, s = Withdraw(k, t), NEW M, M = {t}, Inheriting(k, owner)
  PROVE  /\ s \in Kernel /\ Linked(s, M) /\ Inherited(s, owner, M, NULL)
         /\ \A pp : Waits(k, pp) => Waits(s, pp)
<1>1. PICK off, C : /\ Good(off, {t}) /\ Withdrawn(k, off, t)
                    /\ off.priority = k.priority /\ ClosedFor(C, off, {t})
                    /\ off.mutex[t] # NULL
                         => owner[off.mutex[t]] \in C \cup {NULL}
                    /\ k.suspend[t] = 0 => s = UpdateBlocker(off, t)
                    /\ k.suspend[t] # 0 => s = off
  BY WithdrawParts
<1> DEFINE L == {}
           o == AwaitedOwner(k, owner, t)
<1>2. /\ Linked(k, L) /\ Inherited(k, owner, L, NULL)
      /\ Good(off, M) /\ off \in Kernel /\ ClosedFor(C, off, M)
      /\ \A u \in Thread \ {t} : u \notin L /\ u \notin M
      /\ k \in Kernel /\ t \in M /\ NULL \notin Thread
  BY <1>1, KernelAssumption DEF Inheriting, Good
<1>3. L = {}
  OBVIOUS
<1> HIDE DEF L
<1>4. /\ off.base = k.base /\ off.mutex = k.mutex /\ off.state = k.state
      /\ off.suspend = k.suspend
      /\ \A u \in Thread \ {t} :
           k.state[u] = "SLEEPING" => off.queue[u] = k.queue[u]
  BY <1>1 DEF Withdrawn, Frame
<1>5. Alters(k, off, t)
  BY <1>1, <1>4 DEF Alters, Terminated
<1>6. Lends(k, owner, L)[t] \in {o, NULL} /\ Lends(off, owner, M)[t] = NULL
      /\ t \notin Ranked(off, M)
  BY <1>2 DEF Lends, AwaitedOwner, Ranked
<1> HIDE DEF o
<1>7. Inherited(off, owner, M, o)
  BY <1>2, <1>5, <1>6, AlteredInherited
<1>8. Linked(off, M)
  BY <1>2, <1>5, AlteredLinked
<1>9. \A pp : Waits(k, pp) => Waits(off, pp)
  BY <1>4 DEF Waits, Terminated
<1>10. CASE k.suspend[t] = 0
  <2>1. o = AwaitedOwner(off, owner, t)
    BY <1>4 DEF o, AwaitedOwner
  <2>2. AwaitedOwner(off, owner, t) \in C \cup {NULL}
    BY <1>1 DEF AwaitedOwner
  <2>3. s = UpdateBlocker(off, t)
    BY <1>1, <1>10
  <2>4. /\ Good(s, M) /\ Repriced(off, s) /\ Linked(s, M)
        /\ Inherited(s, owner, M, NULL)
    BY <1>2, <1>7, <1>8, <2>1, <2>2, <2>3, BlockerSettles
  <2>5. \A pp : Waits(k, pp) => Waits(s, pp)
    BY <1>9, <2>4, RepricedWaits
  <2>6. s \in Kernel
    BY <2>4 DEF Good
  <2> QED
    BY <2>4, <2>5, <2>6
<1>11. CASE k.suspend[t] # 0
  <2>1. s = off
    BY <1>1, <1>11
  <2>2. Inherited(off, owner, M, NULL)
    <3> SUFFICES ASSUME NEW v \in Ranked(off, M)
                 PROVE  Exact(off.base, off.priority, Lends(off, owner, M), v)
      BY DEF Inherited, OthersExact
    <3>1. v \in Thread \ {t} /\ v # NULL /\ v \in Ranked(k, L)
      BY <1>2, <1>4 DEF Ranked, Terminated
    <3>2. CASE v # o
      BY <1>7, <3>1, <3>2 DEF Inherited, OthersExact
    <3>3. CASE v = o
      <4> DEFINE l0 == Lends(k, owner, L)
                 l1 == Lends(off, owner, M)
                 b  == k.base
                 p  == k.priority
      <4>1. Numbers(b, p, l0) /\ Exact(b, p, l0, v)
        BY <1>2, <3>1, KernelNumbers DEF Inherited, OthersExact, OwnershipType
      <4>2. b[v] < p[t]
        <5>1. k.suspend[t] > 0
          BY <1>2, <1>11, Fields
        <5>2. p[t] = OS_PRIORITY_MAX + 1
          BY <5>1 DEF Good, Sound
        <5>3. b[v] \in Priority
          BY <1>2, <3>1, Fields
        <5> QED
          BY <5>2, <5>3, PriorityNumbers
      <4>3. l1[t] = NULL /\ \A u \in Thread \ {t} : l1[u] = l0[u]
        BY <1>2, <1>4, <1>6 DEF Lends
      <4> HIDE DEF l0, l1, b, p
      <4>4. Exact(b, p, l1, v)
        <5>1. v \in Thread
          BY <3>1
        <5> QED
          BY ONLY t \in Thread, <5>1, <4>1, <4>2, <4>3, LeastLender
      <4> QED
        BY <1>1, <1>4, <4>4 DEF l1, b, p
    <3> QED
      BY <3>2, <3>3
  <2> QED
    BY <1>2, <1>8, <1>9, <2>1, <2>2
<1> QED
  BY <1>10, <1>11

\* OSCancelThread.
LEMMA CancelInherits ==
  ASSUME OwnershipType, Owned(owner, mutexQueue), Good(k, {}),
         NEW t \in Thread, ~Deadlocked(t),
         NEW r, r = Terminate(Withdraw(k, t), t), Inheriting(k, owner)
  PROVE  Inheriting(r, owner) /\ \A pp : Waits(k, pp) => Waits(r, pp)
<1> DEFINE s == Withdraw(k, t)
<1>1. r = Terminate(s, t) /\ s = Withdraw(k, t)
  OBVIOUS
<1> HIDE DEF s
<1>2. k \in Kernel /\ k.suspend[t] \in Nat
  BY Fields DEF Good
<1>3. CASE k.state[t] = "SLEEPING"
  <2> DEFINE L == {}
             M == {t}
  <2>1. /\ M = {t} /\ t \in M
        /\ \A u \in Thread \ {t} : u \notin L /\ u \notin M
    OBVIOUS
  <2>2. t \notin L /\ L = {}
    OBVIOUS
  <2> HIDE DEF L, M
  <2>3. /\ s \in Kernel /\ Linked(s, M) /\ Inherited(s, owner, M, NULL)
        /\ \A pp : Waits(k, pp) => Waits(s, pp)
    BY <1>1, <1>3, <2>1, WithdrawnInherits
  <2>4. Alters(s, r, t) /\ Terminated(r, t)
    BY <1>1, <2>3, TerminateAlters
  <2>5. Lends(s, owner, M)[t] = NULL /\ Lends(r, owner, L)[t] = NULL
        /\ t \notin Ranked(r, L)
    BY <2>1, <2>4 DEF Lends, Ranked, Terminated
  <2>6. Inherited(r, owner, L, NULL)
    BY <2>1, <2>3, <2>4, <2>5, AlteredInherited
  <2>7. Linked(r, L)
    <3>1. r.state[t] # "SLEEPING"
      BY <2>4 DEF Terminated
    <3> QED
      BY <2>1, <2>3, <2>4, <3>1, AlteredLinked
  <2>8. \A pp : Waits(k, pp) => Waits(r, pp)
    BY <2>3, <2>4, AlteredWaits
  <2> QED
    BY <2>2, <2>6, <2>7, <2>8 DEF Inheriting
<1>4. CASE k.state[t] # "SLEEPING"
  <2>1. s \in Kernel /\ Alters(k, s, t)
    <3>1. CASE k.state[t] = "READY" /\ k.suspend[t] = 0
      <4> DEFINE L == {}
      <4>1. Good(k, L) /\ t \in Thread \ L /\ s = UnsetRun(k, t)
        BY <1>1, <3>1 DEF Withdraw
      <4> HIDE DEF L
      <4>2. /\ Good(s, L \cup {t}) /\ Frame(k, s) /\ s.state = k.state
            /\ s.suspend = k.suspend /\ s.priority = k.priority
            /\ \A u \in Thread \ {t} : s.queue[u] = k.queue[u]
        BY <3>1, <4>1, UnsetReady
      <4> QED
        BY <4>2 DEF Good, Alters, Frame, Terminated
    <3>2. CASE k.state[t] = "RUNNING"
      <4>1. s = [k EXCEPT !.RunQueueHint = TRUE]
        BY <1>1, <3>2 DEF Withdraw
      <4>2. s \in Kernel /\ s.base = k.base /\ s.mutex = k.mutex
            /\ s.state = k.state /\ s.queue = k.queue
            /\ s.suspend = k.suspend /\ s.priority = k.priority
        BY <1>2, <4>1 DEF Kernel
      <4> QED
        BY <4>2 DEF Alters, Terminated
    <3>3. CASE /\ ~(k.state[t] = "READY" /\ k.suspend[t] = 0)
               /\ k.state[t] # "RUNNING"
      <4>1. s = k
        BY <1>1, <1>2, <1>4, <3>3 DEF Withdraw
      <4> QED
        BY <1>2, <4>1 DEF Alters
    <3> QED
      BY <3>1, <3>2, <3>3
  <2>2. Alters(s, r, t) /\ Terminated(r, t)
    BY <1>1, <2>1, TerminateAlters
  <2>3. Alters(k, r, t)
    BY <2>1, <2>2 DEF Alters
  <2>4. r.state[t] # "SLEEPING"
    BY <2>2 DEF Terminated
  <2>5. Inheriting(r, owner)
    BY <1>4, <2>2, <2>3, <2>4, AwakeInherits
  <2>6. \A pp : Waits(k, pp) => Waits(r, pp)
    BY <2>2, <2>3, AlteredWaits
  <2> QED
    BY <2>5, <2>6
<1> QED
  BY <1>3, <1>4

-----------------------------------------------------------------------------
(* The calls keep what is inherited. *)

\* What is inherited, and what the threads wait for, in the present state.
InheritanceInv == Inheriting(k, owner) /\ Waits(k, pc)

\* A part of a call that changes no owner keeps both.
KeepsRanks(kk, r) ==
    /\ Inheriting(kk, owner) => Inheriting(r, owner)
    /\ \A pp : Waits(kk, pp) => Waits(r, pp)

\* One part after another.
LEMMA KeepsTrans ==
  ASSUME NEW a, NEW b, NEW c, KeepsRanks(a, b), KeepsRanks(b, c)
  PROVE  KeepsRanks(a, c)
BY DEF KeepsRanks

\* A part that leaves the ranks alone.
LEMMA StillKeeps ==
  ASSUME NEW kk, NEW r, Still(kk, r)
  PROVE  KeepsRanks(kk, r)
<1>1. \A pp : Waits(kk, pp) => Waits(r, pp)
  BY StillWaits
<1>2. Inheriting(kk, owner) => Inheriting(r, owner)
  BY StillInherits
<1> QED
  BY <1>1, <1>2 DEF KeepsRanks

\* A part that touches neither queues nor base priorities nor awaited mutexes.
LEMMA SameRanksKeep ==
  ASSUME NEW kk, NEW r, SameQueues(kk, r),
         r.base = kk.base, r.mutex = kk.mutex
  PROVE  KeepsRanks(kk, r)
<1>1. Still(kk, r)
  BY DEF SameQueues, Still, Terminated
<1> QED
  BY <1>1, StillKeeps

\* A step of such parts, when the code of a thread that waits for no mutex may
\* have moved on.
LEMMA StepKeeps ==
  ASSUME InheritanceInv, KeepsRanks(k, k'), owner' = owner, Waits(k, pc')
  PROVE  InheritanceInv'
<1>1. Inheriting(k', owner') /\ Waits(k', pc')
  BY DEF InheritanceInv, KeepsRanks
<1> QED
  BY <1>1 DEF InheritanceInv

\* A thread that is not in OSLockMutex waits for no mutex.
LEMMA NotLocking ==
  ASSUME NEW kk \in Kernel, NEW pp, Waits(kk, pp), NEW c \in Thread,
         ~Terminated(kk, c), \A m \in Mutex : pp[c] # Locking(m)
  PROVE  kk.mutex[c] = NULL
<1>1. kk.mutex[c] \in Mutex \cup {NULL}
  BY Fields
<1> QED
  BY <1>1 DEF Waits

\* Its code may go on.
LEMMA CodeWaits ==
  ASSUME NEW kk \in Kernel, NEW pp, pp = [u \in Thread |-> pp[u]], Waits(kk, pp),
         NEW c \in Thread, \A m \in Mutex : pp[c] # Locking(m), NEW at,
         NEW new, new = [pp EXCEPT ![c] = at]
  PROVE  Waits(kk, new)
<1> SUFFICES ASSUME NEW t \in Thread, ~Terminated(kk, t), kk.mutex[t] # NULL
             PROVE  new[t] = Locking(kk.mutex[t])
  BY DEF Waits
<1>1. t # c
  BY NotLocking
<1> QED
  BY <1>1 DEF Waits

\* Only OSLockMutex resumes at its loop.
LEMMA LockingCode ==
  /\ \A m : UserCode # Locking(m) /\ SleepingTicks # Locking(m)
  /\ \A t, m : Joining(t) # Locking(m) /\ Terminating(t) # Locking(m)
BY DEF UserCode, SleepingTicks, Locking, Joining, Terminating

\* The same for the running thread.
LEMMA CurrentCodeWaits ==
  ASSUME ConsistentNow, InheritanceInv, k.current \in Thread,
         \A m : pc[k.current] # Locking(m), NEW at,
         pc' = [pc EXCEPT ![k.current] = at]
  PROVE  Waits(k, pc')
<1>1. k \in Kernel /\ pc = [u \in Thread |-> pc[u]] /\ Waits(k, pc)
  BY DEF ConsistentNow, Consistent, Good, InheritanceInv
<1> QED
  BY <1>1, CodeWaits

\* OSCreateThread: the new thread is suspended and waits for nothing.
LEMMA CreateInherits ==
  ASSUME ConsistentNow, InheritanceInv, NEW t \in Thread, OSCreateThread(t)
  PROVE  InheritanceInv'
<1>1. k.state[t] = "EXITED" /\ k \in Kernel /\ pc = [u \in Thread |-> pc[u]]
  BY DEF OSCreateThread, Reusable, ConsistentNow, Consistent, Good
<1>2. PICK prio \in Priorities, detached \in Detached :
         k' = [k EXCEPT !.state[t] = "READY",
                        !.detached = IF detached THEN @ \cup {t} ELSE @ \ {t},
                        !.base[t] = prio,
                        !.priority[t] = prio,
                        !.suspend[t] = 1,
                        !.mutex[t] = NULL,
                        !.active = @ \cup {t}]
  BY DEF OSCreateThread
<1>3. pc' = [pc EXCEPT ![t] = UserCode] /\ owner' = owner
  BY DEF OSCreateThread, Return, mutexVars
<1>4. /\ k'.state = [k.state EXCEPT ![t] = "READY"]
      /\ k'.base = [k.base EXCEPT ![t] = prio]
      /\ k'.priority = [k.priority EXCEPT ![t] = prio]
      /\ k'.suspend = [k.suspend EXCEPT ![t] = 1]
      /\ k'.mutex = [k.mutex EXCEPT ![t] = NULL]
      /\ k'.queue = k.queue
  BY <1>1, <1>2 DEF Kernel
<1>5. /\ k'.state[t] = "READY" /\ k'.suspend[t] = 1 /\ k'.mutex[t] = NULL
      /\ \A u \in Thread \ {t} :
           /\ k'.state[u] = k.state[u] /\ k'.base[u] = k.base[u]
           /\ k'.priority[u] = k.priority[u] /\ k'.suspend[u] = k.suspend[u]
           /\ k'.mutex[u] = k.mutex[u] /\ k'.queue[u] = k.queue[u]
  BY <1>1, <1>4, Fields
<1>6. Alters(k, k', t)
  BY <1>5 DEF Alters, Terminated
<1>7. Inheriting(k', owner)
  BY <1>1, <1>5, <1>6, AwakeInherits DEF InheritanceInv
<1>8. Waits(k', pc')
  <2> SUFFICES ASSUME NEW u \in Thread,
                      ~Terminated(k', u), k'.mutex[u] # NULL
               PROVE  pc'[u] = Locking(k'.mutex[u])
    BY DEF Waits
  <2>1. u # t
    BY <1>5
  <2> QED
    BY <1>1, <1>3, <1>5, <2>1 DEF InheritanceInv, Waits, Terminated
<1> QED
  BY <1>3, <1>7, <1>8 DEF InheritanceInv

\* OSExitThread: the thread that ends runs, and lends nothing.
LEMMA ExitInherits ==
  ASSUME ConsistentNow, InheritanceInv, OSExitThread
  PROVE  InheritanceInv'
<1> DEFINE c == k.current
<1>1. /\ InUserCode /\ k' = Terminate(k, c) /\ owner' = owner
      /\ pc' = [pc EXCEPT ![c] = Terminating(c)]
  BY DEF OSExitThread, Call, Resumes, mutexVars
<1>2. c \in Thread /\ pc[c] = UserCode /\ k.state[c] = "RUNNING"
  BY <1>1, InUserCodeRuns
<1>3. k \in Kernel /\ Inheriting(k, owner)
  BY DEF ConsistentNow, Consistent, Good, InheritanceInv
<1>4. Waits(k, pc')
  BY <1>1, <1>2, LockingCode, CurrentCodeWaits
<1>5. Alters(k, k', c) /\ Terminated(k', c)
  BY <1>1, <1>2, <1>3, TerminateAlters
<1>6. Inheriting(k', owner)
  <2>1. k.state[c] # "SLEEPING" /\ k'.state[c] # "SLEEPING"
    BY <1>2, <1>5 DEF Terminated
  <2> QED
    BY <1>2, <1>3, <1>5, <2>1, AwakeInherits
<1>7. Waits(k', pc')
  BY <1>2, <1>4, <1>5, AlteredWaits
<1> QED
  BY <1>1, <1>6, <1>7 DEF InheritanceInv

\* OSCancelThread.
LEMMA CancelKeeps ==
  ASSUME OwnershipType, Owned(owner, mutexQueue), ConsistentNow,
         InheritanceInv, NEW t \in Thread, OSCancelThread(t)
  PROVE  InheritanceInv'
<1>1. /\ InUserCode /\ ~Deadlocked(t) /\ owner' = owner
      /\ k' = Terminate(Withdraw(k, t), t)
      /\ pc' = [pc EXCEPT ![k.current] = Terminating(t)]
  BY DEF OSCancelThread, Call, Resumes, mutexVars
<1>2. Good(k, {}) /\ Inheriting(k, owner)
  BY DEF ConsistentNow, Consistent, InheritanceInv
<1>3. Waits(k, pc')
  BY <1>1, InUserCodeRuns, LockingCode, CurrentCodeWaits
<1>4. Inheriting(k', owner) /\ \A pp : Waits(k, pp) => Waits(k', pp)
  BY <1>1, <1>2, CancelInherits
<1> QED
  BY <1>1, <1>3, <1>4 DEF InheritanceInv

\* A thread that has ended leaves the active queue.
LEMMA ReapStill ==
  ASSUME NEW kk \in Kernel, NEW t \in Thread, kk.state[t] = "MORIBUND",
         NEW r, r = Reap(kk, t)
  PROVE  Still(kk, r)
<1>1. /\ r.base = kk.base /\ r.mutex = kk.mutex /\ r.priority = kk.priority
      /\ r.suspend = kk.suspend /\ r.queue = kk.queue
      /\ r.state = [kk.state EXCEPT ![t] = "EXITED"]
  BY DEF Kernel, Reap
<1>2. kk.state \in [Thread -> States]
  BY Fields
<1> QED
  BY <1>1, <1>2 DEF Still, Terminated

\* Waking the threads of a queue that is no mutex's.
LEMMA WakeupRanks ==
  ASSUME NEW kk, Good(kk, {}), NEW q \in BlockingQueues,
         \A m \in Mutex : q # MutexWait(m),
         NEW r, r = WakeupThread(kk, q)
  PROVE  Good(r, {}) /\ KeepsRanks(kk, r)
<1>1. Good(r, {}) /\ Wakes(kk, r, q) /\ kk \in Kernel
  BY WakeupWakes DEF Good
<1>2. Inheriting(kk, owner) => Inheriting(r, owner)
  BY <1>1, WakesInherits
<1>3. \A pp : Waits(kk, pp) => Waits(r, pp)
  BY <1>1, WakesWaits
<1> QED
  BY <1>1, <1>2, <1>3 DEF KeepsRanks

\* The switch of a call.
LEMMA RescheduleRanks ==
  ASSUME NEW kk, Good(kk, {}), NEW r, r = __OSReschedule(kk)
  PROVE  Good(r, {}) /\ KeepsRanks(kk, r)
BY RescheduleStill, StillKeeps

\* The rest of OSExitThread and OSCancelThread.
LEMMA TerminateEndKeeps ==
  ASSUME ConsistentNow, InheritanceInv, NEW t \in Thread, TerminateEnd(t)
  PROVE  InheritanceInv'
<1> DEFINE c == k.current
           w == WakeupThread(k, JoinQueue(t))
           x == [w EXCEPT !.RunQueueHint = TRUE]
           leaves == c = t /\ w.current = t
<1>1. /\ c \in Thread /\ pc[c] = Terminating(t) /\ owner' = owner
      /\ k' = IF leaves THEN __OSReschedule(x) ELSE w
      /\ pc' = [pc EXCEPT ![c] = UserCode]
  BY DEF TerminateEnd, Continues, Return, mutexVars
<1>2. Waits(k, pc')
  BY <1>1, LockingCode, CurrentCodeWaits
<1>3. Good(w, {}) /\ KeepsRanks(k, w)
  <2>1. /\ JoinQueue(t) \in BlockingQueues
        /\ \A m \in Mutex : JoinQueue(t) # MutexWait(m)
    BY QueueNames
  <2>2. Good(k, {})
    BY DEF ConsistentNow, Consistent
  <2> QED
    BY <2>1, <2>2, WakeupRanks
<1> HIDE DEF w
<1>4. KeepsRanks(k, __OSReschedule(x))
  <2>1. w \in Kernel
    BY <1>3 DEF Good
  <2>2. /\ x \in Kernel /\ SameQueues(w, x)
        /\ x.base = w.base /\ x.mutex = w.mutex
    BY <2>1 DEF Kernel, SameQueues
  <2> HIDE DEF x
  <2>3. Good(x, {}) /\ KeepsRanks(w, x)
    BY <1>3, <2>2, SameGood, SameRanksKeep
  <2>4. KeepsRanks(x, __OSReschedule(x))
    BY <2>3, RescheduleRanks
  <2> QED
    BY <1>3, <2>3, <2>4, KeepsTrans
<1>5. KeepsRanks(k, k')
  BY <1>1, <1>3, <1>4
<1> QED
  BY <1>1, <1>2, <1>5, StepKeeps

\* The running thread in the program's code waits for no mutex.
LEMMA UserAwaitsNothing ==
  ASSUME ConsistentNow, InheritanceInv, InUserCode
  PROVE  /\ Good(k, {}) /\ k.current \in Thread /\ pc[k.current] = UserCode
         /\ k.state[k.current] = "RUNNING" /\ k.mutex[k.current] = NULL
         /\ \A m : pc[k.current] # Locking(m)
<1>1. k \in Kernel /\ Waits(k, pc) /\ Good(k, {})
  BY DEF ConsistentNow, Consistent, Good, InheritanceInv
<1>2. /\ k.current \in Thread /\ pc[k.current] = UserCode
      /\ k.state[k.current] = "RUNNING" /\ ~Terminated(k, k.current)
  BY InUserCodeRuns
<1>3. \A m : pc[k.current] # Locking(m)
  BY <1>2, LockingCode
<1> QED
  BY <1>1, <1>2, <1>3, NotLocking

\* It sleeps in a queue that is no mutex's.
LEMMA SleepRanks ==
  ASSUME ConsistentNow, InheritanceInv, InUserCode,
         NEW q \in BlockingQueues, \A m \in Mutex : q # MutexWait(m),
         k' = SleepThread(k, q)
  PROVE  KeepsRanks(k, k')
<1> DEFINE c == k.current
<1>1. /\ Good(k, {}) /\ c \in Thread /\ k.state[c] = "RUNNING"
      /\ k.mutex[c] = NULL /\ c = k.current
  BY UserAwaitsNothing
<1> HIDE DEF c
<1>2. Inheriting(k, owner) => Inheriting(k', owner)
  BY <1>1, SleepInherits
<1>3. \A pp : Waits(k, pp) => Waits(k', pp)
  BY <1>1, SleepWaits
<1> QED
  BY <1>2, <1>3 DEF KeepsRanks

\* OSJoinThread.
LEMMA JoinKeeps ==
  ASSUME ConsistentNow, InheritanceInv, NEW t \in Thread, OSJoinThread(t)
  PROVE  InheritanceInv'
<1> DEFINE c == k.current
<1>1. InUserCode /\ owner' = owner
  BY DEF OSJoinThread, Call, mutexVars
<1>2. CASE /\ k' = SleepThread(k, JoinQueue(t))
           /\ pc' = [pc EXCEPT ![c] = Joining(t)]
  <2>1. /\ JoinQueue(t) \in BlockingQueues
        /\ \A m \in Mutex : JoinQueue(t) # MutexWait(m)
    BY QueueNames
  <2>2. KeepsRanks(k, k')
    BY <1>1, <1>2, <2>1, SleepRanks
  <2>3. Waits(k, pc')
    BY <1>1, <1>2, UserAwaitsNothing, CurrentCodeWaits
  <2> QED
    BY <1>1, <2>2, <2>3, StepKeeps
<1>3. CASE k.state[t] = "MORIBUND" /\ k' = Reap(k, t) /\ pc' = pc
  <2>1. k \in Kernel /\ Waits(k, pc')
    BY <1>3 DEF ConsistentNow, Consistent, Good, InheritanceInv
  <2>2. KeepsRanks(k, k')
    BY <1>3, <2>1, ReapStill, StillKeeps
  <2> QED
    BY <1>1, <2>1, <2>2, StepKeeps
<1> QED
  BY <1>2, <1>3 DEF OSJoinThread, Resumes

\* OSJoinThread after its sleep.
LEMMA JoinReturnKeeps ==
  ASSUME ConsistentNow, InheritanceInv, NEW t \in Thread,
         OSJoinThreadReturn(t)
  PROVE  InheritanceInv'
<1>1. /\ k.current \in Thread /\ pc[k.current] = Joining(t)
      /\ k' = IF t \in k.active /\ k.state[t] = "MORIBUND"
              THEN Reap(k, t) ELSE k
      /\ pc' = [pc EXCEPT ![k.current] = UserCode] /\ owner' = owner
  BY DEF OSJoinThreadReturn, Continues, Return, mutexVars
<1>2. Waits(k, pc')
  BY <1>1, LockingCode, CurrentCodeWaits
<1>3. KeepsRanks(k, k')
  <2>1. CASE k' = k
    BY <2>1 DEF KeepsRanks
  <2>2. CASE k.state[t] = "MORIBUND" /\ k' = Reap(k, t)
    BY <2>2, ReapStill, StillKeeps DEF ConsistentNow, Consistent, Good
  <2> QED
    BY <1>1, <2>1, <2>2
<1> QED
  BY <1>1, <1>2, <1>3, StepKeeps

\* OSDetachThread.
LEMMA DetachKeeps ==
  ASSUME ConsistentNow, InheritanceInv, NEW t \in Thread, OSDetachThread(t)
  PROVE  InheritanceInv'
<1> DEFINE d == [k EXCEPT !.detached = k.detached \cup {t}]
           e == IF k.state[t] = "MORIBUND" THEN Reap(d, t) ELSE d
<1>1. k' = WakeupThread(e, JoinQueue(t)) /\ pc' = pc /\ owner' = owner
  BY DEF OSDetachThread, mutexVars
<1>2. k \in Kernel /\ Consistent(k, pc, owner, mutexQueue)
  BY DEF ConsistentNow, Consistent, Good
<1>3. d \in Kernel /\ d.base = k.base /\ d.mutex = k.mutex
  BY <1>2 DEF Kernel
<1>4. /\ d.q = k.q /\ d.RunQueueBits = k.RunQueueBits
      /\ d.current = k.current /\ d.state = k.state
      /\ d.suspend = k.suspend /\ d.priority = k.priority
      /\ d.queue = k.queue /\ d.active = k.active
      /\ d.Reschedule = k.Reschedule /\ d.alarms \subseteq k.alarms
  BY <1>2 DEF Kernel
<1> HIDE DEF d
<1>5. Consistent(d, pc, owner, mutexQueue) /\ KeepsRanks(k, d)
  BY <1>2, <1>3, <1>4, FieldsKeep, SameRanksKeep DEF SameQueues
<1>6. Consistent(e, pc, owner, mutexQueue) /\ KeepsRanks(d, e)
  <2>1. CASE k.state[t] = "MORIBUND"
    <3>1. e = Reap(d, t) /\ d.state[t] = "MORIBUND"
      BY <1>4, <2>1
    <3> HIDE DEF e
    <3>2. Consistent(e, pc, owner, mutexQueue)
      BY <1>5, <3>1, ReapKeeps
    <3> QED
      BY <1>3, <3>1, <3>2, ReapStill, StillKeeps
  <2>2. CASE k.state[t] # "MORIBUND"
    BY <1>5, <2>2 DEF KeepsRanks
  <2> QED
    BY <2>1, <2>2
<1> HIDE DEF e
<1>7. KeepsRanks(e, k')
  <2>1. /\ JoinQueue(t) \in BlockingQueues
        /\ \A m \in Mutex : JoinQueue(t) # MutexWait(m)
    BY QueueNames
  <2>2. Good(e, {})
    BY <1>6 DEF Consistent
  <2> QED
    BY <1>1, <2>1, <2>2, WakeupRanks
<1>8. KeepsRanks(k, k')
  BY <1>5, <1>6, <1>7, KeepsTrans
<1>9. Waits(k, pc')
  BY <1>1 DEF InheritanceInv
<1> QED
  BY <1>1, <1>8, <1>9, StepKeeps

\* A call that leaves the code of the threads as it is.
LEMMA CallKeeps ==
  ASSUME InheritanceInv, KeepsRanks(k, k'), owner' = owner, pc' = pc
  PROVE  InheritanceInv'
BY StepKeeps DEF InheritanceInv

\* OSResumeThread on any record of the kernel.
LEMMA ResumeRanks ==
  ASSUME OwnershipType, Owned(owner, mutexQueue), NEW kk, Good(kk, {}),
         NEW t \in Thread, NEW r, r = ResumeThread(kk, t),
         Inheriting(kk, owner)
  PROVE  KeepsRanks(kk, r)
<1>1. Inheriting(r, owner) /\ \A pp : Waits(kk, pp) => Waits(r, pp)
  BY ResumeInherits
<1> QED
  BY <1>1 DEF KeepsRanks

\* OSResumeThread.
LEMMA ResumeKeeps ==
  ASSUME OwnershipType, Owned(owner, mutexQueue), ConsistentNow,
         InheritanceInv, NEW t \in Thread, OSResumeThread(t)
  PROVE  InheritanceInv'
<1>1. k' = ResumeThread(k, t) /\ pc' = pc /\ owner' = owner
  BY DEF OSResumeThread, mutexVars
<1>2. Good(k, {}) /\ Inheriting(k, owner)
  BY DEF ConsistentNow, Consistent, InheritanceInv
<1>3. KeepsRanks(k, k')
  BY <1>1, <1>2, ResumeRanks
<1> QED
  BY <1>1, <1>3, CallKeeps

\* OSSuspendThread.
LEMMA SuspendRanks ==
  ASSUME OwnershipType, Owned(owner, mutexQueue), ConsistentNow,
         InheritanceInv, NEW t \in Thread, OSSuspendThread(t)
  PROVE  InheritanceInv'
<1>1. k' = SuspendThread(k, t) /\ pc' = pc /\ owner' = owner
  BY DEF OSSuspendThread, mutexVars
<1>2. Good(k, {}) /\ Inheriting(k, owner)
  BY DEF ConsistentNow, Consistent, InheritanceInv
<1>3. Inheriting(k', owner) /\ \A pp : Waits(k, pp) => Waits(k', pp)
  BY <1>1, <1>2, SuspendInherits
<1> QED
  BY <1>1, <1>3 DEF InheritanceInv

\* OSSleepTicks.
LEMMA SleepTicksKeeps ==
  ASSUME OwnershipType, Owned(owner, mutexQueue), ConsistentNow,
         InheritanceInv, OSSleepTicks
  PROVE  InheritanceInv'
<1> DEFINE c == k.current
           al == k.alarms \cup {c}
           x == [k EXCEPT !.alarms = al]
<1>1. /\ InUserCode /\ k' = SuspendThread(x, c) /\ owner' = owner
      /\ pc' = [pc EXCEPT ![c] = SleepingTicks]
  BY DEF OSSleepTicks, Call, Resumes, mutexVars
<1>2. /\ Good(k, {}) /\ k \in Kernel /\ c \in Thread
      /\ \A m : pc[c] # Locking(m)
  BY <1>1, UserAwaitsNothing DEF Good
<1>3. Waits(k, pc')
  BY <1>1, <1>2, CurrentCodeWaits
<1>4. al \in SUBSET Thread
  BY <1>2, Fields
<1> HIDE DEF al
<1>5. /\ x \in Kernel /\ SameQueues(k, x)
      /\ x.base = k.base /\ x.mutex = k.mutex
  BY <1>2, <1>4 DEF Kernel, SameQueues
<1> HIDE DEF x
<1>6. Good(x, {}) /\ KeepsRanks(k, x)
  BY <1>2, <1>5, SameGood, SameRanksKeep
<1>7. Inheriting(x, owner) /\ Waits(x, pc')
  BY <1>3, <1>6 DEF KeepsRanks, InheritanceInv
<1>8. Inheriting(k', owner) /\ \A pp : Waits(x, pp) => Waits(k', pp)
  BY <1>1, <1>2, <1>6, <1>7, SuspendInherits
<1> QED
  BY <1>1, <1>7, <1>8 DEF InheritanceInv

\* The rest of OSSleepTicks.
LEMMA SleepTicksReturnKeeps ==
  ASSUME ConsistentNow, InheritanceInv, OSSleepTicksReturn
  PROVE  InheritanceInv'
<1> DEFINE al == k.alarms \ {k.current}
<1>1. /\ k.current \in Thread /\ pc[k.current] = SleepingTicks
      /\ k' = [k EXCEPT !.alarms = al] /\ owner' = owner
      /\ pc' = [pc EXCEPT ![k.current] = UserCode]
  BY DEF OSSleepTicksReturn, Continues, Return, mutexVars
<1>2. k \in Kernel
  BY DEF ConsistentNow, Consistent, Good
<1>3. Waits(k, pc')
  BY <1>1, LockingCode, CurrentCodeWaits
<1> HIDE DEF al
<1>4. SameQueues(k, k') /\ k'.base = k.base /\ k'.mutex = k.mutex
  BY <1>1, <1>2 DEF Kernel, SameQueues
<1> QED
  BY <1>1, <1>3, <1>4, SameRanksKeep, StepKeeps

\* OSSetThreadPriority: only the thread itself is out of step, until
\* UpdatePriority has put it and the owners it lends to right.
LEMMA SetPriorityKeeps ==
  ASSUME OwnershipType, Owned(owner, mutexQueue), ConsistentNow,
         InheritanceInv, NEW t \in Thread, OSSetThreadPriority(t)
  PROVE  InheritanceInv'
<1>1. PICK prio \in Priorities \ {k.base[t]} :
        k' = __OSReschedule(UpdatePriority([k EXCEPT !.base[t] = prio], t))
  BY DEF OSSetThreadPriority
<1> DEFINE ba == [k.base EXCEPT ![t] = prio]
           x == [k EXCEPT !.base = ba]
           y == UpdatePriority(x, t)
<1>2. pc' = pc /\ owner' = owner
  BY DEF OSSetThreadPriority, mutexVars
<1>3. k \in Kernel /\ Good(k, {})
  BY DEF ConsistentNow, Consistent, Good
<1>4. ba \in [Thread -> Priority]
  BY <1>3, Fields, ThreadAssumption
<1>5. [k EXCEPT !.base[t] = prio] = x
  BY <1>3 DEF Kernel
<1>6. k' = __OSReschedule(y)
  BY <1>1, <1>5
<1>7. \A u \in Thread \ {t} : ba[u] = k.base[u]
  BY <1>3, Fields
<1> HIDE DEF ba
<1>8. /\ x \in Kernel /\ SameQueues(k, x) /\ x.base = ba
      /\ x.mutex = k.mutex
  BY <1>3, <1>4 DEF Kernel, SameQueues
<1> HIDE DEF x
<1>9. Good(x, {})
  BY <1>3, <1>8, SameGood
<1> DEFINE L == {}
           C == Thread
<1>10. /\ Linked(k, L) /\ Inherited(k, owner, L, NULL)
       /\ L = {} /\ C = Thread /\ Good(x, L) /\ ClosedFor(C, x, L)
       /\ t \in C \cup {NULL}
  BY <1>8, <1>9, AllClosed DEF InheritanceInv, Inheriting
<1> HIDE DEF L, C
<1>11. Linked(x, L)
  BY <1>8, <1>10 DEF SameQueues, Linked
<1>12. Inherited(x, owner, L, t)
  <2>1. Lends(x, owner, L) = Lends(k, owner, L) /\ Ranked(x, L) = Ranked(k, L)
        /\ x.priority = k.priority
    BY <1>8 DEF SameQueues, Lends, Ranked, Terminated
  <2> SUFFICES ASSUME NEW u \in Ranked(k, L) \ {t}
               PROVE  Exact(x.base, k.priority, Lends(k, owner, L), u)
    BY <2>1 DEF Inherited, OthersExact
  <2>2. u # NULL /\ u \in Thread
    BY KernelAssumption DEF Ranked
  <2>3. Exact(k.base, k.priority, Lends(k, owner, L), u)
    BY <1>10, <2>2 DEF Inherited, OthersExact
  <2>4. x.base[u] = k.base[u]
    BY <1>7, <1>8, <2>2
  <2> QED
    BY <2>3, <2>4 DEF Exact, Effective
<1>13. Inherited(y, owner, L, NULL)
  BY <1>10, <1>11, <1>12, UpdateSettles
<1>14. Good(y, L) /\ Repriced(x, y)
  BY <1>10, UpdatePriorityEffect
<1> HIDE DEF y
<1>15. Linked(y, L)
  BY <1>11, <1>14, RepricedLends
<1>16. Inheriting(y, owner) /\ Waits(y, pc)
  <2>1. Waits(x, pc)
    BY <1>8 DEF SameQueues, Waits, Terminated, InheritanceInv
  <2> QED
    BY <1>10, <1>13, <1>14, <1>15, <2>1, RepricedWaits DEF Inheriting
<1>17. KeepsRanks(y, k')
  BY <1>6, <1>10, <1>14, RescheduleRanks
<1> QED
  BY <1>2, <1>16, <1>17 DEF KeepsRanks, InheritanceInv

\* OSYieldThread.
LEMMA YieldKeeps ==
  ASSUME ConsistentNow, InheritanceInv, OSYieldThread
  PROVE  InheritanceInv'
<1>1. k' = SelectThread(k, TRUE) /\ pc' = pc /\ owner' = owner
  BY DEF OSYieldThread, mutexVars
<1>2. Good(k, {})
  BY DEF ConsistentNow, Consistent
<1>3. Still(k, k')
  BY <1>1, <1>2, SelectStill
<1> QED
  BY <1>1, <1>3, StillKeeps, CallKeeps

\* OSSleepThread, on a queue of the program.
LEMMA SleepThreadKeeps ==
  ASSUME ConsistentNow, InheritanceInv, NEW u \in UserQueue, OSSleepThread(u)
  PROVE  InheritanceInv'
<1>1. /\ InUserCode /\ k' = SleepThread(k, WaitQueue(u))
      /\ pc' = pc /\ owner' = owner
  BY DEF OSSleepThread, Call, mutexVars
<1>2. /\ WaitQueue(u) \in BlockingQueues
      /\ \A m \in Mutex : WaitQueue(u) # MutexWait(m)
  BY QueueNames
<1>3. KeepsRanks(k, k')
  BY <1>1, <1>2, SleepRanks
<1> QED
  BY <1>1, <1>3, CallKeeps

\* OSWakeupThread, on a queue of the program.
LEMMA WakeupThreadKeeps ==
  ASSUME ConsistentNow, InheritanceInv, NEW u \in UserQueue, OSWakeupThread(u)
  PROVE  InheritanceInv'
<1>1. k' = WakeupThread(k, WaitQueue(u)) /\ pc' = pc /\ owner' = owner
  BY DEF OSWakeupThread, mutexVars
<1>2. /\ WaitQueue(u) \in BlockingQueues
      /\ \A m \in Mutex : WaitQueue(u) # MutexWait(m)
  BY QueueNames
<1>3. Good(k, {})
  BY DEF ConsistentNow, Consistent
<1>4. KeepsRanks(k, k')
  BY <1>1, <1>2, <1>3, WakeupRanks
<1> QED
  BY <1>1, <1>4, CallKeeps

\* OSDisableScheduler and OSEnableScheduler.
LEMMA SchedulerKeeps ==
  ASSUME ConsistentNow, InheritanceInv, OSDisableScheduler \/ OSEnableScheduler
  PROVE  InheritanceInv'
<1>1. pc' = pc /\ owner' = owner
  BY DEF OSDisableScheduler, OSEnableScheduler, mutexVars
<1>2. k \in Kernel
  BY DEF ConsistentNow, Consistent, Good
<1>3. PICK n : k' = [k EXCEPT !.Reschedule = n]
  BY DEF OSDisableScheduler, OSEnableScheduler
<1>4. SameQueues(k, k') /\ k'.base = k.base /\ k'.mutex = k.mutex
  BY <1>2, <1>3 DEF Kernel, SameQueues
<1> QED
  BY <1>1, <1>4, SameRanksKeep, CallKeeps

\* The end of an interrupt: the count goes down, and the switch is made.
LEMMA HandlerRanks ==
  ASSUME NEW up, NEW after, Good(after, {}), after.Reschedule > 0,
         KeepsRanks(up, after),
         NEW r, r = __OSReschedule([after EXCEPT !.Reschedule = @ - 1])
  PROVE  KeepsRanks(up, r)
<1> DEFINE n == after.Reschedule - 1
           x == [after EXCEPT !.Reschedule = n]
<1>1. r = __OSReschedule(x)
  OBVIOUS
<1>2. n \in Nat /\ after \in Kernel
  BY Fields DEF Good
<1> HIDE DEF n
<1>3. /\ x \in Kernel /\ SameQueues(after, x)
      /\ x.base = after.base /\ x.mutex = after.mutex
  BY <1>2 DEF Kernel, SameQueues
<1> HIDE DEF x
<1>4. Good(x, {}) /\ KeepsRanks(after, x)
  BY <1>3, SameGood, SameRanksKeep
<1>5. KeepsRanks(x, r)
  BY <1>1, <1>4, RescheduleRanks
<1> QED
  BY <1>4, <1>5, KeepsTrans

\* The record an interrupt handler starts from.
LEMMA RaisedRanks ==
  ASSUME NEW kk, Good(kk, {}), NEW al, al \subseteq kk.alarms,
         NEW n \in Nat, n = kk.Reschedule + 1,
         NEW up, up = [kk EXCEPT !.Reschedule = n, !.alarms = al]
  PROVE  Good(up, {}) /\ KeepsRanks(kk, up) /\ up.Reschedule > 0
<1>1. kk \in Kernel /\ kk.Reschedule \in Nat
  BY Fields DEF Good
<1>2. Raised(kk, up) /\ Good(up, {})
  BY RaisedStart
<1>3. up.base = kk.base /\ up.mutex = kk.mutex /\ up.Reschedule = n
  BY <1>1 DEF Kernel
<1>4. SameQueues(kk, up)
  BY <1>2 DEF Raised, SameQueues
<1>5. KeepsRanks(kk, up)
  BY <1>3, <1>4, SameRanksKeep
<1>6. up.Reschedule > 0
  BY <1>1, <1>3
<1> QED
  BY <1>2, <1>5, <1>6

\* A handler that resumes a thread.
LEMMA HandlerResumes ==
  ASSUME OwnershipType, Owned(owner, mutexQueue), ConsistentNow,
         InheritanceInv, NEW al, al \subseteq k.alarms,
         NEW n \in Nat, n = k.Reschedule + 1, NEW t \in Thread,
         NEW up, up = [k EXCEPT !.Reschedule = n, !.alarms = al],
         NEW after, after = ResumeThread(up, t),
         k' = __OSReschedule([after EXCEPT !.Reschedule = @ - 1]),
         pc' = pc, owner' = owner
  PROVE  InheritanceInv'
<1>1. Good(k, {}) /\ Inheriting(k, owner)
  BY DEF ConsistentNow, Consistent, InheritanceInv
<1>2. Good(up, {}) /\ KeepsRanks(k, up) /\ up.Reschedule > 0
  BY <1>1, RaisedRanks
<1>3. Inheriting(up, owner)
  BY <1>1, <1>2 DEF KeepsRanks
<1>4. Good(after, {}) /\ Follows(up, after)
  BY <1>2, ResumeEffect
<1>5. KeepsRanks(up, after) /\ after.Reschedule > 0
  BY <1>2, <1>3, <1>4, ResumeRanks DEF Follows, Frame
<1>6. KeepsRanks(up, k')
  BY <1>4, <1>5, HandlerRanks
<1> QED
  BY <1>2, <1>6, KeepsTrans, CallKeeps

\* The alarm of OSSleepTicks expires.
LEMMA AlarmHandlerKeeps ==
  ASSUME OwnershipType, Owned(owner, mutexQueue), ConsistentNow,
         InheritanceInv, NEW t \in Thread, SleepAlarmHandler(t)
  PROVE  InheritanceInv'
<1> DEFINE n == k.Reschedule + 1
           al == k.alarms \ {t}
           up == [k EXCEPT !.Reschedule = n, !.alarms = al]
           after == ResumeThread(up, t)
<1>1. pc' = pc /\ owner' = owner
  BY DEF SleepAlarmHandler, mutexVars
<1>2. k \in Kernel
  BY DEF ConsistentNow, Consistent, Good
<1>3. [[k EXCEPT !.Reschedule = @ + 1] EXCEPT !.alarms = @ \ {t}] = up
  BY <1>2 DEF Kernel
<1>4. k' = __OSReschedule([after EXCEPT !.Reschedule = @ - 1])
  <2>1. k' = InHandler(LAMBDA s :
               ResumeThread([s EXCEPT !.alarms = @ \ {t}], t))
    BY DEF SleepAlarmHandler
  <2> QED
    BY <1>3, <2>1 DEF InHandler
<1>5. n \in Nat /\ n = k.Reschedule + 1 /\ al \subseteq k.alarms
  BY <1>2, Fields
<1> HIDE DEF n, al
<1>6. up = [k EXCEPT !.Reschedule = n, !.alarms = al]
  OBVIOUS
<1> HIDE DEF up
<1>7. after = ResumeThread(up, t)
  OBVIOUS
<1> HIDE DEF after
<1> QED
  BY <1>1, <1>4, <1>5, <1>6, <1>7, HandlerResumes

\* A handler resumes a thread.
LEMMA InterruptResumeKeeps ==
  ASSUME OwnershipType, Owned(owner, mutexQueue), ConsistentNow,
         InheritanceInv, NEW t \in Thread, InterruptResume(t)
  PROVE  InheritanceInv'
<1> DEFINE n == k.Reschedule + 1
           al == k.alarms
           up == [k EXCEPT !.Reschedule = n, !.alarms = al]
           after == ResumeThread(up, t)
<1>1. pc' = pc /\ owner' = owner
  BY DEF InterruptResume, mutexVars
<1>2. k \in Kernel
  BY DEF ConsistentNow, Consistent, Good
<1>3. [k EXCEPT !.Reschedule = @ + 1] = up
  BY <1>2 DEF Kernel
<1>4. k' = __OSReschedule([after EXCEPT !.Reschedule = @ - 1])
  <2>1. k' = InHandler(LAMBDA s : ResumeThread(s, t))
    BY DEF InterruptResume
  <2> QED
    BY <1>3, <2>1 DEF InHandler
<1>5. n \in Nat /\ n = k.Reschedule + 1 /\ al \subseteq k.alarms
  BY <1>2, Fields
<1> HIDE DEF n, al
<1>6. up = [k EXCEPT !.Reschedule = n, !.alarms = al]
  OBVIOUS
<1> HIDE DEF up
<1>7. after = ResumeThread(up, t)
  OBVIOUS
<1> HIDE DEF after
<1> QED
  BY <1>1, <1>4, <1>5, <1>6, <1>7, HandlerResumes

\* A handler wakes the threads of a queue.
LEMMA InterruptWakeupKeeps ==
  ASSUME ConsistentNow, InheritanceInv, NEW u \in UserQueue,
         InterruptWakeup(u)
  PROVE  InheritanceInv'
<1> DEFINE n == k.Reschedule + 1
           al == k.alarms
           up == [k EXCEPT !.Reschedule = n, !.alarms = al]
           after == WakeupThread(up, WaitQueue(u))
<1>1. pc' = pc /\ owner' = owner
  BY DEF InterruptWakeup, mutexVars
<1>2. k \in Kernel /\ Good(k, {})
  BY DEF ConsistentNow, Consistent, Good
<1>3. [k EXCEPT !.Reschedule = @ + 1] = up
  BY <1>2 DEF Kernel
<1>4. k' = __OSReschedule([after EXCEPT !.Reschedule = @ - 1])
  <2>1. k' = InHandler(LAMBDA s : WakeupThread(s, WaitQueue(u)))
    BY DEF InterruptWakeup
  <2> QED
    BY <1>3, <2>1 DEF InHandler
<1>5. n \in Nat /\ n = k.Reschedule + 1 /\ al \subseteq k.alarms
  BY <1>2, Fields
<1> HIDE DEF n, al
<1>6. Good(up, {}) /\ KeepsRanks(k, up) /\ up.Reschedule > 0
  BY <1>2, <1>5, RaisedRanks
<1>7. up.current = k.current /\ up.state = k.state
  BY <1>2 DEF Kernel
<1> HIDE DEF up
<1>8. /\ WaitQueue(u) \in BlockingQueues
      /\ \A m \in Mutex : WaitQueue(u) # MutexWait(m)
  BY QueueNames
<1>9. Good(after, {}) /\ KeepsRanks(up, after)
  BY <1>6, <1>8, WakeupRanks
<1>10. after.Reschedule > 0
  <2>1. up.current \in Thread => up.state[up.current] # "SLEEPING"
    BY <1>7, CurrentAwake DEF ConsistentNow
  <2>2. Follows(up, after)
    BY <1>6, <1>8, <2>1, WakeupEffect
  <2> QED
    BY <1>6, <2>2 DEF Follows, Frame
<1> HIDE DEF after
<1>11. KeepsRanks(up, k')
  BY <1>4, <1>9, <1>10, HandlerRanks
<1> QED
  BY <1>1, <1>6, <1>11, KeepsTrans, CallKeeps

\* The idle loop ends.
LEMMA IdleLoopEndKeeps ==
  ASSUME ConsistentNow, InheritanceInv, IdleLoopEnd
  PROVE  InheritanceInv'
<1>1. /\ k.current = NULL /\ k.RunQueueBits # {} /\ k' = SwitchThread(k)
      /\ pc' = pc /\ owner' = owner
  BY DEF IdleLoopEnd, mutexVars
<1>2. Good(k, {}) /\ k.current \notin Thread
  BY <1>1, CodeNames DEF ConsistentNow, Consistent
<1>3. \A u \in Thread : k.state[u] # "RUNNING"
  BY <1>2 DEF Good, Sound
<1>4. Still(k, k')
  BY <1>1, <1>2, <1>3, SwitchStill
<1> QED
  BY <1>1, <1>4, StillKeeps, CallKeeps

\* A free mutex is taken.
LEMMA TakeRanks ==
  ASSUME OwnershipType, NEW kk, Consistent(kk, pc, owner, mutexQueue),
         NEW m \in Mutex, owner[m] = NULL, NEW c \in Thread,
         TakeMutex(m, c), Inheriting(kk, owner)
  PROVE  Inheriting(kk, owner')
BY TakeInherits DEF Consistent, Good

\* OSLockMutex and OSTryLockMutex.
LEMMA LockKeeps ==
  ASSUME OwnershipType, ConsistentNow, InheritanceInv, NEW m \in Mutex,
         OSLockMutex(m) \/ OSTryLockMutex(m)
  PROVE  InheritanceInv'
<1> DEFINE c == k.current
<1>1. InUserCode
  BY DEF OSLockMutex, OSTryLockMutex, Call
<1>2. /\ c \in Thread /\ Good(k, {}) /\ k.state[c] = "RUNNING"
      /\ Inheriting(k, owner) /\ Waits(k, pc) /\ pc = [u \in Thread |-> pc[u]]
  BY <1>1, UserAwaitsNothing DEF ConsistentNow, Consistent, InheritanceInv
<1>3. CASE owner[m] = NULL /\ TakeMutex(m, c) /\ k' = k /\ pc' = pc
  <2>1. Inheriting(k, owner')
    BY <1>2, <1>3, TakeRanks DEF ConsistentNow
  <2> QED
    BY <1>2, <1>3, <2>1 DEF InheritanceInv
<1>4. CASE LockAgain(m)
  BY <1>4 DEF LockAgain, InheritanceInv
<1>5. CASE BlockOnMutex(m, k)
  <2>1. /\ owner[m] # NULL /\ pc' = [pc EXCEPT ![c] = Locking(m)]
        /\ k' = SleepThread(__OSPromoteThread([k EXCEPT !.mutex[c] = m],
                                              owner[m], k.priority[c]),
                            MutexWait(m))
        /\ owner' = owner
    BY <1>5 DEF BlockOnMutex, Resumes, mutexVars
  <2> DEFINE b == [k EXCEPT !.mutex[c] = m]
  <2>2. SetsMutex(k, b, c, m) /\ c = k.current
    BY DEF SetsMutex
  <2>3. MovesTo(pc, pc', c, Locking(m))
    BY <1>2, <2>1 DEF MovesTo
  <2>4. k' = SleepThread(__OSPromoteThread(b, owner[m], k.priority[c]),
                         MutexWait(m))
    BY <2>1
  <2> HIDE DEF b, c
  <2>5. Inheriting(k', owner) /\ Waits(k', pc')
    BY <1>2, <2>1, <2>2, <2>3, <2>4, BlockInherits
  <2> QED
    BY <2>1, <2>5 DEF InheritanceInv
<1> QED
  BY <1>3, <1>4, <1>5 DEF OSLockMutex, OSTryLockMutex

\* The waiter that runs again waits for no mutex, until it waits once more.
LEMMA LockRetryKeeps ==
  ASSUME OwnershipType, ConsistentNow, InheritanceInv, NEW m \in Mutex,
         OSLockMutexRetry(m)
  PROVE  InheritanceInv'
<1> DEFINE c == k.current
           awake == [k EXCEPT !.mutex[c] = NULL]
<1>1. /\ c \in Thread /\ pc[c] = Locking(m)
      /\ \/ /\ owner[m] = NULL /\ TakeMutex(m, c) /\ k' = awake
            /\ pc' = [pc EXCEPT ![c] = UserCode]
         \/ BlockOnMutex(m, awake)
  BY DEF OSLockMutexRetry, Continues, Return
<1>2. /\ Good(k, {}) /\ k \in Kernel /\ k.state[c] = "RUNNING"
      /\ Inheriting(k, owner) /\ Waits(k, pc) /\ pc = [u \in Thread |-> pc[u]]
  <2>1. \A t : pc[c] # Terminating(t)
    BY <1>1, CodeNames
  <2> QED
    BY <1>1, <2>1
       DEF ConsistentNow, Consistent, ProcessorExact, Good, InheritanceInv
<1>3. SetsMutex(k, awake, c, NULL) /\ NULL \in Mutex \cup {NULL}
  BY DEF SetsMutex
<1>4. c = k.current
  OBVIOUS
<1> HIDE DEF awake, c
<1>5. /\ awake \in Kernel /\ Inheriting(awake, owner)
      /\ awake.mutex = With(k.mutex, c, NULL) /\ awake.state = k.state
      /\ awake.priority = k.priority /\ awake.current = k.current
  BY <1>1, <1>2, <1>3, MutexFieldInherits
<1>6. Good(awake, {})
  BY <1>1, <1>2, <1>3, MutexFieldGood
<1>7. awake.mutex[c] = NULL /\ \A u \in Thread \ {c} :
        awake.mutex[u] = k.mutex[u]
  BY <1>1, <1>2, <1>5, Fields DEF With
<1>8. CASE /\ owner[m] = NULL /\ TakeMutex(m, c) /\ k' = awake
           /\ pc' = [pc EXCEPT ![c] = UserCode]
  <2>1. Inheriting(k, owner')
    BY <1>1, <1>2, <1>8, TakeRanks DEF ConsistentNow
  <2>2. Inheriting(awake, owner')
    BY <1>1, <1>2, <1>3, <2>1, MutexFieldInherits
  <2>3. Waits(awake, pc')
    BY <1>2, <1>5, <1>7, <1>8 DEF Waits, Terminated
  <2> QED
    BY <1>8, <2>2, <2>3 DEF InheritanceInv
<1>9. CASE BlockOnMutex(m, awake)
  <2>1. /\ owner[m] # NULL /\ pc' = [pc EXCEPT ![c] = Locking(m)]
        /\ k' = SleepThread(__OSPromoteThread([awake EXCEPT !.mutex[c] = m],
                                              owner[m], k.priority[c]),
                            MutexWait(m))
        /\ owner' = owner
    BY <1>4, <1>9 DEF BlockOnMutex, Resumes, mutexVars
  <2>2. Waits(awake, pc)
    BY <1>2, <1>5, <1>7 DEF Waits, Terminated
  <2>3. c = awake.current /\ awake.state[c] = "RUNNING"
        /\ k.priority[c] = awake.priority[c]
    BY <1>2, <1>4, <1>5
  <2> DEFINE b == [awake EXCEPT !.mutex[c] = m]
  <2>4. SetsMutex(awake, b, c, m)
    BY DEF SetsMutex
  <2>5. MovesTo(pc, pc', c, Locking(m))
    BY <1>1, <1>2, <2>1 DEF MovesTo
  <2>6. k' = SleepThread(__OSPromoteThread(b, owner[m], awake.priority[c]),
                         MutexWait(m))
    BY <2>1, <2>3
  <2> HIDE DEF b
  <2>7. Inheriting(k', owner) /\ Waits(k', pc')
    BY <1>1, <1>5, <1>6, <2>1, <2>2, <2>3, <2>4, <2>5, <2>6, BlockInherits
  <2> QED
    BY <2>1, <2>7 DEF InheritanceInv
<1> QED
  BY <1>1, <1>8, <1>9

\* The last unlock of a mutex.
LEMMA ReleaseKeeps ==
  ASSUME OwnershipInv, OwnershipType', Owned(owner', mutexQueue'),
         ConsistentNow, InheritanceInv, NEW m \in Mutex,
         owner[m] = k.current, InUserCode, ReleaseMutex(m)
  PROVE  InheritanceInv'
<1> DEFINE c == k.current
           p == __OSGetEffectivePriority(k, mutexQueue', c)
           lowered == IF k.priority[c] < k.base[c]
                      THEN [k EXCEPT !.priority[c] = p] ELSE k
<1>1. /\ Frees(owner, owner', m)
      /\ k' = WakeupThread(lowered, MutexWait(m)) /\ pc' = pc
  BY DEF ReleaseMutex, Frees
<1>2. /\ c \in Thread /\ Good(k, {}) /\ k.state[c] = "RUNNING"
      /\ Inheriting(k, owner) /\ Waits(k, pc)
      /\ owner \in [Mutex -> Thread \cup {NULL}] /\ owner[m] = c
      /\ c = k.current
  BY UserAwaitsNothing DEF InheritanceInv, OwnershipInv, OwnershipType
<1>3. p \in Priority
  <2>1. k \in Kernel /\ mutexQueue' \in [Thread -> Seq(Mutex)]
    BY <1>2 DEF Good, OwnershipType
  <2> QED
    BY <1>2, <2>1, EffectivePriorityType
<1>4. p = __OSGetEffectivePriority(k, mutexQueue', c)
  OBVIOUS
<1> HIDE DEF p, c
<1>5. /\ k.priority[c] < k.base[c] => Lowers(k, lowered, c, p)
      /\ ~(k.priority[c] < k.base[c]) => lowered = k
  BY DEF Lowers
<1> HIDE DEF lowered
<1>6. Good(lowered, {})
  <2>1. CASE k.priority[c] < k.base[c]
    BY <1>2, <1>3, <1>5, <2>1, LoweredKeeps DEF ConsistentNow, Consistent
  <2>2. CASE ~(k.priority[c] < k.base[c])
    BY <1>2, <1>5, <2>2
  <2> QED
    BY <2>1, <2>2
<1>7. Inheriting(k', owner') /\ \A pp : Waits(k, pp) => Waits(k', pp)
  BY <1>1, <1>2, <1>4, <1>5, <1>6, ReleaseInherits
<1> QED
  BY <1>1, <1>2, <1>7 DEF InheritanceInv

\* OSUnlockMutex.
LEMMA UnlockKeeps ==
  ASSUME OwnershipInv, OwnershipType', Owned(owner', mutexQueue'),
         ConsistentNow, InheritanceInv, NEW m \in Mutex, OSUnlockMutex(m)
  PROVE  InheritanceInv'
<1>1. InUserCode /\ owner[m] = k.current
  BY DEF OSUnlockMutex, Call
<1>2. CASE ReleaseMutex(m)
  BY <1>1, <1>2, ReleaseKeeps
<1>3. CASE UNCHANGED <<k, owner, mutexQueue, pc>>
  BY <1>3 DEF InheritanceInv
<1> QED
  BY <1>2, <1>3 DEF OSUnlockMutex

\* One mutex of a thread that ends: it has no priority to lose.
LEMMA UnlockAllKeeps ==
  ASSUME OwnershipInv, ConsistentNow, EndsKnown, InheritanceInv,
         NEW t \in Thread, __OSUnlockAllMutex(t)
  PROVE  InheritanceInv'
<1> DEFINE m == Head(mutexQueue[t])
<1>1. /\ mutexQueue[t] # <<>> /\ k.current \in Thread
      /\ pc[k.current] = Terminating(t)
      /\ Frees(owner, owner', m)
      /\ k' = WakeupThread(k, MutexWait(m)) /\ pc' = pc
  BY DEF __OSUnlockAllMutex, Continues, Frees
<1>2. /\ mutexQueue[t] \in Seq(Mutex)
      /\ owner \in [Mutex -> Thread \cup {NULL}]
      /\ Range(mutexQueue[t]) = {n \in Mutex : owner[n] = t}
  BY DEF OwnershipInv, OwnershipType, OwnershipExact
<1>3. m \in Mutex /\ owner[m] = t
  <2>1. 1 \in DOMAIN mutexQueue[t] /\ m = mutexQueue[t][1]
    BY <1>1, <1>2
  <2>2. m \in Range(mutexQueue[t])
    BY <2>1 DEF Range
  <2> QED
    BY <1>2, <2>2
<1> HIDE DEF m
<1>4. Terminated(k, t)
  BY <1>1 DEF EndsKnown
<1>5. /\ Good(k, {}) /\ Inheriting(k, owner) /\ Waits(k, pc)
      /\ MutexWait(m) \in BlockingQueues
  BY <1>3, QueueNames DEF ConsistentNow, Consistent, InheritanceInv
<1>6. Inheriting(k', owner')
  BY <1>1, <1>2, <1>3, <1>4, <1>5, AbandonInherits
<1>7. Waits(k', pc)
  <2>1. Wakes(k, k', MutexWait(m))
    BY <1>1, <1>5, WakeupWakes
  <2> QED
    BY <1>5, <2>1, WakesWaits
<1> QED
  BY <1>1, <1>6, <1>7 DEF InheritanceInv

\* The mutex queues of the threads hold what they own.
LEMMA OwnershipOwned ==
  /\ OwnershipInv => OwnershipType /\ Owned(owner, mutexQueue)
  /\ OwnershipInv' => OwnershipType' /\ Owned(owner', mutexQueue')
BY DEF OwnershipInv, OwnershipType, OwnershipExact, Owned

\* At first there is one thread, of its base priority.
LEMMA InheritanceInit ==
  ASSUME Init
  PROVE  InheritanceInv
<1>1. /\ k.base = [t \in Thread |-> DefaultPriority]
      /\ k.priority = [t \in Thread |-> DefaultPriority]
      /\ k.mutex = [t \in Thread |-> NULL]
      /\ \A t \in Thread : k.state[t] \in {"RUNNING", "EXITED"}
  BY DEF Init
<1>2. Waits(k, pc)
  BY <1>1 DEF Waits
<1> DEFINE L == {}
<1>3. Linked(k, L)
  BY <1>1 DEF Linked
<1>4. Inherited(k, owner, L, NULL)
  <2> SUFFICES ASSUME NEW t \in Ranked(k, L)
               PROVE  Exact(k.base, k.priority, Lends(k, owner, L), t)
    BY DEF Inherited, OthersExact
  <2>1. t \in Thread /\ t # NULL
    BY KernelAssumption DEF Ranked
  <2>2. \A u \in Thread : Lends(k, owner, L)[u] = NULL
    BY <1>1 DEF Lends
  <2>3. DefaultPriority \in Nat /\ DefaultPriority <= DefaultPriority
    BY KernelAssumption
  <2> QED
    BY <1>1, <2>1, <2>2, <2>3 DEF Exact, Effective
<1> QED
  BY <1>2, <1>3, <1>4 DEF Inheriting, InheritanceInv

\* The calls on threads and thread queues, and the interrupts.
LEMMA ThreadNextInherits ==
  ASSUME KernelInv, InheritanceInv, ThreadNext
  PROVE  InheritanceInv'
<1>1. OwnershipType /\ Owned(owner, mutexQueue) /\ ConsistentNow
  BY OwnershipOwned DEF KernelInv
<1>2. CASE OSExitThread
  BY <1>1, <1>2, ExitInherits
<1>3. CASE OSYieldThread
  BY <1>1, <1>3, YieldKeeps
<1>4. CASE OSSleepTicks
  BY <1>1, <1>4, SleepTicksKeeps
<1>5. CASE OSSleepTicksReturn
  BY <1>1, <1>5, SleepTicksReturnKeeps
<1>6. CASE OSDisableScheduler \/ OSEnableScheduler
  BY <1>1, <1>6, SchedulerKeeps
<1>7. CASE IdleLoopEnd
  BY <1>1, <1>7, IdleLoopEndKeeps
<1>8. ASSUME NEW t \in Thread, OSCreateThread(t) PROVE InheritanceInv'
  BY <1>1, <1>8, CreateInherits
<1>9. ASSUME NEW t \in Thread, OSCancelThread(t) PROVE InheritanceInv'
  BY <1>1, <1>9, CancelKeeps
<1>10. ASSUME NEW t \in Thread, TerminateEnd(t) PROVE InheritanceInv'
  BY <1>1, <1>10, TerminateEndKeeps
<1>11. ASSUME NEW t \in Thread, OSJoinThread(t) PROVE InheritanceInv'
  BY <1>1, <1>11, JoinKeeps
<1>12. ASSUME NEW t \in Thread, OSJoinThreadReturn(t) PROVE InheritanceInv'
  BY <1>1, <1>12, JoinReturnKeeps
<1>13. ASSUME NEW t \in Thread, OSDetachThread(t) PROVE InheritanceInv'
  BY <1>1, <1>13, DetachKeeps
<1>14. ASSUME NEW t \in Thread, OSResumeThread(t) PROVE InheritanceInv'
  BY <1>1, <1>14, ResumeKeeps
<1>15. ASSUME NEW t \in Thread, OSSuspendThread(t) PROVE InheritanceInv'
  BY <1>1, <1>15, SuspendRanks
<1>16. ASSUME NEW t \in Thread, OSSetThreadPriority(t) PROVE InheritanceInv'
  BY <1>1, <1>16, SetPriorityKeeps
<1>17. ASSUME NEW t \in Thread, InterruptResume(t) PROVE InheritanceInv'
  BY <1>1, <1>17, InterruptResumeKeeps
<1>18. ASSUME NEW t \in Thread, SleepAlarmHandler(t) PROVE InheritanceInv'
  BY <1>1, <1>18, AlarmHandlerKeeps
<1>19. ASSUME NEW u \in UserQueue, OSSleepThread(u) PROVE InheritanceInv'
  BY <1>1, <1>19, SleepThreadKeeps
<1>20. ASSUME NEW u \in UserQueue, OSWakeupThread(u) PROVE InheritanceInv'
  BY <1>1, <1>20, WakeupThreadKeeps
<1>21. ASSUME NEW u \in UserQueue, InterruptWakeup(u) PROVE InheritanceInv'
  BY <1>1, <1>21, InterruptWakeupKeeps
<1> QED
  BY <1>2, <1>3, <1>4, <1>5, <1>6, <1>7, <1>8, <1>9, <1>10, <1>11, <1>12,
     <1>13, <1>14, <1>15, <1>16, <1>17, <1>18, <1>19, <1>20, <1>21
  DEF ThreadNext

\* The calls on mutexes.
LEMMA MutexNextInherits ==
  ASSUME KernelInv, OwnershipInv', InheritanceInv, MutexNext
  PROVE  InheritanceInv'
<1>1. /\ OwnershipInv /\ OwnershipType /\ ConsistentNow /\ EndsKnown
      /\ OwnershipType' /\ Owned(owner', mutexQueue')
  BY OwnershipOwned DEF KernelInv
<1>2. ASSUME NEW m \in Mutex, OSLockMutex(m) \/ OSTryLockMutex(m)
      PROVE  InheritanceInv'
  BY <1>1, <1>2, LockKeeps
<1>3. ASSUME NEW m \in Mutex, OSLockMutexRetry(m) PROVE InheritanceInv'
  BY <1>1, <1>3, LockRetryKeeps
<1>4. ASSUME NEW m \in Mutex, OSUnlockMutex(m) PROVE InheritanceInv'
  BY <1>1, <1>4, UnlockKeeps
<1>5. ASSUME NEW t \in Thread, __OSUnlockAllMutex(t) PROVE InheritanceInv'
  BY <1>1, <1>5, UnlockAllKeeps
<1> QED
  BY <1>2, <1>3, <1>4, <1>5 DEF MutexNext

\* What the kernel computes for a thread is the priority it has.
LEMMA InheritanceExact ==
  ASSUME KernelInv, InheritanceInv
  PROVE  PriorityInheritanceExact
<1> SUFFICES ASSUME NEW t \in Thread, Live(t), k.suspend[t] = 0
             PROVE  k.priority[t] = __OSGetEffectivePriority(k, mutexQueue, t)
  BY DEF PriorityInheritanceExact
<1> DEFINE L == {}
           l == Lends(k, owner, L)
           p == __OSGetEffectivePriority(k, mutexQueue, t)
           b == k.base
           pr == k.priority
<1>1. /\ Owned(owner, mutexQueue) /\ Good(k, L) /\ k \in Kernel
      /\ owner \in [Mutex -> Thread \cup {NULL}]
      /\ Linked(k, L) /\ Inherited(k, owner, L, NULL)
  BY OwnershipOwned
     DEF KernelInv, ConsistentNow, Consistent, Good, Owned, InheritanceInv,
         Inheriting
<1>2. t \in Ranked(k, L)
  BY DEF Live, Ranked
<1> HIDE DEF L
<1>3. Effective(b, pr, l, t, p)
  BY <1>1, EffectiveComputed
<1>4. Effective(b, pr, l, t, pr[t])
  BY <1>1, <1>2, KernelAssumption DEF Inherited, OthersExact, Exact
<1>5. Numbers(b, pr, l)
  BY <1>1, KernelNumbers
<1> HIDE DEF l, p, b, pr
<1>6. pr[t] = p
  BY ONLY t \in Thread, <1>3, <1>4, <1>5, EffectiveUnique
<1> QED
  BY <1>6 DEF p, pr

\* Every step keeps it.
LEMMA NextInherits ==
  ASSUME KernelInv, KernelInv', InheritanceInv, [Next]_vars
  PROVE  InheritanceInv'
<1>1. CASE ThreadNext
  BY <1>1, ThreadNextInherits
<1>2. CASE MutexNext
  BY <1>2, MutexNextInherits DEF KernelInv
<1>3. CASE UNCHANGED vars
  BY <1>3 DEF vars, mutexVars, InheritanceInv
<1> QED
  BY <1>1, <1>2, <1>3 DEF Next

\* The priority of every thread that can run or wait is always its base
\* priority or that of the most urgent waiter of the mutexes it owns: after
\* every lock, unlock, suspension, resumption, cancellation and change of
\* priority, through chains of owners of any length.
THEOREM PrioritiesAreInherited == Spec => []PriorityInheritanceExact
<1>1. Init => InheritanceInv
  BY InheritanceInit
<1>2. KernelInv /\ KernelInv' /\ InheritanceInv /\ [Next]_vars
        => InheritanceInv'
  BY NextInherits
<1>3. KernelInv /\ InheritanceInv => PriorityInheritanceExact
  BY InheritanceExact
<1> QED
  BY <1>1, <1>2, <1>3, KernelStaysConsistent, PTL DEF Spec

-----------------------------------------------------------------------------
(* Preemption. *)

\* Init leaves no switch to make.
LEMMA PromptInit == Init => Prompt(k, pc)
BY DEF Init, Prompt, Remembered, Settled

\* No step loses a switch.  OSUnlockMutex lowers a priority without a hint for
\* the scheduler: as priorities are inherited exactly, it does so only when a
\* waiter wakes that is not suspended, whose SetRun gives the hint.
LEMMA PromptStep ==
  ASSUME KernelInv, PriorityInheritanceExact, Prompt(k, pc), [Next]_vars
  PROVE  Prompt(k, pc)'
<1>1. OwnershipInv /\ ConsistentNow
  BY DEF KernelInv
<1>2. CASE ThreadNext
  <2>1. StaysPrompt
    BY <1>1, <1>2, ThreadNextConsistent
  <2> QED
    BY <2>1 DEF StaysPrompt, Prompt, Remembered, Settled
<1>3. CASE MutexNext
  <2>1. OwnershipInv'
    BY <1>1, <1>3, MutexNextOwnership
  <2>2. StaysPrompt
    BY <1>1, <1>3, <2>1, MutexNextConsistent
  <2> QED
    BY <2>2 DEF StaysPrompt, Prompt, Remembered, Settled
<1>4. CASE UNCHANGED vars
  BY <1>4 DEF vars, Prompt, Remembered, Settled
<1> QED
  BY <1>2, <1>3, <1>4 DEF Next

\* A switch that a call has made necessary is made or remembered, also while
\* the scheduler is disabled.
THEOREM SwitchesAreRemembered == Spec => []PreemptionRemembered
<1>1. KernelInv /\ Prompt(k, pc) => PreemptionRemembered
  <2> SUFFICES ASSUME KernelInv, Prompt(k, pc), InUserCode, ~k.RunQueueHint
               PROVE  \A p \in k.RunQueueBits : k.priority[k.current] <= p
    BY DEF PreemptionRemembered
  <2>1. k.current \in Thread /\ k.state[k.current] = "RUNNING"
    BY InUserCodeRuns DEF KernelInv
  <2> QED
    BY <2>1 DEF Prompt, Remembered
<1> QED
  BY <1>1, PromptInit, PromptStep, PrioritiesAreInherited,
     KernelStaysConsistent, PTL DEF Spec

\* In a program that does not disable the scheduler the thread that runs is
\* always a most urgent one.
THEOREM MostUrgentThreadRuns ==
  ASSUME "OSDisableScheduler" \notin Calls
  PROVE  Spec => []HighestPriorityRuns
<1>1. KernelInv /\ Prompt(k, pc) => HighestPriorityRuns
  <2> SUFFICES ASSUME KernelInv, Prompt(k, pc), InUserCode
               PROVE  /\ k.state[k.current] = "RUNNING"
                      /\ \A p \in k.RunQueueBits :
                           k.priority[k.current] <= p
    BY DEF HighestPriorityRuns
  <2>1. /\ k.current \in Thread /\ k.state[k.current] = "RUNNING"
        /\ \A t : pc[k.current] # Terminating(t)
    BY InUserCodeRuns DEF KernelInv
  <2> QED
    BY <2>1 DEF Prompt, Settled
<1> QED
  BY <1>1, PromptInit, PromptStep, PrioritiesAreInherited,
     KernelStaysConsistent, PTL DEF Spec

-----------------------------------------------------------------------------
(***************************************************************************)
(* The message queue of OSMessage: its ring buffer, with its waiting loops *)
(* and its interrupt handlers, implements the bounded channel, for every   *)
(* capacity; the kernel below it stays consistent; and no wakeup is lost.  *)
(***************************************************************************)

\* The index arithmetic of OSMessage.c never goes beyond one turn of the ring.
LEMMA WrapOnce ==
  ASSUME NEW x \in Nat, x < 2 * Capacity
  PROVE  x % Capacity = IF x < Capacity THEN x ELSE x - Capacity
<1>1. Capacity \in Nat /\ Capacity > 0
  BY MessageAssumption
<1> DEFINE d == x \div Capacity
           r == x % Capacity
<1>2. d \in Int /\ r \in 0 .. Capacity - 1 /\ x = Capacity * d + r
  BY <1>1
<1> HIDE DEF d, r
<1>3. d >= 0
  BY <1>1, <1>2
<1>4. d < 2
  BY <1>1, <1>2
<1>5. d = 0 \/ d = 1
  BY <1>2, <1>3, <1>4
<1>6. r = IF x < Capacity THEN x ELSE x - Capacity
  BY <1>1, <1>2, <1>5
<1> QED
  BY <1>6 DEF r

-----------------------------------------------------------------------------
(* The invariant: the shape of the ring. *)

RingInv ==
    /\ buffer \in [0 .. Capacity - 1 -> Message \cup {NULL}]
    /\ front \in 0 .. Capacity - 1
    /\ size \in 0 .. Capacity

\* The place of the i-th message that waits, without a modulus.
Place(f, i) == IF f + i - 1 < Capacity THEN f + i - 1
                                       ELSE f + i - 1 - Capacity

\* OSInitMessageQueue leaves an empty ring.
LEMMA RingInit == OSInitMessageQueue => RingInv
BY MessageAssumption DEF OSInitMessageQueue, RingInv

PendingShape ==
    /\ Pending \in Seq(Message \cup {NULL})
    /\ Len(Pending) = size
    /\ \A i \in 1 .. size : /\ Place(front, i) \in 0 .. Capacity - 1
                          /\ Pending[i] = buffer[Place(front, i)]

\* What the ring holds, as a sequence.
LEMMA PendingProperties ==
  ASSUME RingInv
  PROVE  /\ Pending \in Seq(Message \cup {NULL})
         /\ Len(Pending) = size
         /\ \A i \in 1 .. size : /\ Place(front, i) \in 0 .. Capacity - 1
                               /\ Pending[i] = buffer[Place(front, i)]
<1>1. Capacity \in Nat /\ Capacity > 0 /\ front \in Nat /\ size \in Nat
  BY MessageAssumption DEF RingInv
<1>2. ASSUME NEW i \in 1 .. size
      PROVE  /\ (front + i - 1) % Capacity = Place(front, i)
             /\ Place(front, i) \in 0 .. Capacity - 1
  <2>1. front + i - 1 \in Nat /\ front + i - 1 < 2 * Capacity
    BY <1>1 DEF RingInv
  <2> QED
    BY <1>1, <2>1, WrapOnce DEF Place, RingInv
<1>3. \A i \in 1 .. size : Pending[i] = buffer[Place(front, i)]
  BY <1>2 DEF Pending
<1>4. \A i \in 1 .. size : Pending[i] \in Message \cup {NULL}
  BY <1>2, <1>3 DEF RingInv
<1>5. Pending \in [1 .. size -> Message \cup {NULL}]
  BY <1>4 DEF Pending
<1>6. Pending \in Seq(Message \cup {NULL}) /\ Len(Pending) = size
  BY <1>1, <1>5
<1> QED
  BY <1>2, <1>3, <1>6

\* The same as a fact about every state, hence also after a step.
LEMMA PendingHasShape == RingInv => PendingShape
BY PendingProperties DEF PendingShape

\* The shape of the sequence after a step.
LEMMA PendingHasShapeNext == RingInv' => PendingShape'
BY PendingHasShape, PTL

\* What the ring holds after a step.
LEMMA PendingPropertiesPrime ==
  ASSUME RingInv'
  PROVE  /\ Pending' \in Seq(Message \cup {NULL})
         /\ Len(Pending') = size'
         /\ \A i \in 1 .. size' : /\ Place(front', i) \in 0 .. Capacity - 1
                                /\ Pending'[i] = buffer'[Place(front', i)]
BY PendingHasShapeNext DEF PendingShape, Place

\* Two sequences of one length with the same elements are equal.
LEMMA SameSequence ==
  ASSUME NEW S, NEW s1 \in Seq(S), NEW s2 \in Seq(S), NEW n \in Nat,
         Len(s1) = n, Len(s2) = n, \A i \in 1 .. n : s1[i] = s2[i]
  PROVE  s1 = s2
OBVIOUS

\* A message goes behind the others: the store of OSSendMessage.
LEMMA PutLastAppends ==
  ASSUME RingInv, ~Full, NEW mesg \in Message, PutLast(mesg)
  PROVE  RingInv' /\ Pending' = Append(Pending, mesg)
<1>1. Capacity \in Nat /\ Capacity > 0 /\ front \in Nat /\ size \in Nat
      /\ size < Capacity
  BY MessageAssumption DEF RingInv, Full
<1>2. (front + size) % Capacity = Place(front, size + 1)
  BY <1>1, WrapOnce DEF Place, RingInv
<1>3. Place(front, size + 1) \in 0 .. Capacity - 1
  BY <1>1 DEF Place, RingInv
<1>4. /\ buffer' = [buffer EXCEPT ![Place(front, size + 1)] = mesg]
      /\ size' = size + 1 /\ front' = front
  BY <1>2 DEF PutLast
<1>5. RingInv'
  BY <1>1, <1>3, <1>4 DEF RingInv
<1>6. /\ Pending' \in Seq(Message \cup {NULL}) /\ Len(Pending') = size + 1
      /\ \A i \in 1 .. size + 1 : Pending'[i] = buffer'[Place(front, i)]
  BY <1>4, <1>5, PendingPropertiesPrime DEF Place
<1>7. ASSUME NEW i \in 1 .. size + 1
      PROVE  Pending'[i] = Append(Pending, mesg)[i]
  <2>1. CASE i = size + 1
    BY <1>1, <1>3, <1>4, <1>6, <2>1, PendingProperties DEF RingInv
  <2>2. CASE i # size + 1
    <3>1. i \in 1 .. size /\ Place(front, i) # Place(front, size + 1)
      BY <1>1, <2>2 DEF Place, RingInv
    <3>2. Pending'[i] = buffer[Place(front, i)]
      BY <1>4, <1>6, <3>1, PendingProperties DEF RingInv
    <3> QED
      BY <1>1, <3>1, <3>2, PendingProperties
  <2> QED
    BY <2>1, <2>2
<1>8. /\ Append(Pending, mesg) \in Seq(Message \cup {NULL})
      /\ Len(Append(Pending, mesg)) = size + 1
  BY <1>1, PendingProperties
<1> QED
  BY <1>1, <1>5, <1>6, <1>7, <1>8, SameSequence

\* A message goes before the others: the store of OSJamMessage.
LEMMA PutFirstPrepends ==
  ASSUME RingInv, ~Full, NEW mesg \in Message, PutFirst(mesg)
  PROVE  RingInv' /\ Pending' = <<mesg>> \o Pending
<1>1. Capacity \in Nat /\ Capacity > 0 /\ front \in Nat /\ size \in Nat
      /\ size < Capacity
  BY MessageAssumption DEF RingInv, Full
<1> DEFINE last == IF front = 0 THEN Capacity - 1 ELSE front - 1
<1>2. (front + Capacity - 1) % Capacity = last
  BY <1>1, WrapOnce DEF RingInv
<1>3. last \in 0 .. Capacity - 1
  BY <1>1 DEF RingInv
<1>4. /\ buffer' = [buffer EXCEPT ![last] = mesg]
      /\ size' = size + 1 /\ front' = last
  BY <1>2 DEF PutFirst
<1>5. RingInv'
  BY <1>1, <1>3, <1>4 DEF RingInv
<1>6. /\ Pending' \in Seq(Message \cup {NULL}) /\ Len(Pending') = size + 1
      /\ \A i \in 1 .. size + 1 : Pending'[i] = buffer'[Place(last, i)]
  BY <1>4, <1>5, PendingPropertiesPrime DEF Place
<1>7. ASSUME NEW i \in 1 .. size + 1
      PROVE  Pending'[i] = (<<mesg>> \o Pending)[i]
  <2>1. CASE i = 1
    <3>1. Place(last, i) = last
      BY <1>1, <1>3, <2>1 DEF Place
    <3>2. Pending'[i] = mesg
      BY <1>3, <1>4, <1>6, <3>1 DEF RingInv
    <3>3. (<<mesg>> \o Pending)[i] = mesg
      BY <1>1, <2>1, PendingProperties
    <3> QED
      BY <3>2, <3>3
  <2>2. CASE i # 1
    <3>1. i - 1 \in 1 .. size
      BY <1>1, <2>2
    <3>2. Place(last, i) = Place(front, i - 1) /\ Place(last, i) # last
      BY <1>1, <2>2 DEF Place, RingInv
    <3>3. Pending'[i] = buffer[Place(front, i - 1)]
      BY <1>4, <1>6, <3>1, <3>2, PendingProperties DEF RingInv
    <3>4. /\ Pending \in Seq(Message \cup {NULL}) /\ Len(Pending) = size
          /\ Pending[i - 1] = buffer[Place(front, i - 1)]
      BY <3>1, PendingProperties
    <3>5. (<<mesg>> \o Pending)[i] = Pending[i - 1]
      BY <1>1, <2>2, <3>1, <3>4
    <3> QED
      BY <3>3, <3>4, <3>5
  <2> QED
    BY <2>1, <2>2
<1>8. /\ <<mesg>> \o Pending \in Seq(Message \cup {NULL})
      /\ Len(<<mesg>> \o Pending) = size + 1
  BY <1>1, PendingProperties
<1> QED
  BY <1>1, <1>5, <1>6, <1>7, <1>8, SameSequence

\* The first message leaves: the end of OSReceiveMessage.
LEMMA TakeFirst ==
  ASSUME RingInv, ~Empty, UNCHANGED buffer,
         front' = (front + 1) % Capacity, size' = size - 1
  PROVE  /\ RingInv' /\ Pending # <<>>
         /\ buffer[front] = Head(Pending) /\ Pending' = Tail(Pending)
<1>1. Capacity \in Nat /\ Capacity > 0 /\ front \in Nat /\ size \in Nat
      /\ size > 0
  BY MessageAssumption DEF RingInv, Empty
<1>2. front' = IF front + 1 < Capacity THEN front + 1 ELSE front + 1 - Capacity
  BY <1>1, WrapOnce DEF RingInv
<1>3. RingInv'
  BY <1>1, <1>2 DEF RingInv
<1>4. /\ Pending' \in Seq(Message \cup {NULL}) /\ Len(Pending') = size - 1
      /\ \A i \in 1 .. size - 1 : Pending'[i] = buffer[Place(front', i)]
  BY <1>3, PendingPropertiesPrime DEF Place
<1>5. ASSUME NEW i \in 1 .. size - 1
      PROVE  Pending'[i] = Tail(Pending)[i]
  <2>1. i + 1 \in 1 .. size /\ Place(front', i) = Place(front, i + 1)
    BY <1>1, <1>2 DEF Place, RingInv
  <2>2. /\ Pending \in Seq(Message \cup {NULL}) /\ Len(Pending) = size
        /\ Pending[i + 1] = buffer[Place(front, i + 1)]
    BY <2>1, PendingProperties
  <2>3. Tail(Pending)[i] = Pending[i + 1]
    BY <1>1, <2>2
  <2> QED
    BY <1>4, <2>1, <2>2, <2>3
<1>6. Pending # <<>> /\ buffer[front] = Head(Pending)
  <2>1. Place(front, 1) = front
    BY <1>1 DEF Place, RingInv
  <2> QED
    BY <1>1, <2>1, PendingProperties
<1>7. /\ Tail(Pending) \in Seq(Message \cup {NULL})
      /\ Len(Tail(Pending)) = size - 1
  BY <1>1, <1>6, PendingProperties
<1> QED
  BY <1>1, <1>3, <1>4, <1>5, <1>6, <1>7, SameSequence

-----------------------------------------------------------------------------
(* The refinement. *)

\* The variables of the channel.
channelVars == <<Pending, received>>

\* A step that leaves the ring alone leaves the channel alone.
LEMMA RingUnchanged ==
  ASSUME RingInv, UNCHANGED messageVars
  PROVE  RingInv' /\ UNCHANGED channelVars
BY DEF RingInv, Pending, messageVars, channelVars

\* A message is stored behind the others, by a thread or a handler.
LEMMA PutLastSends ==
  ASSUME RingInv, ~Full, NEW mesg \in Message, PutLast(mesg)
  PROVE  RingInv' /\ Channel!Send(mesg)
<1>1. Len(Pending) < Capacity
  BY PendingProperties, MessageAssumption DEF Full, RingInv
<1>2. UNCHANGED received
  BY DEF PutLast
<1> QED
  BY <1>1, <1>2, PutLastAppends DEF Channel!Send

\* Every action of OSMessage.c sends, jams, receives, or leaves the channel
\* alone.
LEMMA QueueNextRefines ==
  ASSUME RingInv, QueueNext
  PROVE  RingInv' /\ (Channel!Next \/ UNCHANGED channelVars)
<1>1. ASSUME NEW q, NEW at, Block(q, at)
      PROVE  RingInv' /\ UNCHANGED channelVars
  BY <1>1, RingUnchanged DEF Block
<1>2. CASE OSReceiveMessage
  <2>1. CASE Empty /\ Block(recvQueue, Receiving)
    BY <1>1, <2>1
  <2>2. CASE ~Empty
    <3>1. k.current \in Thread
      BY <1>2 DEF OSReceiveMessage, Call, InUserCode, Continues
    <3>2. /\ received' = <<k.current, buffer[front]>>
          /\ front' = (front + 1) % Capacity /\ size' = size - 1
          /\ UNCHANGED buffer
      BY <1>2, <2>2 DEF OSReceiveMessage
    <3>3. RingInv' /\ Channel!Receive(k.current)
      BY <2>2, <3>2, TakeFirst DEF Channel!Receive
    <3> QED
      BY <3>1, <3>3 DEF Channel!Next
  <2> QED
    BY <1>2, <2>1, <2>2 DEF OSReceiveMessage
<1>3. ASSUME NEW mesg \in Message, OSSendMessage(mesg)
      PROVE  RingInv' /\ (Channel!Next \/ UNCHANGED channelVars)
  <2>1. CASE Full /\ Block(sendQueue, Sending(mesg))
    BY <1>1, <2>1
  <2>2. CASE ~Full /\ PutLast(mesg)
    BY <2>2, PutLastSends DEF Channel!Next
  <2> QED
    BY <1>3, <2>1, <2>2 DEF OSSendMessage
<1>4. ASSUME NEW mesg \in Message, OSJamMessage(mesg)
      PROVE  RingInv' /\ (Channel!Next \/ UNCHANGED channelVars)
  <2>1. CASE Full /\ Block(sendQueue, Jamming(mesg))
    BY <1>1, <2>1
  <2>2. CASE ~Full /\ PutFirst(mesg)
    <3>1. Len(Pending) < Capacity
      BY <2>2, PendingProperties, MessageAssumption DEF Full, RingInv
    <3>2. UNCHANGED received
      BY <2>2 DEF PutFirst
    <3>3. RingInv' /\ Channel!Jam(mesg)
      BY <2>2, <3>1, <3>2, PutFirstPrepends DEF Channel!Jam
    <3> QED
      BY <3>3 DEF Channel!Next
  <2> QED
    BY <1>4, <2>1, <2>2 DEF OSJamMessage
<1>5. ASSUME NEW mesg \in Message, InterruptSend(mesg)
      PROVE  RingInv' /\ (Channel!Next \/ UNCHANGED channelVars)
  <2>1. ~Full /\ PutLast(mesg)
    BY <1>5 DEF InterruptSend
  <2> QED
    BY <2>1, PutLastSends DEF Channel!Next
<1> QED
  BY <1>2, <1>3, <1>4, <1>5 DEF QueueNext

\* A step of the whole kernel is a step of the channel or leaves it alone.
LEMMA StepRefines ==
  RingInv /\ [MessageNext]_allVars
    => RingInv' /\ [Channel!Next]_channelVars
<1> SUFFICES ASSUME RingInv, [MessageNext]_allVars
             PROVE  RingInv' /\ [Channel!Next]_channelVars
  OBVIOUS
<1>1. CASE QueueNext
  BY <1>1, QueueNextRefines
<1>2. CASE UNCHANGED messageVars
  BY <1>2, RingUnchanged
<1> QED
  BY <1>1, <1>2 DEF MessageNext, allVars

\* The ring buffer with its loops and its interrupt handlers is a bounded
\* channel: for every capacity and any threads, a message that was sent is
\* received once, in the order of OSSendMessage and OSJamMessage, although
\* senders and receivers are switched out, overtaken and cancelled.
THEOREM RingImplementsChannel == MessageSpec => ImplementsChannel
<1>1. MessageInit => RingInv /\ Channel!Init
  <2>1. OSInitMessageQueue => Channel!Init
    BY PendingProperties, RingInit
       DEF OSInitMessageQueue, Channel!Init, Pending
  <2> QED
    BY <2>1, RingInit DEF MessageInit
<1>2. RingInv /\ [MessageNext]_allVars
        => RingInv' /\ [Channel!Next]_channelVars
  BY StepRefines
<1> QED
  BY <1>1, <1>2, PTL
     DEF MessageSpec, ImplementsChannel, Channel!Spec, channelVars
-----------------------------------------------------------------------------
(* The kernel below the message queue.  The calls of OSMessage.c leave a     *)
(* thread at places of their own, which mean nothing to the kernel.          *)

\* The places of OSMessage.c are not places of the kernel.
QueuePlace(at) ==
    /\ at # UserCode /\ at # SleepingTicks
    /\ \A t : at # Terminating(t)

\* Each of the three is such a place.
LEMMA QueuePlaces ==
  /\ \A mesg : QueuePlace(Sending(mesg)) /\ QueuePlace(Jamming(mesg))
  /\ QueuePlace(Receiving)
<1>1. ASSUME NEW mesg PROVE QueuePlace(Sending(mesg))
  BY DEF QueuePlace, Sending, UserCode, SleepingTicks, Terminating
<1>2. ASSUME NEW mesg PROVE QueuePlace(Jamming(mesg))
  BY DEF QueuePlace, Jamming, UserCode, SleepingTicks, Terminating
<1>3. QueuePlace(Receiving)
  BY DEF QueuePlace, Receiving, UserCode, SleepingTicks, Terminating
<1> QED
  BY <1>1, <1>2, <1>3

\* A thread that calls, or goes on with its call, runs.
CallerRuns ==
    /\ k.current \in Thread /\ k.current \notin k.alarms
    /\ \A t : pc[k.current] # Terminating(t)

\* Such a thread ends nobody, and no alarm is set on its stack.
LEMMA CallersRun ==
  ASSUME KernelInv, NEW at, QueuePlace(at), InUserCode \/ Continues(at)
  PROVE  CallerRuns
<1>1. ConsistentNow
  BY DEF KernelInv
<1>2. CASE InUserCode
  BY <1>1, <1>2, InUserCodeRuns DEF CallerRuns
<1>3. CASE Continues(at)
  BY <1>1, <1>3
     DEF Continues, QueuePlace, CallerRuns, ConsistentNow, Consistent,
         AlarmsExact
<1> QED
  BY <1>2, <1>3

\* A step that is consistent, ends nobody and begins no end.
LEMMA KernelKept ==
  ASSUME KernelInv, ConsistentNow', SameEnds(k, k'), EndsAsBefore,
         UNCHANGED mutexVars
  PROVE  KernelInv'
<1>1. OwnershipInv'
  BY UnchangedOwnership DEF KernelInv
<1>2. EndsKnown'
  BY DEF KernelInv, EndsKnown, EndsAsBefore, SameEnds
<1> QED
  BY <1>1, <1>2 DEF KernelInv

\* A full or empty queue puts the caller to sleep there, and nobody elsewhere.
LEMMA BlockStep ==
  ASSUME KernelInv, CallerRuns, NEW at, QueuePlace(at),
         NEW u \in UserQueue, Block(u, at), UNCHANGED mutexVars
  PROVE  /\ KernelInv'
         /\ \A q : NoSleeper(k, q) /\ q # WaitQueue(u) => NoSleeper(k', q)
<1> DEFINE c == k.current
<1>1. ConsistentNow /\ owner' = owner /\ mutexQueue' = mutexQueue
  BY DEF KernelInv, mutexVars
<1>2. /\ k.Reschedule = 0 /\ k' = SleepThread(k, WaitQueue(u))
      /\ pc' = [pc EXCEPT ![c] = at]
  BY DEF Block, MayBlock, Resumes
<1>3. c \in Thread /\ c \notin k.alarms /\ \A t : pc[c] # Terminating(t)
  BY DEF CallerRuns
<1>4. \A t : at # Terminating(t)
  BY DEF QueuePlace
<1>5. Consistent(k, pc', owner, mutexQueue)
  BY <1>1, <1>2, <1>3, <1>4, RunningCode
<1>6. pc'[c] # Terminating(c)
  BY <1>1, <1>2, <1>3, <1>4 DEF ConsistentNow, Consistent
<1>7. /\ WaitQueue(u) \in BlockingQueues
      /\ \A m \in Mutex : WaitQueue(u) # MutexWait(m)
      /\ \A t \in Thread : WaitQueue(u) # JoinQueue(t)
  BY QueueNames
<1>8. EndsAsBefore
  BY <1>1, <1>2, <1>4, OtherCode
<1>9. c = k.current
  OBVIOUS
<1> HIDE DEF c
<1>10. /\ Consistent(k', pc', owner, mutexQueue) /\ SameEnds(k, k')
       /\ \A q : NoSleeper(k, q) /\ q # WaitQueue(u) => NoSleeper(k', q)
  BY <1>2, <1>3, <1>5, <1>6, <1>7, <1>9, SleepKeeps
<1>11. ConsistentNow'
  BY <1>1, <1>10 DEF ConsistentNow
<1> QED
  BY <1>8, <1>10, <1>11, KernelKept

\* The end of a call wakes those who wait for what it has changed.
LEMMA WakeStep ==
  ASSUME KernelInv, CallerRuns, NEW u \in UserQueue,
         k' = WakeupThread(k, WaitQueue(u)), Return(k.current),
         UNCHANGED mutexVars
  PROVE  KernelInv' /\ Quiet(k, k') /\ NoSleeper(k', WaitQueue(u))
<1> DEFINE c == k.current
<1>1. ConsistentNow /\ owner' = owner /\ mutexQueue' = mutexQueue
  BY DEF KernelInv, mutexVars
<1>2. pc' = [pc EXCEPT ![c] = UserCode]
  BY DEF Return
<1>3. c \in Thread /\ c \notin k.alarms /\ \A t : pc[c] # Terminating(t)
  BY DEF CallerRuns
<1>4. EndsAsBefore
  BY <1>1, <1>2, CodeNames, OtherCode
<1>5. c = k.current
  OBVIOUS
<1> HIDE DEF c
<1>6. Consistent(k, pc', owner, mutexQueue)
  BY <1>1, <1>2, <1>3, <1>5, ReturnKeeps DEF ConsistentNow
<1>7. WaitQueue(u) \in BlockingQueues
  BY QueueNames
<1>8. /\ Consistent(k', pc', owner, mutexQueue) /\ Quiet(k, k')
      /\ NoSleeper(k', WaitQueue(u))
  BY <1>6, <1>7, WakeupKeeps
<1>9. ConsistentNow'
  BY <1>1, <1>8 DEF ConsistentNow
<1> QED
  BY <1>4, <1>8, <1>9, KernelKept DEF Quiet

\* So does a handler that sends.
LEMMA HandlerStep ==
  ASSUME KernelInv, NEW u \in UserQueue,
         k' = InHandler(LAMBDA s : WakeupThread(s, WaitQueue(u))),
         pc' = pc, UNCHANGED mutexVars
  PROVE  KernelInv' /\ Quiet(k, k') /\ NoSleeper(k', WaitQueue(u))
<1>1. ConsistentNow /\ owner' = owner /\ mutexQueue' = mutexQueue
  BY DEF KernelInv, mutexVars
<1>2. WaitQueue(u) \in BlockingQueues
  BY QueueNames
<1>3. /\ Consistent(k', pc, owner, mutexQueue) /\ Quiet(k, k')
      /\ NoSleeper(k', WaitQueue(u))
  BY <1>1, <1>2, HandlerWakeup
<1>4. ConsistentNow'
  BY <1>1, <1>3 DEF ConsistentNow
<1>5. EndsAsBefore
  BY DEF EndsAsBefore
<1> QED
  BY <1>3, <1>4, <1>5, KernelKept DEF Quiet

-----------------------------------------------------------------------------
(* No lost wakeup.                                                           *)

\* Nobody sleeps for a message that is there, or for a place that is free.
SleepersInv ==
    /\ ~Empty => NoSleeper(k, WaitQueue(recvQueue))
    /\ ~Full => NoSleeper(k, WaitQueue(sendQueue))

\* A call that waits does so for a good reason.
Waited ==
    /\ UNCHANGED messageVars
    /\ \E u \in {sendQueue, recvQueue} :
         /\ u = sendQueue => Full
         /\ u = recvQueue => Empty
         /\ \A q : NoSleeper(k, q) /\ q # WaitQueue(u) => NoSleeper(k', q)

\* A message is stored and the receivers are woken.
Stored == ~Full /\ size' = size + 1 /\ Quiet(k, k')
          /\ NoSleeper(k', WaitQueue(recvQueue))

\* A message is taken and the senders are woken.
Taken == ~Empty /\ size' = size - 1 /\ Quiet(k, k')
         /\ NoSleeper(k', WaitQueue(sendQueue))

\* The calls of OSMessage.c do one of these, on a kernel that stays consistent.
LEMMA QueueNextSteps ==
  ASSUME KernelInv, QueueNext
  PROVE  KernelInv' /\ (Waited \/ Stored \/ Taken)
<1>1. sendQueue \in UserQueue /\ recvQueue \in UserQueue
      /\ sendQueue # recvQueue
  BY MessageAssumption
<1>2. CASE OSReceiveMessage
  <2>1. CallerRuns /\ QueuePlace(Receiving) /\ UNCHANGED mutexVars
    BY <1>2, CallersRun, QueuePlaces DEF OSReceiveMessage, Call
  <2>2. CASE Empty /\ Block(recvQueue, Receiving)
    <3>1. UNCHANGED messageVars
      BY <2>2 DEF Block
    <3> QED
      BY <1>1, <2>1, <2>2, <3>1, BlockStep DEF Waited
  <2>3. CASE /\ ~Empty /\ size' = size - 1
             /\ k' = WakeupThread(k, WaitQueue(sendQueue))
             /\ Return(k.current)
    BY <1>1, <2>1, <2>3, WakeStep DEF Taken
  <2> QED
    BY <1>2, <2>2, <2>3 DEF OSReceiveMessage
<1>3. ASSUME NEW mesg \in Message, OSSendMessage(mesg)
      PROVE  KernelInv' /\ (Waited \/ Stored \/ Taken)
  <2>1. CallerRuns /\ QueuePlace(Sending(mesg)) /\ UNCHANGED mutexVars
    BY <1>3, CallersRun, QueuePlaces DEF OSSendMessage, Call
  <2>2. CASE Full /\ Block(sendQueue, Sending(mesg))
    <3>1. UNCHANGED messageVars
      BY <2>2 DEF Block
    <3> QED
      BY <1>1, <2>1, <2>2, <3>1, BlockStep DEF Waited
  <2>3. CASE /\ ~Full /\ PutLast(mesg)
             /\ k' = WakeupThread(k, WaitQueue(recvQueue))
             /\ Return(k.current)
    BY <1>1, <2>1, <2>3, WakeStep DEF Stored, PutLast
  <2> QED
    BY <1>3, <2>2, <2>3 DEF OSSendMessage
<1>4. ASSUME NEW mesg \in Message, OSJamMessage(mesg)
      PROVE  KernelInv' /\ (Waited \/ Stored \/ Taken)
  <2>1. CallerRuns /\ QueuePlace(Jamming(mesg)) /\ UNCHANGED mutexVars
    BY <1>4, CallersRun, QueuePlaces DEF OSJamMessage, Call
  <2>2. CASE Full /\ Block(sendQueue, Jamming(mesg))
    <3>1. UNCHANGED messageVars
      BY <2>2 DEF Block
    <3> QED
      BY <1>1, <2>1, <2>2, <3>1, BlockStep DEF Waited
  <2>3. CASE /\ ~Full /\ PutFirst(mesg)
             /\ k' = WakeupThread(k, WaitQueue(recvQueue))
             /\ Return(k.current)
    <3>1. size' = size + 1
      BY <2>3 DEF PutFirst
    <3> QED
      BY <1>1, <2>1, <2>3, <3>1, WakeStep DEF Stored
  <2> QED
    BY <1>4, <2>2, <2>3 DEF OSJamMessage
<1>5. ASSUME NEW mesg \in Message, InterruptSend(mesg)
      PROVE  KernelInv' /\ (Waited \/ Stored \/ Taken)
  <2>1. /\ ~Full /\ size' = size + 1
        /\ k' = InHandler(LAMBDA s : WakeupThread(s, WaitQueue(recvQueue)))
        /\ pc' = pc /\ UNCHANGED mutexVars
    BY <1>5 DEF InterruptSend, PutLast, mutexVars
  <2> QED
    BY <1>1, <2>1, HandlerStep DEF Stored
<1> QED
  BY <1>2, <1>3, <1>4, <1>5 DEF QueueNext

\* What the three leave behind.
LEMMA SleepersStay ==
  ASSUME RingInv, SleepersInv, Waited \/ Stored \/ Taken
  PROVE  SleepersInv'
<1>1. /\ sendQueue \in UserQueue /\ recvQueue \in UserQueue
      /\ WaitQueue(sendQueue) # WaitQueue(recvQueue)
  BY MessageAssumption DEF WaitQueue
<1>2. size \in Nat /\ Capacity \in Nat
  BY MessageAssumption DEF RingInv
<1>3. CASE Waited
  BY <1>1, <1>3 DEF Waited, messageVars, SleepersInv, Empty, Full
<1>4. CASE Stored
  <2>1. ~Full' => ~Full
    BY <1>2, <1>4 DEF Stored, Full
  <2> QED
    BY <1>1, <1>4, <2>1 DEF Stored, SleepersInv, Quiet
<1>5. CASE Taken
  <2>1. ~Empty' => ~Empty
    BY <1>2, <1>5 DEF Taken, Empty
  <2> QED
    BY <1>1, <1>5, <2>1 DEF Taken, SleepersInv, Quiet
<1> QED
  BY <1>3, <1>4, <1>5

\* The inductive invariant of the message queue and the kernel below it.
MessageInv == KernelInv /\ RingInv /\ SleepersInv

\* Every step of the program keeps it.
LEMMA MessageStep ==
  ASSUME MessageInv, [MessageNext]_allVars
  PROVE  MessageInv'
<1>1. KernelInv /\ RingInv /\ SleepersInv
  BY DEF MessageInv
<1>2. RingInv'
  BY <1>1, StepRefines
<1>3. CASE QueueNext
  BY <1>1, <1>2, <1>3, QueueNextSteps, SleepersStay DEF MessageInv
<1>4. CASE /\ Next /\ UNCHANGED messageVars
           /\ ~OSSleepThread(sendQueue) /\ ~OSSleepThread(recvQueue)
  <2>1. KernelInv'
    BY <1>1, <1>4, KernelStep
  <2>2. sendQueue \in UserQueue /\ recvQueue \in UserQueue
    BY MessageAssumption
  <2>3. SleepersInv'
    BY <1>1, <1>4, <2>2, SleepersCome
       DEF SleepersInv, messageVars, Empty, Full
  <2> QED
    BY <1>2, <2>1, <2>3 DEF MessageInv
<1>5. CASE UNCHANGED allVars
  <2>1. UNCHANGED vars /\ UNCHANGED messageVars
    BY <1>5 DEF allVars
  <2>2. KernelInv'
    BY <1>1, <2>1, KernelStep
  <2>3. SleepersInv'
    BY <1>1, <2>1 DEF SleepersInv, vars, messageVars, Empty, Full, NoSleeper
  <2> QED
    BY <1>2, <2>2, <2>3 DEF MessageInv
<1> QED
  BY <1>3, <1>4, <1>5 DEF MessageNext

\* The calls of OSMessage.c do to the kernel only what its own calls do: its
\* data stay consistent below them, and nobody sleeps without reason.
THEOREM MessageQueueStaysSound == MessageSpec => []MessageInv
<1>1. MessageInit => MessageInv
  <2> SUFFICES ASSUME MessageInit PROVE MessageInv
    OBVIOUS
  <2>1. KernelInv /\ RingInv
    BY KernelInit, RingInit DEF MessageInit
  <2>2. \A q : NoSleeper(k, q)
    BY DEF MessageInit, Init, NoSleeper
  <2> QED
    BY <2>1, <2>2 DEF MessageInv, SleepersInv
<1>2. MessageInv /\ [MessageNext]_allVars => MessageInv'
  BY MessageStep
<1> QED
  BY <1>1, <1>2, PTL DEF MessageSpec

\* No wakeup is lost: for any capacity, threads and handlers, a receiver
\* sleeps only while the queue is empty and a sender only while it is full,
\* whoever overtakes, suspends, resumes or cancels them.
THEOREM NoLostMessageWakeup == MessageSpec => []SleepersMustWait
<1>1. MessageInv => SleepersMustWait
  <2> SUFFICES ASSUME MessageInv PROVE SleepersMustWait
    OBVIOUS
  <2>1. Good(k, {}) /\ SleepersInv
    BY DEF MessageInv, KernelInv, ConsistentNow, Consistent
  <2>2. /\ WaitQueue(sendQueue) \in BlockingQueues
        /\ WaitQueue(recvQueue) \in BlockingQueues
    BY MessageAssumption, QueueNames
  <2> QED
    BY <2>1, <2>2, NobodyQueued DEF SleepersInv, SleepersMustWait
<1> QED
  BY <1>1, MessageQueueStaysSound, PTL
=============================================================================
