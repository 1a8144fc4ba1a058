---------------------------- MODULE MCOSThread ----------------------------
(* Small instances of the kernel for TLC. *)
EXTENDS OSThread, TLC

CONSTANTS t0, t1, t2, t3, m1, m2

MCThreads == {t0, t1, t2}
FourThreads == {t0, t1, t2, t3}

\* The calls that create, end, suspend and schedule threads.
LifecycleCalls ==
    {"OSCreateThread", "OSExitThread", "OSCancelThread", "OSJoinThread",
     "OSDetachThread", "OSResumeThread", "OSSuspendThread",
     "OSSleepThread", "OSWakeupThread"}

\* The calls that need a switch, with the scheduler disabled now and then.
PreemptionCalls ==
    {"OSCreateThread", "OSResumeThread", "OSSuspendThread", "OSSleepThread",
     "OSWakeupThread", "OSSetThreadPriority", "OSYieldThread",
     "OSSleepTicks", "OSDisableScheduler"}

\* The calls that make priorities and mutexes interact.
MutexCalls ==
    {"OSCreateThread", "OSExitThread", "OSCancelThread", "OSResumeThread",
     "OSSuspendThread", "OSSetThreadPriority", "OSLockMutex",
     "OSTryLockMutex", "OSUnlockMutex"}

\* The calls that end threads which own mutexes and are waited for.
TerminationCalls ==
    {"OSCreateThread", "OSExitThread", "OSCancelThread", "OSJoinThread",
     "OSResumeThread", "OSLockMutex", "OSTryLockMutex", "OSUnlockMutex"}

Handlers == {"OSResumeThread", "OSWakeupThread"}

InheritanceCalls ==
    {"OSCreateThread", "OSResumeThread", "OSLockMutex", "OSUnlockMutex"}

\* The program locks m1 before m2, so that its threads do not deadlock.
InOrder ==
    \A t \in Thread :
      owner[m2] = t
        => pc'[t] # Locking(m1) /\ (owner'[m1] = t => owner[m1] = t)

OrderedSpec == Init /\ [][Next /\ InOrder]_vars /\ Fairness

ThreadSymmetry == Permutations({t1, t2}) \cup Permutations(Mutex)
=============================================================================
