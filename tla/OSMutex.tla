------------------------------ MODULE OSMutex ------------------------------
(***************************************************************************)
(* revolution/OS/OSMutex.c: recursive mutexes with priority inheritance.   *)
(* An unlock wakes every waiter, and each waiter tries again from the loop *)
(* of OSLockMutex when it runs.                                            *)
(***************************************************************************)
EXTENDS OSKernel

CONSTANT MaxLock      \* bound on the recursive locks of a mutex

ASSUME MutexAssumption == MaxLock \in Nat \ {0}

\* mutex->thread = currThread, mutex->lock++, and the mutex goes to the tail
\* of the thread's mutexQueue.
TakeMutex(m, t) ==
    /\ owner' = [owner EXCEPT ![m] = t]
    /\ lock' = [lock EXCEPT ![m] = @ + 1]
    /\ mutexQueue' = [mutexQueue EXCEPT ![t] = Append(@, m)]

\* Mutant: any thread counts as the owner.
LockAgainAnyThread(m) ==
    /\ owner[m] # NULL
    /\ lock[m] < MaxLock
    /\ lock' = [lock EXCEPT ![m] = @ + 1]
    /\ UNCHANGED <<k, owner, mutexQueue, pc>>

LockAgain(m) ==
    /\ owner[m] = k.current
    /\ lock[m] < MaxLock
    /\ lock' = [lock EXCEPT ![m] = @ + 1]
    /\ UNCHANGED <<k, owner, mutexQueue, pc>>

\* Mutant: the owner is not promoted.
BlockWithoutPromotion(m, kk) ==
    /\ owner[m] \notin {NULL, k.current}
    /\ k' = SleepThread([kk EXCEPT !.mutex[k.current] = m], MutexWait(m))
    /\ Resumes(k.current, Locking(m))
    /\ UNCHANGED mutexVars

\* The last branch of the loop: promote the owner and sleep.
BlockOnMutex(m, kk) ==
    LET t == k.current
        blocked == [kk EXCEPT !.mutex[t] = m]
        promoted == __OSPromoteThread(blocked, owner[m], k.priority[t])
    IN  /\ owner[m] \notin {NULL, t}
        /\ k' = SleepThread(promoted, MutexWait(m))
        /\ Resumes(t, Locking(m))
        /\ UNCHANGED mutexVars

OSLockMutex(m) ==
    /\ Call("OSLockMutex")
    /\ \/ owner[m] = NULL /\ TakeMutex(m, k.current) /\ UNCHANGED <<k, pc>>
       \/ LockAgain(m)
       \/ MayBlock /\ BlockOnMutex(m, k)

\* The waiter is back from OSSleepThread: thread->mutex = NULL, and again.
OSLockMutexRetry(m) ==
    LET awake == [k EXCEPT !.mutex[k.current] = NULL]
    IN  /\ Continues(Locking(m))
        /\ \/ /\ owner[m] = NULL
              /\ TakeMutex(m, k.current)
              /\ k' = awake
              /\ Return(k.current)
           \/ BlockOnMutex(m, awake)

OSTryLockMutex(m) ==
    /\ Call("OSTryLockMutex")
    /\ \/ owner[m] = NULL /\ TakeMutex(m, k.current) /\ UNCHANGED <<k, pc>>
       \/ LockAgain(m)

\* Mutants: the inherited priority is kept; the waiters are not woken.
ReleaseKeepsPriority(m) ==
    /\ lock[m] = 1
    /\ lock' = [lock EXCEPT ![m] = 0]
    /\ owner' = [owner EXCEPT ![m] = NULL]
    /\ mutexQueue' = [mutexQueue EXCEPT ![k.current] = Unlink(@, m)]
    /\ k' = WakeupThread(k, MutexWait(m))
    /\ UNCHANGED pc

ReleaseWakesNobody(m) ==
    /\ lock[m] = 1
    /\ lock' = [lock EXCEPT ![m] = 0]
    /\ owner' = [owner EXCEPT ![m] = NULL]
    /\ mutexQueue' = [mutexQueue EXCEPT ![k.current] = Unlink(@, m)]
    /\ UNCHANGED <<k, pc>>

\* The last unlock gives up an inherited priority before it wakes the waiters.
ReleaseMutex(m) ==
    LET t  == k.current
        mq == [mutexQueue EXCEPT ![t] = Unlink(@, m)]
        lowered == IF k.priority[t] < k.base[t]
                   THEN [k EXCEPT !.priority[t] =
                                     __OSGetEffectivePriority(k, mq, t)]
                   ELSE k
    IN  /\ lock[m] = 1
        /\ lock' = [lock EXCEPT ![m] = 0]
        /\ owner' = [owner EXCEPT ![m] = NULL]
        /\ mutexQueue' = mq
        /\ k' = WakeupThread(lowered, MutexWait(m))
        /\ UNCHANGED pc

OSUnlockMutex(m) ==
    /\ Call("OSUnlockMutex")
    /\ owner[m] = k.current
    /\ \/ ReleaseMutex(m)
       \/ /\ lock[m] > 1
          /\ lock' = [lock EXCEPT ![m] = @ - 1]
          /\ UNCHANGED <<k, owner, mutexQueue, pc>>

\* Mutants: the lock count, or the owner, of a mutex is not reset.
UnlockAllKeepsLock(t) ==
    /\ Continues(Terminating(t)) /\ mutexQueue[t] # <<>>
    /\ mutexQueue' = [mutexQueue EXCEPT ![t] = Tail(@)]
    /\ owner' = [owner EXCEPT ![Head(mutexQueue[t])] = NULL]
    /\ k' = WakeupThread(k, MutexWait(Head(mutexQueue[t])))
    /\ UNCHANGED <<lock, pc>>

UnlockAllKeepsOwner(t) ==
    /\ Continues(Terminating(t)) /\ mutexQueue[t] # <<>>
    /\ mutexQueue' = [mutexQueue EXCEPT ![t] = Tail(@)]
    /\ lock' = [lock EXCEPT ![Head(mutexQueue[t])] = 0]
    /\ k' = WakeupThread(k, MutexWait(Head(mutexQueue[t])))
    /\ UNCHANGED <<owner, pc>>

\* One iteration of the loop; OSWakeupThread may switch the caller out of it.
__OSUnlockAllMutex(t) ==
    /\ Continues(Terminating(t))
    /\ mutexQueue[t] # <<>>
    /\ LET m == Head(mutexQueue[t])
       IN  /\ mutexQueue' = [mutexQueue EXCEPT ![t] = Tail(@)]
           /\ lock' = [lock EXCEPT ![m] = 0]
           /\ owner' = [owner EXCEPT ![m] = NULL]
           /\ k' = WakeupThread(k, MutexWait(m))
    /\ UNCHANGED pc
=============================================================================
