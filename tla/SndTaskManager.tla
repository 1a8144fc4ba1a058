--------------------------- MODULE SndTaskManager ---------------------------
(***************************************************************************)
(* nw4r/snd/snd_TaskManager.cpp and snd_TaskThread.cpp: tasks of three     *)
(* priorities that one thread executes, and the threads that append tasks, *)
(* cancel them and wait until a cancelled one is no longer executed.       *)
(*                                                                         *)
(* A section with interrupts locked is one step of the thread in it.  What *)
(* a task does, and what its Cancel and OnCancel do, is its owner's.       *)
(***************************************************************************)
EXTENDS Integers, Sequences, FiniteSets, SequencesExt

CONSTANTS
    Task,    \* the Task objects
    Client,  \* the threads that use the task manager
    NULL

VARIABLES
    tm,      \* the fields of TaskManager, and TaskThread::mFinishFlag
    worker,  \* where the task thread is, and its local variable pTask
    waiting  \* the clients in mDoneThreadQueue

TaskPriority == {"high", "middle", "low"}

TaskInit ==
    /\ tm = [list |-> [p \in TaskPriority |-> <<>>], current |-> NULL,
             cancelWait |-> FALSE, finish |-> FALSE]
    /\ worker = [at |-> "test", task |-> NULL]
    /\ waiting = {}

-----------------------------------------------------------------------------
(* The lists. *)

Queued(t) == \E p \in TaskPriority : t \in Range(tm.list[p])

MostUrgent(list) ==
    IF list["high"] # <<>> THEN "high"
    ELSE IF list["middle"] # <<>> THEN "middle" ELSE "low"

GetNextTask(list) ==
    IF list[MostUrgent(list)] = <<>> THEN NULL ELSE Head(list[MostUrgent(list)])

\* OSWakeupThread(&mAppendThreadQueue).
Woken(w) == IF w.at = "asleep" THEN [w EXCEPT !.at = "woken"] ELSE w

AppendTask(t, p) ==
    /\ tm' = [tm EXCEPT !.list[p] = Append(@, t)]
    /\ worker' = Woken(worker)

\* Mutant: only the list of the default priority is searched.
DequeueDefault(s, t) == [s EXCEPT !.list["middle"] = RemoveFirst(@, t)]

\* The loop of CancelTask that erases a task that was not begun; a task is
\* linked once.
Dequeue(s, t) ==
    [s EXCEPT !.list = [p \in TaskPriority |-> RemoveFirst(@[p], t)]]

-----------------------------------------------------------------------------
(* The task thread: ThreadProc, WaitTask, ExecuteTask. *)

At(place) == worker.at = place

Ready == worker.at \notin {"asleep", "reading", "exited"}

WorkerGoes(place) == worker' = [worker EXCEPT !.at = place]

\* "while (!mFinishFlag)"
TestFinish ==
    /\ At("test")
    /\ WorkerGoes(IF tm.finish THEN "exited" ELSE "wait")
    /\ UNCHANGED <<tm, waiting>>

WaitTask ==
    LET cancelWait == tm.cancelWait /\ At("woken")
        idle == GetNextTask(tm.list) = NULL /\ ~cancelWait
    IN  /\ At("wait") \/ At("woken")
        /\ tm' = [tm EXCEPT !.cancelWait = cancelWait]
        /\ WorkerGoes(IF idle THEN "asleep" ELSE "check")
        /\ UNCHANGED waiting

CheckFinish ==
    /\ At("check")
    /\ WorkerGoes(IF tm.finish THEN "exited" ELSE "pop")
    /\ UNCHANGED <<tm, waiting>>

PopTask ==
    LET t == GetNextTask(tm.list)
    IN  /\ At("pop")
        /\ worker' = [at |-> IF t = NULL THEN "test" ELSE "popped", task |-> t]
        /\ tm' = IF t = NULL THEN tm
                 ELSE [tm EXCEPT !.list[MostUrgent(tm.list)] = Tail(@)]
        /\ UNCHANGED waiting

BeginTask ==
    /\ At("popped")
    /\ tm' = [tm EXCEPT !.current = worker.task]
    /\ WorkerGoes("execute")
    /\ UNCHANGED waiting

\* Mutant: the task stays the current one.
EndTaskKeepsCurrent ==
    /\ At("executed")
    /\ WorkerGoes("done")
    /\ UNCHANGED <<tm, waiting>>

EndTask ==
    /\ At("executed")
    /\ tm' = [tm EXCEPT !.current = NULL]
    /\ WorkerGoes("done")
    /\ UNCHANGED waiting

\* OSWakeupThread(&mDoneThreadQueue).
WakeWaiters ==
    /\ At("done")
    /\ waiting' = {}
    /\ worker' = [at |-> "test", task |-> NULL]
    /\ UNCHANGED tm

WorkerStep ==
    \/ TestFinish \/ WaitTask \/ CheckFinish \/ PopTask
    \/ BeginTask \/ EndTask \/ WakeWaiters

CancelWaitTask(s) ==
    /\ tm' = [s EXCEPT !.cancelWait = TRUE]
    /\ worker' = Woken(worker)
=============================================================================
