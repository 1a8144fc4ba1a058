--------------------------- MODULE EggTaskThread ---------------------------
(***************************************************************************)
(* egg/core/eggTaskThread.cpp: a thread that runs the jobs of a fixed list *)
(* of slots in the order of its message queue, and reports the end of each *)
(* by a message.  Its requests come from one more urgent thread, which may *)
(* run between any two steps of this one.                                  *)
(***************************************************************************)
EXTENDS Integers, Sequences, FiniteSets

CONSTANTS
    JobNum,  \* mJobNum, which is mMesgNum too
    EndNum,  \* the size of mEndMesgQueue
    NULL     \* no pTask, no pJob

ASSUME JobAssumption == JobNum \in Nat \ {0} /\ EndNum \in Nat \ {0}

VARIABLES
    pTask,   \* mJobList: what each slot has to run
    queue,   \* mMesgQueue: the slots to run
    thread,  \* where the thread is, and its pJob
    ended    \* the messages in mEndMesgQueue

taskVars == <<pTask, queue, thread, ended>>

Slot == 1 .. JobNum

TaskThreadInit ==
    /\ pTask = [j \in Slot |-> NULL]
    /\ queue = <<>> /\ ended = <<>>
    /\ thread = [at |-> "receive", job |-> NULL]

-----------------------------------------------------------------------------
(* request. *)

Blank == {j \in Slot : pTask[j] = NULL}

FindBlank == CHOOSE j \in Blank : \A i \in Blank : j <= i

\* A request finds no blank slot, or no room in the queue, or is queued.
Request(task) ==
    IF Blank # {} /\ Len(queue) < JobNum
    THEN /\ pTask' = [pTask EXCEPT ![FindBlank] = task]
         /\ queue' = Append(queue, FindBlank)
    ELSE UNCHANGED <<pTask, queue>>

-----------------------------------------------------------------------------
(* run. *)

ThreadGoes(place) == thread' = [thread EXCEPT !.at = place]

WaitMessageBlock ==
    /\ thread.at = "receive" /\ queue # <<>>
    /\ thread' = [at |-> "test", job |-> Head(queue)]
    /\ queue' = Tail(queue)
    /\ UNCHANGED <<pTask, ended>>

\* "if (pJob->pTask != NULL)"; the slot may have been cleared meanwhile.
TestTask ==
    /\ thread.at = "test"
    /\ ThreadGoes(IF pTask[thread.job] = NULL THEN "blank" ELSE "call")
    /\ UNCHANGED <<pTask, queue, ended>>

\* Mutant: the end of a task is not reported.
SendEndMessageNot ==
    /\ thread.at = "report"
    /\ ThreadGoes("blank")
    /\ UNCHANGED <<pTask, queue, ended>>

\* Without OS_MSG_BLOCKING: a message that does not fit is lost.
SendEndMessage ==
    /\ thread.at = "report"
    /\ ended' = IF Len(ended) < EndNum
                THEN Append(ended, thread.job) ELSE ended
    /\ ThreadGoes("blank")
    /\ UNCHANGED <<pTask, queue>>

ResetTask ==
    /\ thread.at = "blank"
    /\ pTask' = [pTask EXCEPT ![thread.job] = NULL]
    /\ ThreadGoes("clear")
    /\ UNCHANGED <<queue, ended>>

\* clearFunctions resets pTask once more.
ClearFunctions ==
    /\ thread.at = "clear"
    /\ pTask' = [pTask EXCEPT ![thread.job] = NULL]
    /\ thread' = [at |-> "receive", job |-> NULL]
    /\ UNCHANGED <<queue, ended>>

ThreadStep ==
    \/ WaitMessageBlock \/ TestTask
    \/ SendEndMessage \/ ResetTask \/ ClearFunctions
=============================================================================
