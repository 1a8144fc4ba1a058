----------------------------- MODULE SndSystem -----------------------------
(***************************************************************************)
(* nw4r/snd/snd_SoundSystem.cpp and snd_SeqSound.cpp over the task manager *)
(* and a stream: the main thread shuts the sound system down and starts it *)
(* again while sounds load.  The sound thread stops the players and ends,  *)
(* the tasks left are cancelled, and the task thread is told to end.       *)
(***************************************************************************)
EXTENDS SndStrmPlayer

CONSTANT SeqTask  \* mSeqLoadTask of the sequence sounds

ASSUME SeqAssumption ==
    SeqTask = Task \ ({Header} \cup DataTask)

VARIABLE seq  \* the sequence sound of each load task

vars == <<tm, worker, waiting, strm, pc, target, seq>>

Init ==
    /\ TaskInit /\ StrmInit
    /\ pc = [c \in Client |-> IF c = "main" THEN "user" ELSE "idle"]
    /\ target = [c \in Client |-> NULL]
    /\ seq = [t \in SeqTask |-> [state |-> "free", callback |-> FALSE]]

-----------------------------------------------------------------------------
(* SeqSound: Prepare, the load task, Shutdown. *)

SeqPrepare(t) ==
    /\ InMain /\ seq[t].state = "free"
    /\ seq' = [seq EXCEPT ![t] = [state |-> "loading", callback |-> TRUE]]
    /\ AppendTask(t, "middle")
    /\ UNCHANGED <<waiting, strm, pc, target>>

SeqBegin ==
    /\ At("execute") /\ worker.task \in SeqTask
    /\ WorkerGoes("reading")
    /\ UNCHANGED <<tm, waiting, strm, pc, target, seq>>

\* NotifyLoadAsyncEndSeqData; a failed load shuts the sound down.
Notified(sound, success) ==
    [sound EXCEPT !.state = IF success THEN "prepared" ELSE "free"]

SeqRead(t, success) ==
    /\ At("reading") /\ worker.task = t
    /\ seq' = IF seq[t].callback
              THEN [seq EXCEPT ![t] = Notified(@, success)] ELSE seq
    /\ WorkerGoes("executed")
    /\ UNCHANGED <<tm, waiting, strm, pc, target>>

\* SeqLoadTask::OnCancel.
SeqOnCancel(sounds, t) ==
    IF t \in SeqTask THEN [sounds EXCEPT ![t].callback = FALSE] ELSE sounds

\* A sound whose load is still queued is left alone: README.md, section 6.
SeqShutdown(t) ==
    /\ InMain /\ seq[t].state # "free" /\ ~Queued(t)
    /\ IF tm.current = t
       THEN /\ seq' = SeqOnCancel(seq, t)
            /\ waiting' = waiting \cup {"main"}
            /\ target' = [target EXCEPT !["main"] = t]
            /\ ClientGoes("main", "seqEnds")
       ELSE /\ seq' = [seq EXCEPT ![t].state = "free"]
            /\ UNCHANGED <<waiting, pc, target>>
    /\ UNCHANGED <<tm, worker, strm>>

SeqClose ==
    /\ pc["main"] = "seqEnds" /\ Runs("main") /\ tm.current # target["main"]
    /\ seq' = [seq EXCEPT ![target["main"]].state = "free"]
    /\ target' = [target EXCEPT !["main"] = NULL]
    /\ ClientGoes("main", "user")
    /\ UNCHANGED <<tm, worker, waiting, strm>>

-----------------------------------------------------------------------------
(* ShutdownSoundSystem and InitSoundSystem. *)

\* SoundThread::Shutdown jams MSG_SHUTDOWN and joins.
ShutdownSoundSystem ==
    /\ InMain
    /\ ClientGoes("main", "joinSound")
    /\ UNCHANGED <<tm, worker, waiting, strm, target, seq>>

\* MSG_SHUTDOWN: OnShutdownSoundThread of the registered player, then the end.
SoundShutdown ==
    /\ pc["sound"] = "idle" /\ pc["main"] = "joinSound" /\ ~Ready
    /\ IF strm.registered
       THEN Release("sound", "cancelHeader")
       ELSE ClientGoes("sound", "exited")
            /\ UNCHANGED <<tm, worker, waiting, strm, target>>
    /\ UNCHANGED seq

JoinSound ==
    /\ pc["main"] = "joinSound" /\ pc["sound"] = "exited" /\ Runs("main")
    /\ ClientGoes("main", "cancelAll")
    /\ UNCHANGED <<tm, worker, waiting, strm, target, seq>>

\* The tasks in S that are in the player's list are told by Cancel to leave it.
Without(list, S) ==
    IF Range(list) \cap S = {} THEN list
                              ELSE SelectSeq(list, LAMBDA t : t \notin S)

CancelAllTask ==
    LET busy == tm.current # NULL
        told == [t \in SeqTask |->
                   IF Queued(t) THEN Notified(seq[t], FALSE) ELSE seq[t]]
    IN  /\ pc["main"] = "cancelAll" /\ Runs("main")
        /\ tm' = [tm EXCEPT !.list = [p \in TaskPriority |-> <<>>]]
        /\ seq' = SeqOnCancel(told, tm.current)
        /\ strm' = [strm EXCEPT
                      !.list = Without(@, {t \in Task : Queued(t)}),
                      !.cancel = @ \/ tm.current \in {Header} \cup DataTask]
        /\ waiting' = IF busy THEN waiting \cup {"main"} ELSE waiting
        /\ ClientGoes("main", IF busy THEN "awaitAll" ELSE "destroy")
        /\ UNCHANGED <<worker, target>>

AwaitAll ==
    /\ pc["main"] = "awaitAll" /\ Runs("main")
    /\ IF tm.current # NULL
       THEN waiting' = waiting \cup {"main"} /\ UNCHANGED pc
       ELSE ClientGoes("main", "destroy") /\ UNCHANGED waiting
    /\ UNCHANGED <<tm, worker, strm, target, seq>>

\* TaskThread::Destroy.
Destroy ==
    /\ pc["main"] = "destroy" /\ Runs("main")
    /\ CancelWaitTask([tm EXCEPT !.finish = TRUE])
    /\ ClientGoes("main", "joinTask")
    /\ UNCHANGED <<waiting, strm, target, seq>>

\* The rest of ShutdownSoundSystem; VoiceManager::Shutdown frees the voices.
JoinTask ==
    /\ pc["main"] = "joinTask" /\ At("exited")
    /\ strm' = [strm EXCEPT !.voice = FALSE]
    /\ ClientGoes("main", "down")
    /\ UNCHANGED <<tm, worker, waiting, target, seq>>

\* InitSoundSystem creates the two threads.
InitSoundSystem ==
    /\ pc["main"] = "down"
    /\ tm' = [tm EXCEPT !.finish = FALSE]
    /\ worker' = [at |-> "test", task |-> NULL]
    /\ pc' = [main |-> "user", sound |-> "idle"]
    /\ UNCHANGED <<waiting, strm, target, seq>>

-----------------------------------------------------------------------------
(* The specification. *)

StreamCalls ==
    \/ Prepare \/ Start \/ Shutdown
    \/ UpdateBuffer \/ DropVoice \/ UpdateStops

StreamStops(c) == StopStep(c) /\ UNCHANGED seq

MainStops ==
    \/ (StopReleases \/ DestroyPlayer) /\ UNCHANGED seq
    \/ SeqClose

SystemStops ==
    \/ SoundShutdown \/ JoinSound \/ CancelAllTask \/ AwaitAll
    \/ Destroy \/ JoinTask

Loads ==
    \/ LoadStep /\ UNCHANGED seq
    \/ SeqBegin
    \/ \E t \in SeqTask, success \in BOOLEAN : SeqRead(t, success)

Works == WorkerStep /\ UNCHANGED <<strm, pc, target, seq>>

Next ==
    \/ Works \/ Loads
    \/ StreamCalls /\ UNCHANGED seq
    \/ \E c \in Client : StreamStops(c)
    \/ MainStops \/ SystemStops
    \/ \E t \in SeqTask : SeqPrepare(t) \/ SeqShutdown(t)
    \/ ShutdownSoundSystem \/ InitSoundSystem

Spec == Init /\ [][Next]_vars

\* The task thread is the most urgent and reads end.  While the disk reads, the
\* less urgent threads run, again and again: a blocked client gets its turn.
Fairness ==
    /\ WF_vars(Works) /\ WF_vars(Loads)
    /\ SF_vars(MainStops) /\ SF_vars(SystemStops)
    /\ \A c \in Client : SF_vars(StreamStops(c))

FairSpec == Spec /\ Fairness

-----------------------------------------------------------------------------
(* Properties. *)

MainPlaces ==
    {"user", "stop", "cancelHeader", "headerEnds", "cancelData", "dataEnds",
     "free", "seqEnds", "joinSound", "cancelAll", "awaitAll",
     "destroy", "joinTask", "down"}
SoundPlaces ==
    {"idle", "cancelHeader", "headerEnds", "cancelData", "dataEnds", "exited"}
WorkerPlaces ==
    {"test", "wait", "asleep", "woken", "check", "pop", "popped", "execute",
     "reading", "blocks", "executed", "done", "exited"}

Executes(t) ==
    /\ worker.task = t
    /\ worker.at \in {"popped", "execute", "reading", "blocks"}

\* The fields have their types.  A client sleeps only in a wait for the end of
\* a task, and the current task is the one the task thread took
\* (TaskManager::ExecuteTask).
TypeOK ==
    /\ tm.list \in [TaskPriority -> Seq(Task)]
    /\ tm.cancelWait \in BOOLEAN /\ tm.finish \in BOOLEAN
    /\ tm.current \in {NULL, worker.task}
    /\ worker.at \in WorkerPlaces /\ worker.task \in Task \cup {NULL}
    /\ pc["main"] \in MainPlaces /\ pc["sound"] \in SoundPlaces
    /\ \A c \in waiting :
         pc[c] \in {"headerEnds", "dataEnds", "seqEnds", "awaitAll"}
    /\ strm.counter \in 0..Blocks
    /\ \A t \in SeqTask : seq[t].state \in {"free", "loading", "prepared"}

\* The task thread never reads a file that was closed under it, and never
\* works for a sound that was freed: Stop and Shutdown wait until a task that
\* is executed has ended (TaskManager::CancelTask).
WorkerFileOpen ==
    /\ \A t \in {Header} \cup DataTask : Executes(t) => strm.open
    /\ \A t \in SeqTask : Executes(t) => seq[t].state # "free"

\* Besides types: mStrmDataLoadTaskList holds exactly the data tasks that are
\* queued or executed, each once: a task in it alone makes the loop of Stop spin
\* for ever, and one that is missing is run after its block was freed.
DataTasksExact ==
    LET s == tm.list["high"] \o tm.list["middle"] \o tm.list["low"]
    IN  /\ TypeOK
        /\ IsInjective(s) /\ IsInjective(strm.list)
        /\ \A t \in DataTask :
             t \in Range(strm.list) <=> (Queued(t) \/ Executes(t))

\* When the object of a stream is freed no thread uses it: it is not
\* registered, no task of it is queued or executed, and it gave its channels
\* and its voice back, also when its header was loaded while it was stopped
\* (~StrmPlayer).
FreedIsClean ==
    ~strm.alive =>
        /\ ~strm.registered /\ ~strm.open /\ ~strm.channels /\ ~strm.voice
        /\ \A t \in {Header} \cup DataTask : ~Queued(t) /\ ~Executes(t)

\* Whoever stops a stream or a sequence, or waits for the end of its load,
\* returns: no wakeup of mDoneThreadQueue is missed.
StopEnds ==
    /\ (pc["main"] \in {"stop", "seqEnds"}) ~> (pc["main"] = "user")
    /\ (pc["sound"] = "cancelHeader") ~> (pc["sound"] \in {"idle", "exited"})

\* ShutdownSoundSystem returns, whatever is loaded at that moment: both threads
\* end (TaskThread::Destroy, SoundThread::Shutdown).
SystemShutdownEnds == (pc["main"] = "joinSound") ~> (pc["main"] = "down")
=============================================================================
