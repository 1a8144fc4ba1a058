--------------------------- MODULE SndStrmPlayer ---------------------------
(***************************************************************************)
(* nw4r/snd/snd_StrmPlayer.cpp: a stream whose header and data blocks are  *)
(* loaded by tasks.  The main thread prepares, starts and stops it, the    *)
(* sound thread stops it after an error, the task thread loads, and the    *)
(* audio interrupt asks for the next block.                                *)
(*                                                                         *)
(* The sound thread's mutex is held for a whole sound frame, and by the    *)
(* main thread within single steps.                                        *)
(***************************************************************************)
EXTENDS SndTaskManager

CONSTANTS
    Header,    \* mStrmHeaderLoadTask
    DataTask,  \* mStrmDataLoadTaskArea
    Blocks     \* mBufferBlockCountBase: the blocks to load before the start

ASSUME StrmAssumption ==
    /\ Header \in Task /\ DataTask \subseteq Task /\ Header \notin DataTask
    /\ IsFiniteSet(DataTask)
    /\ NULL \notin Task /\ Client = {"main", "sound"}
    /\ Blocks \in Nat \ {0} /\ Blocks <= Cardinality(DataTask)

VARIABLES
    strm,   \* the fields of StrmPlayer
    pc,     \* where the clients are
    target  \* the data task the client in Stop waits for

StrmInit ==
    strm = [alive |-> FALSE, active |-> FALSE, prepared |-> FALSE, started |-> FALSE,
            error |-> FALSE, cancel |-> FALSE, open |-> FALSE,
            channels |-> FALSE, voice |-> FALSE, registered |-> FALSE,
            loadFinish |-> FALSE, list |-> <<>>, counter |-> 0,
            abortable |-> TRUE]

ClientGoes(c, place) == pc' = [pc EXCEPT ![c] = place]

\* The task thread is the most urgent, then the sound thread, then main: the
\* default priorities 3, 4 and 16 of SoundSystem.
SoundReady == pc["sound"] \notin {"idle", "exited"} /\ "sound" \notin waiting
Runs(c) ==
    /\ ~Ready /\ c \notin waiting
    /\ c = "main" => ~SoundReady

\* The sound thread holds its mutex from the begin to the end of a frame.
InSoundFrame == pc["sound"] \notin {"idle", "exited"}

-----------------------------------------------------------------------------
(* Loading. *)

LoadedAll == strm.loadFinish \/ strm.counter = Blocks

\* UpdateLoadingBlockIndex: a task of the pool for the next block, which may be
\* the last.  Which free task it is makes no difference.
LoadNextBlock(last) ==
    LET t        == CHOOSE d \in DataTask : d \notin Range(strm.list)
        priority == IF strm.started THEN "high" ELSE "middle"
    IN  /\ strm' = [strm EXCEPT !.list = Append(@, t), !.loadFinish = last,
                                !.counter = IF At("blocks") THEN @ + 1 ELSE @]
        /\ tm' = [tm EXCEPT !.list[priority] = Append(@, t)]

BeginRead ==
    /\ At("execute") /\ worker.task \in {Header} \cup DataTask
    /\ WorkerGoes("reading")
    /\ UNCHANGED <<tm, waiting, strm, pc, target>>

\* A read that was cancelled fails if the stream allows for it.
MaySucceed == ~(strm.cancel /\ strm.abortable)

HeaderFails ==
    /\ At("reading") /\ worker.task = Header
    /\ strm' = [strm EXCEPT !.error = TRUE]
    /\ WorkerGoes("executed")
    /\ UNCHANGED <<tm, waiting, pc, target>>

\* LoadHeader and SetupPlayer up to AllocChannels.
HeaderLoaded ==
    /\ At("reading") /\ worker.task = Header /\ MaySucceed
    /\ strm' = [strm EXCEPT !.channels = TRUE, !.voice = TRUE, !.counter = 0]
    /\ WorkerGoes("blocks")
    /\ UNCHANGED <<tm, waiting, pc, target>>

\* The loop at the end of LoadHeader.
LoadFirstBlocks ==
    /\ At("blocks")
    /\ \/ LoadedAll /\ WorkerGoes("executed") /\ UNCHANGED <<tm, strm>>
       \/ /\ ~LoadedAll
          /\ \E last \in BOOLEAN : LoadNextBlock(last)
          /\ UNCHANGED worker
    /\ UNCHANGED <<waiting, pc, target>>

\* Mutant: the task stays in the player's list.
DataReadKeepsTask(ok) ==
    LET fewer == ok /\ ~strm.prepared
    IN  /\ At("reading") /\ worker.task \in DataTask /\ (ok => MaySucceed)
        /\ strm' = [strm EXCEPT
                      !.error = @ \/ ~ok,
                      !.prepared = @ \/ (fewer /\ strm.counter = 1),
                      !.counter = IF fewer THEN @ - 1 ELSE @]
        /\ WorkerGoes("executed")
        /\ UNCHANGED <<tm, waiting, pc, target>>

\* The end of StrmDataLoadTask::Execute erases the task from the player's list.
DataRead(ok) ==
    LET last == ok /\ ~strm.prepared /\ strm.counter = 1
        fewer == ok /\ ~strm.prepared
    IN  /\ At("reading") /\ worker.task \in DataTask /\ (ok => MaySucceed)
        /\ strm' = [strm EXCEPT
                      !.error = @ \/ ~ok, !.prepared = @ \/ last,
                      !.counter = IF fewer THEN @ - 1 ELSE @,
                      !.list = RemoveFirst(@, worker.task)]
        /\ WorkerGoes("executed")
        /\ UNCHANGED <<tm, waiting, pc, target>>

\* UpdateBuffer in the audio interrupt, when a block was played.  A pause of
\* the voice only delays it.
UpdateBuffer ==
    /\ pc["sound"] # "exited" /\ strm.registered
    /\ strm.started /\ strm.voice /\ ~strm.loadFinish
    /\ Len(strm.list) < Blocks - 2
    /\ \E last \in BOOLEAN : LoadNextBlock(last)
    /\ worker' = Woken(worker)
    /\ UNCHANGED <<waiting, pc, target>>

\* VoiceCallbackFunc.
DropVoice ==
    /\ strm.voice
    /\ strm' = [strm EXCEPT !.voice = FALSE]
    /\ UNCHANGED <<tm, worker, waiting, pc, target>>

-----------------------------------------------------------------------------
(* The calls of the main thread. *)

InMain == pc["main"] = "user" /\ Runs("main")

\* Setup and Prepare of a new sound, whose header load can be aborted or not.
Prepare ==
    /\ InMain /\ ~InSoundFrame /\ ~strm.alive
    /\ \E abortable \in BOOLEAN :
         strm' = [strm EXCEPT !.alive = TRUE, !.active = TRUE,
                              !.registered = TRUE, !.open = TRUE,
                              !.error = FALSE, !.cancel = FALSE,
                              !.loadFinish = FALSE, !.abortable = abortable]
    /\ AppendTask(Header, "middle")
    /\ UNCHANGED <<waiting, pc, target>>

Start ==
    /\ InMain /\ ~InSoundFrame
    /\ strm.prepared /\ ~strm.started
    /\ strm' = [strm EXCEPT !.started = TRUE]
    /\ UNCHANGED <<tm, worker, waiting, pc, target>>

\* StrmSound::Shutdown: BasicSound::Shutdown calls Stop if IsActive, and then
\* mManager->Free calls the destructor.
Shutdown ==
    /\ InMain /\ strm.alive
    /\ ClientGoes("main", IF strm.active THEN "stop" ELSE "free")
    /\ UNCHANGED <<tm, worker, waiting, strm, target>>

\* The fields that the next sound sets before it reads them have no value.
Destroyed(s) ==
    [s EXCEPT !.alive = FALSE, !.abortable = TRUE, !.loadFinish = FALSE,
              !.error = FALSE, !.cancel = FALSE, !.counter = 0]

\* Mutant: the destructor does not stop the player once more.
DestroyPlayerNoStop ==
    /\ pc["main"] = "free" /\ Runs("main") /\ ~InSoundFrame
    /\ strm' = Destroyed(strm)
    /\ ClientGoes("main", "user")
    /\ UNCHANGED <<tm, worker, waiting, target>>

\* ~StrmPlayer calls Shutdown, which calls Stop with the sound thread's mutex
\* locked: a header task that ended after the first FreeChannels allocated
\* channels again.
DestroyPlayer ==
    /\ pc["main"] = "free" /\ Runs("main") /\ ~InSoundFrame
    /\ strm' = [Destroyed(strm) EXCEPT !.channels = FALSE, !.voice = FALSE]
    /\ ClientGoes("main", "user")
    /\ UNCHANGED <<tm, worker, waiting, target>>

-----------------------------------------------------------------------------
(* Stop, by the main thread or in a sound frame. *)

\* The part with the sound thread's mutex locked.
Release(c, next) ==
    /\ strm' = [strm EXCEPT !.channels = FALSE, !.voice = FALSE,
                            !.registered = @ /\ ~strm.active]
    /\ ClientGoes(c, next)
    /\ UNCHANGED <<tm, worker, waiting, target>>

StopReleases ==
    /\ pc["main"] = "stop" /\ Runs("main") /\ ~InSoundFrame
    /\ Release("main", "cancelHeader")

\* Update in a sound frame.
UpdateStops ==
    /\ pc["sound"] = "idle" /\ pc["main"] # "joinSound" /\ ~Ready
    /\ strm.registered /\ strm.active
    /\ (strm.error /\ ~strm.cancel) \/ (strm.started /\ ~strm.voice)
    /\ Release("sound", "cancelHeader")

\* CancelTask while the task is executed: OnCancel, then wait for its end.
CancelCurrent(c, place) ==
    /\ strm' = [strm EXCEPT !.cancel = TRUE]
    /\ waiting' = waiting \cup {c}
    /\ ClientGoes(c, place)
    /\ UNCHANGED <<tm, worker>>

\* Mutant: a task that is executed is not waited for.
CancelHeaderOnly(c) ==
    /\ pc[c] = "cancelHeader" /\ Runs(c)
    /\ tm' = IF tm.current = Header THEN tm ELSE Dequeue(tm, Header)
    /\ strm' = [strm EXCEPT !.cancel = @ \/ tm.current = Header]
    /\ ClientGoes(c, "cancelData")
    /\ UNCHANGED <<worker, waiting, target>>

CancelHeader(c) ==
    /\ pc[c] = "cancelHeader" /\ Runs(c)
    /\ \/ /\ tm.current = Header
          /\ CancelCurrent(c, "headerEnds")
       \/ /\ tm.current # Header
          /\ tm' = Dequeue(tm, Header)
          /\ ClientGoes(c, "cancelData")
          /\ UNCHANGED <<worker, waiting, strm>>
    /\ UNCHANGED target

\* "while (pTask == mCurrentTask) OSSleepThread(&mDoneThreadQueue);"
AwaitEnd(c, t, here, next) ==
    /\ pc[c] = here /\ Runs(c)
    /\ IF tm.current = t
       THEN waiting' = waiting \cup {c} /\ UNCHANGED <<pc, target>>
       ELSE /\ ClientGoes(c, next)
            /\ target' = [target EXCEPT ![c] = NULL]
            /\ UNCHANGED waiting
    /\ UNCHANGED <<tm, worker, strm>>

\* One turn of the loop over mStrmDataLoadTaskList, from the back.  Only a task
\* that was queued is told by Cancel to leave the list.
CancelData(c) ==
    LET t == Last(strm.list)
    IN  /\ pc[c] = "cancelData" /\ Runs(c) /\ strm.list # <<>>
        /\ \/ /\ tm.current = t
              /\ CancelCurrent(c, "dataEnds")
              /\ target' = [target EXCEPT ![c] = t]
           \/ /\ tm.current # t
              /\ tm' = Dequeue(tm, t)
              /\ strm' = [strm EXCEPT
                            !.list = IF Queued(t) THEN RemoveFirst(@, t) ELSE @]
              /\ UNCHANGED <<worker, waiting, pc, target>>

CloseFile(c) ==
    /\ pc[c] = "cancelData" /\ Runs(c) /\ strm.list = <<>>
    /\ strm' = [strm EXCEPT !.open = FALSE, !.started = FALSE,
                            !.prepared = FALSE, !.active = FALSE]
    /\ ClientGoes(c, IF c = "main" THEN "free" ELSE "idle")
    /\ UNCHANGED <<tm, worker, waiting, target>>

StopStep(c) ==
    \/ CancelHeader(c) \/ AwaitEnd(c, Header, "headerEnds", "cancelData")
    \/ CancelData(c) \/ AwaitEnd(c, target[c], "dataEnds", "cancelData")
    \/ CloseFile(c)

LoadStep ==
    \/ BeginRead \/ HeaderFails \/ HeaderLoaded \/ LoadFirstBlocks
    \/ \E ok \in BOOLEAN : DataRead(ok)
=============================================================================
