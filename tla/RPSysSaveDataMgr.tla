-------------------------- MODULE RPSysSaveDataMgr --------------------------
(***************************************************************************)
(* Pack/RPSystem/RPSysSaveDataMgr.cpp: the save file and the banner file   *)
(* of the game.  Their operations are made of calls to the NAND library,   *)
(* each of which may fail, and are run by the main thread or, on request,  *)
(* by the NAND thread.  Flags tell the main thread when they have ended.   *)
(*                                                                         *)
(* The main thread starts an operation only when isAsyncFinish says that   *)
(* there is none.  The power may go off at any moment.                     *)
(***************************************************************************)
EXTENDS EggTaskThread, SequencesExt

ASSUME NullAssumption == NULL \notin {"main", "thread"}

VARIABLES
    flags,   \* mFlags; error also tells whether mNandErrorCode was "busy"
    data,    \* mpSaveData: a value of Data
    buffer,  \* mpSaveFile
    todo,    \* the NAND calls left of the operation, and who makes them
    nand     \* the contents of the files

vars == <<pTask, queue, thread, ended, flags, data, buffer, todo, nand>>

Data == {"fresh", "played"}  \* "fresh": what reset() leaves

\* "torn": created and not written, or written in part.
SaveContent   == Data \cup {"absent", "torn"}
BannerContent == {"absent", "torn", "whole"}

NoFlags ==
    [nandAccess |-> FALSE, asyncSave |-> FALSE, window |-> FALSE,
     error |-> "no", disable |-> FALSE, bannerExist |-> FALSE,
     saveExist |-> FALSE]

Idle == [by |-> NULL, calls |-> <<>>]

Init ==
    /\ TaskThreadInit
    /\ flags = NoFlags
    /\ data = "fresh" /\ buffer = "torn" /\ todo = Idle
    /\ nand = [save |-> "absent", banner |-> "absent", temp |-> "absent"]

-----------------------------------------------------------------------------
(* The operations, as the calls to the NAND library they make. *)

SaveSync   == <<"saveOpen", "saveWrite", "saveClose">>
SaveBanner == <<"bannerOpen", "bannerWrite", "bannerClose">>
SaveTemp   == <<"tempOpen", "tempWrite", "tempClose">>

Calls ==
    [existPackFile   |-> <<"bannerGetType", "saveGetType">>,
     existNandMemory |-> <<"check">>,
     createPackFile  |-> <<"saveCreate">> \o SaveSync \o <<"tempCreate">>
                          \o SaveTemp \o <<"getHomeDir", "tempMove">>,
     createSync      |-> <<"saveCreate">> \o SaveSync,
     loadData        |-> <<"loadOpen", "loadRead", "loadClose">>,
     saveData        |-> SaveSync \o SaveBanner,
     deletePackFile  |-> <<"bannerDelete", "saveDelete">>]

AsyncOp == {"existPackFile", "existNandMemory", "createPackFile",
            "loadData", "saveData"}
SyncOp  == {"existPackFile", "createSync", "deletePackFile", "saveData"}

\* Mutant: createBannerFile goes on after an error.
SkippedNotMove(call) ==
    \/ flags.error # "no" /\ call \notin {"bannerDelete", "saveDelete", "tempMove"}
    \/ flags.disable /\ call \in Range(SaveSync \o SaveBanner \o SaveTemp)

\* An error skips every later call of the operation but the deletions; with
\* saving disabled nothing is written.
Skipped(call) ==
    \/ flags.error # "no" /\ call \notin {"bannerDelete", "saveDelete"}
    \/ flags.disable /\ call \in Range(SaveSync \o SaveBanner \o SaveTemp)

Calling(call) == todo.calls # <<>> /\ Head(todo.calls) = call /\ ~Skipped(call)

Advance == todo' = [todo EXCEPT !.calls = Tail(@)]

\* The call succeeds, with files n and flags f afterwards.
Succeeds(n, f) ==
    /\ nand' = n /\ flags' = f
    /\ Advance

\* Mutant: a busy NAND is not taken for an error.
FailsUnlessBusy(n, f) ==
    /\ nand' = n
    /\ \E e \in {"no", "other"} : flags' = [f EXCEPT !.error = e]
    /\ Advance

\* The call fails.
Fails(n, f) ==
    /\ nand' = n
    /\ \E e \in {"busy", "other"} : flags' = [f EXCEPT !.error = e]
    /\ Advance

\* NANDOpen finds the file, or fails.
Opens(content) ==
    \/ content # "absent" /\ Succeeds(nand, flags)
    \/ Fails(nand, flags)

Kept == UNCHANGED <<pTask, queue, thread, ended, data, buffer>>

SkipCall ==
    /\ todo.calls # <<>> /\ Skipped(Head(todo.calls))
    /\ Advance
    /\ UNCHANGED <<nand, flags>> /\ Kept

Created(content) == IF content = "absent" THEN "torn" ELSE content

\* createPackFileSync and createBannerFile.  A file that exists is no error.
Create ==
    \/ LET f == [flags EXCEPT !.saveExist = FALSE]
       IN  /\ Calling("saveCreate") /\ Kept
           /\ \/ Succeeds([nand EXCEPT !.save = Created(@)],
                          [f EXCEPT !.saveExist = TRUE])
              \/ Fails(nand, f)
    \/ LET f == [flags EXCEPT !.bannerExist = FALSE]
       IN  /\ Calling("tempCreate") /\ Kept
           /\ \/ Succeeds([nand EXCEPT !.temp = Created(@)], f)
              \/ Fails(nand, f)

GetHomeDir ==
    /\ Calling("getHomeDir") /\ Kept
    /\ (Succeeds(nand, flags) \/ Fails(nand, flags))

\* NANDMove answers NAND_RESULT_EXISTS when there is a banner already.
Moved ==
    IF nand.banner # "absent" THEN nand
    ELSE [nand EXCEPT !.banner = nand.temp, !.temp = "absent"]

MoveBanner ==
    /\ Calling("tempMove") /\ Kept
    /\ \/ Succeeds(Moved, [flags EXCEPT !.bannerExist = TRUE])
       \/ Fails(nand, flags)

\* saveSync up to NANDOpen.
SaveOpen ==
    /\ Calling("saveOpen")
    /\ buffer' = data
    /\ Opens(nand.save)
    /\ UNCHANGED <<pTask, queue, thread, ended, data>>

BannerOpen ==
    /\ Calling("bannerOpen") /\ Kept
    /\ Opens(nand.banner)

TempOpen ==
    /\ Calling("tempOpen") /\ Kept
    /\ Opens(nand.temp)

\* A write that fails leaves part of the file written.
Write ==
    /\ Kept
    /\ \/ /\ Calling("saveWrite")
          /\ \/ Succeeds([nand EXCEPT !.save = buffer], flags)
             \/ Fails([nand EXCEPT !.save = "torn"], flags)
       \/ /\ Calling("bannerWrite")
          /\ \/ Succeeds([nand EXCEPT !.banner = "whole"], flags)
             \/ Fails([nand EXCEPT !.banner = "torn"], flags)
       \/ /\ Calling("tempWrite")
          /\ \/ Succeeds([nand EXCEPT !.temp = "whole"], flags)
             \/ Fails([nand EXCEPT !.temp = "torn"], flags)

Close ==
    /\ (Calling("saveClose") \/ Calling("bannerClose") \/ Calling("tempClose"))
    /\ (Succeeds(nand, flags) \/ Fails(nand, flags))
    /\ Kept

\* loadSync.
LoadOpen ==
    /\ Calling("loadOpen") /\ Kept
    /\ Opens(nand.save)

LoadRead ==
    /\ Calling("loadRead")
    /\ \/ Succeeds(nand, flags) /\ buffer' = nand.save
       \/ Fails(nand, flags) /\ buffer' = "torn"
    /\ UNCHANGED <<pTask, queue, thread, ended, data>>

\* Mutant: the checksum is not looked at.
LoadCloseUnchecked ==
    /\ Calling("loadClose")
    /\ (Succeeds(nand, flags) \/ Fails(nand, flags))
    /\ data' = buffer
    /\ UNCHANGED <<pTask, queue, thread, ended, buffer>>

\* RPSysSaveData::read resets the data when the checksum does not fit.  It is
\* called also after NANDClose failed.
LoadClose ==
    /\ Calling("loadClose")
    /\ (Succeeds(nand, flags) \/ Fails(nand, flags))
    /\ data' = IF buffer \in Data THEN buffer ELSE "fresh"
    /\ UNCHANGED <<pTask, queue, thread, ended, buffer>>

\* existSaveFile asks for the banner, existBannerFile for the save file.
GetType ==
    /\ Kept
    /\ \/ /\ Calling("bannerGetType")
          /\ \/ Succeeds(nand, [flags EXCEPT !.bannerExist = nand.banner # "absent"])
             \/ Fails(nand, [flags EXCEPT !.bannerExist = FALSE])
       \/ /\ Calling("saveGetType")
          /\ \/ Succeeds(nand, [flags EXCEPT !.saveExist = nand.save # "absent"])
             \/ Fails(nand, [flags EXCEPT !.saveExist = FALSE])

\* existNandMemorySync; what it answers is not kept.
CheckMemory ==
    /\ Calling("check") /\ Kept
    /\ (Succeeds(nand, flags) \/ Fails(nand, flags))

\* Mutant: each deletion resets the flag of the other file.
DeleteSwapped ==
    /\ Calling("bannerDelete") /\ Kept
    /\ Succeeds([nand EXCEPT !.banner = "absent"],
                [flags EXCEPT !.saveExist = FALSE])

Delete ==
    /\ Kept
    /\ \/ /\ Calling("bannerDelete")
          /\ \/ Succeeds([nand EXCEPT !.banner = "absent"],
                         [flags EXCEPT !.bannerExist = FALSE])
             \/ Fails(nand, flags)
       \/ /\ Calling("saveDelete")
          /\ \/ Succeeds([nand EXCEPT !.save = "absent"],
                         [flags EXCEPT !.saveExist = FALSE])
             \/ Fails(nand, flags)

NandStep ==
    \/ SkipCall \/ Create \/ GetHomeDir \/ MoveBanner
    \/ SaveOpen \/ BannerOpen \/ TempOpen \/ Write \/ Close
    \/ LoadOpen \/ LoadRead \/ LoadClose
    \/ GetType \/ CheckMemory \/ Delete

-----------------------------------------------------------------------------
(* The NAND thread. *)

Unused == UNCHANGED <<flags, data, buffer, nand>>

CallTask ==
    /\ thread.at = "call"
    /\ todo' = [by |-> "thread", calls |-> Calls[pTask[thread.job]]]
    /\ ThreadGoes("run")
    /\ UNCHANGED <<pTask, queue, ended>> /\ Unused

TaskReturns ==
    /\ thread.at = "run" /\ todo.calls = <<>>
    /\ todo' = Idle
    /\ ThreadGoes("report")
    /\ UNCHANGED <<pTask, queue, ended>> /\ Unused

ThreadRuns ==
    \/ CallTask \/ TaskReturns
    \/ ThreadStep /\ Unused /\ UNCHANGED todo

-----------------------------------------------------------------------------
(* The main thread. *)

IsAsyncFinish == ~flags.nandAccess /\ ~flags.asyncSave

IsErrorOccured == ~flags.disable /\ flags.error # "no"

InMain == todo.by # "main"

\* existPackFileAsync, existNandMemoryAsync, createPackFileAsync, loadAsync and
\* saveAsync.  What request returns is not looked at.
Async(op) ==
    /\ InMain /\ IsAsyncFinish
    /\ Request(op)
    /\ flags' = [flags EXCEPT !.nandAccess = TRUE, !.error = "no",
                              !.asyncSave = op = "saveData",
                              !.window = @ /\ op # "saveData"]
    /\ UNCHANGED <<thread, ended, data, buffer, todo, nand>>

\* existPackFileSync, createPackFileSync, deletePackFileSync, savePackFileSync.
Sync(op) ==
    /\ InMain /\ IsAsyncFinish /\ todo = Idle
    /\ todo' = [by |-> "main", calls |-> Calls[op]]
    /\ flags' = [flags EXCEPT !.error = IF op = "createSync" THEN @ ELSE "no"]
    /\ UNCHANGED taskVars /\ UNCHANGED <<data, buffer, nand>>

SyncReturns ==
    /\ todo.by = "main" /\ todo.calls = <<>>
    /\ todo' = Idle
    /\ UNCHANGED taskVars /\ Unused

\* The main thread finds an end message and calls finishNandAccess.
FinishNandAccess ==
    /\ InMain /\ ended # <<>>
    /\ ended' = Tail(ended)
    /\ flags' = [flags EXCEPT !.nandAccess = FALSE]
    /\ UNCHANGED <<pTask, queue, thread, data, buffer, todo, nand>>

SetData ==
    /\ InMain
    /\ \E d \in Data : data' = d
    /\ UNCHANGED taskVars /\ UNCHANGED <<flags, buffer, todo, nand>>

SetSaveDisable ==
    /\ InMain /\ IsAsyncFinish
    /\ \E disable \in BOOLEAN : flags' = [flags EXCEPT !.disable = disable]
    /\ UNCHANGED taskVars /\ UNCHANGED <<data, buffer, todo, nand>>

SaveOver(f) == [f EXCEPT !.asyncSave = FALSE, !.window = FALSE]

Updating == InMain /\ flags.asyncSave /\ ~flags.nandAccess

\* The player may answer; checkContinueReject asks whether to go on without
\* saving, and a busy NAND is only reported.
Update ==
    /\ Updating
    /\ \/ ~IsErrorOccured /\ flags' = SaveOver(flags)
       \/ /\ IsErrorOccured /\ ~flags.window
          /\ flags' = [flags EXCEPT !.window = TRUE]
       \/ /\ IsErrorOccured /\ flags.window
          /\ \/ flags' = SaveOver(flags)
             \/ /\ flags.error # "busy"
                /\ flags' = [SaveOver(flags) EXCEPT !.disable = TRUE]
    /\ UNCHANGED taskVars /\ UNCHANGED <<data, buffer, todo, nand>>

\* The power goes off, maybe in the middle of a write, and the game starts.
PowerOff ==
    /\ pTask' = [j \in Slot |-> NULL] /\ queue' = <<>> /\ ended' = <<>>
    /\ thread' = [at |-> "receive", job |-> NULL]
    /\ flags' = NoFlags
    /\ data' = "fresh" /\ buffer' = "torn" /\ todo' = Idle
    /\ \E part \in BOOLEAN :
         nand' = [nand EXCEPT
                    !.save   = IF part /\ Calling("saveWrite")
                               THEN "torn" ELSE @,
                    !.banner = IF part /\ Calling("bannerWrite")
                               THEN "torn" ELSE @,
                    !.temp   = IF part /\ Calling("tempWrite")
                               THEN "torn" ELSE @]

Main ==
    \/ \E op \in AsyncOp : Async(op)
    \/ \E op \in SyncOp : Sync(op)
    \/ SyncReturns \/ FinishNandAccess
    \/ SetData \/ SetSaveDisable \/ Update

Next == NandStep \/ ThreadRuns \/ Main \/ PowerOff

Spec == Init /\ [][Next]_vars

\* NAND calls return, the NAND thread runs while the main thread waits for the
\* next frame, and the main thread looks for end messages in each frame.
FairSpec ==
    /\ Spec
    /\ WF_vars(NandStep) /\ WF_vars(ThreadRuns)
    /\ WF_vars(FinishNandAccess) /\ WF_vars(SyncReturns)

-----------------------------------------------------------------------------
(* Properties. *)

\* The fields have their types; the calls left belong to the thread that is
\* in an operation (RPSysSaveDataMgr, TaskThread::run).
TypeOK ==
    /\ pTask \in [Slot -> AsyncOp \cup {NULL}]
    /\ queue \in Seq(Slot) /\ Len(queue) <= JobNum
    /\ thread.job \in Slot \cup {NULL} /\ ended \in Seq(Slot)
    /\ flags.error \in {"no", "busy", "other"}
    /\ data \in Data /\ buffer \in Data \cup {"torn"}
    /\ nand.save \in SaveContent /\ nand.banner \in BannerContent
    /\ (todo.by = "thread") <=> (thread.at = "run")
    /\ todo.by = NULL => todo.calls = <<>>

\* When update would end an asynchronous save without asking the player, both
\* files are on the NAND as they were written, unless saving is disabled: no
\* failed call is forgotten, and the end is not seen too early.
SavedOrReported ==
    Updating /\ ~IsErrorOccured
      => flags.disable \/ (nand.save = buffer /\ nand.banner = "whole")

\* A banner that appears in the home directory is whole unless saving is
\* disabled, also when the power went off while the temporary file was
\* written (createBannerFile).
BannerAppearsWhole ==
    [][nand.banner = "absent" /\ nand'.banner # "absent"
         => nand'.banner = "whole" \/ flags.disable]_vars

\* Besides types: what isPackFileExist answers is never more than what is there,
\* its flags follow the files through creations, checks and deletions that fail
\* halfway.
ExistFlagsTrue ==
    /\ TypeOK
    /\ flags.saveExist => nand.save # "absent"
    /\ flags.bannerExist => nand.banner # "absent"

\* A task that the NAND thread has begun ends, and the main thread is told:
\* the NAND access of the manager is over, whichever calls fail.
BegunAccessEnds == (thread.at = "call") ~> ~flags.nandAccess

\* EFlag_NandAccess: "NAND operation is happening on another thread".
NandAccessHappens ==
    flags.nandAccess =>
        \/ \E j \in Slot : pTask[j] # NULL
        \/ ended # <<>>
=============================================================================
