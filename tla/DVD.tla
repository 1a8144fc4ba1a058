-------------------------------- MODULE DVD --------------------------------
(***************************************************************************)
(* revolution/DVD: the command queue and the state machine of dvd.c with   *)
(* the request contexts of dvd_broadway.c below it and the blocking reads  *)
(* of dvdfs.c above it.                                                    *)
(*                                                                         *)
(* Every entry point and every callback runs with interrupts disabled, so  *)
(* it is one step, with all the functions it calls in turn.  The statics   *)
(* of the driver, the command blocks and the requests in flight are the    *)
(* fields of one record dvd, and a C function is an operator from such a   *)
(* record to the one it leaves behind.                                     *)
(*                                                                         *)
(* Only reads and inquiries are ever issued, and the fatal message is      *)
(* always on (DVDInit): a fatal error stops the program.                   *)
(***************************************************************************)
EXTENDS DVDDrive, Sequences, FiniteSets, SequencesExt

CONSTANTS
    Block,         \* the DVDCommandBlocks
    InquiryBlock,  \* those for inquiries: the one of OSInit
    SyncBlock,     \* those that are read and cancelled by threads that wait
    Prio,          \* the priorities in use, a lower number first
    Lengths,       \* for each block the lengths of its reads, in transfers
    SlowDisc,      \* OS_DVD_DEVICE_CODE asks for a slower rotation
    PollCancel,    \* commands are cancelled during a poll of the cover too
    ContextMax,    \* DVD_LOW_CTX_MAX
    MaxIssued      \* bound: the number of commands issued

ASSUME DVDAssumption ==
    /\ IsFiniteSet(Block) /\ NULL \notin Block
    /\ InquiryBlock \subseteq Block
    /\ SyncBlock \subseteq Block \ InquiryBlock
    /\ Prio \subseteq 0 .. 3 /\ Prio # {}
    /\ Lengths \in [Block -> SUBSET Nat]
    /\ SlowDisc \in BOOLEAN /\ PollCancel \in BOOLEAN
    /\ ContextMax \in Nat /\ MaxIssued \in Nat

\* NULL is no name of a callback and no cause to stop.
ASSUME NullAssumption ==
    NULL \notin {"async", "sync", "reset", "fatal", "fault", "spin",
                 "cbForStoreErrorCode1", "cbForStoreErrorCode2",
                 "cbForStoreErrorCode3", "Busy", "GettingError", "GoToRetry",
                 "CheckID1", "Reset", "DownRotation", "CoverClosed",
                 "ReadingTOC", "ReadingPartitionInfo", "OpenPartition2",
                 "PrepareCover", "Error"}

VARIABLES
    dvd,       \* the driver: the fields below
    waiting,   \* the threads in the loops of DVDReadPrio and DVDCancel
    issued,    \* the number of commands issued
    asked,     \* history: the commands whose cancellation was asked for
    data       \* history: the transfers of a command read from the game's disc

vars == <<dvd, waiting, issued, asked, data, driveVars>>

Init ==
    /\ dvd = [state |-> [b \in Block |-> "IDLE"],
            length |-> [b \in Block |-> 0],
            transferTotal |-> [b \in Block |-> 0],
            callback |-> [b \in Block |-> "async"],
            answer |-> [b \in Block |-> "none"],
            WaitingQueue |-> [p \in Prio |-> <<>>],
            executing |-> NULL,
            Canceling |-> FALSE, CancelCallback |-> NULL, Breaking |-> FALSE,
            ResumeFromHere |-> "NONE", NumInternalRetry |-> 0,
            LastError |-> NULL, LastState |-> "stateBusy",
            MotorState |-> "WORKING",
            WaitingForCoverOpen |-> FALSE, WaitingForCoverClose |-> FALSE,
            PreparingCover |-> FALSE, CoverAlarm |-> FALSE,
            ResetAlarm |-> FALSE, storing |-> NULL, low |-> <<>>,
            sleeping |-> {}, Prepared |-> "no", down |-> NULL]
    /\ waiting = {} /\ issued = 0 /\ asked = {}
    /\ data = [b \in Block |-> {}]
    /\ DriveInit

-----------------------------------------------------------------------------
(* dvdqueue.c. *)

Queued(r) == UNION {Range(r.WaitingQueue[p]) : p \in Prio}

PopWaitingQueue(r) ==
    LET p == Min({p \in Prio : r.WaitingQueue[p] # <<>>})
    IN  [r EXCEPT !.executing = Head(r.WaitingQueue[p]),
                  !.WaitingQueue[p] = Tail(@)]

Dequeue(r, b) ==
    [r EXCEPT !.WaitingQueue = [p \in Prio |-> RemoveFirst(@[p], b)]]

-----------------------------------------------------------------------------
(* dvd_broadway.c: each request takes a context until its callback has      *)
(* returned, and newContext spins forever when the next one is in use.      *)

Send(r, op, cb) ==
    IF Len(r.low) >= ContextMax
    THEN [r EXCEPT !.down = "spin"]
    ELSE [r EXCEPT !.low = Append(@,
            [op |-> op, cb |-> cb, block |-> r.executing,
             transfer |-> IF op = "Read"
                          THEN r.transferTotal[r.executing] + 1 ELSE NULL,
             reply |-> NULL])]

SendCleared(r, op, cb) == Send(Send(r, "ClearCoverInterrupt", NULL), op, cb)

-----------------------------------------------------------------------------
(* Errors.  The code is written to the NAND, then the program stops.        *)

stateError(r)    == [r EXCEPT !.storing = "cbForStoreErrorCode1"]
stateTimeout(r)  == [r EXCEPT !.storing = "cbForStoreErrorCode2"]

stateGettingError(r) == Send(r, "RequestError", "GettingError")
stateGoToRetry(r)    == Send(r, "StopMotor", "GoToRetry")

-----------------------------------------------------------------------------
(* Callbacks of commands and of cancellations.                              *)

Wake(r, how) == IF how = "sync" THEN [r EXCEPT !.sleeping = {}] ELSE r

\* Mutant: the callback of a synchronous command wakes nobody.
AnswerWakesNobody(r, b, state, result) ==
    [r EXCEPT !.state[b] = state, !.answer[b] = result]

Answer(r, b, state, result) ==
    Wake([r EXCEPT
            !.state[b] = state,
            !.answer[b] = IF r.callback[b] = NULL THEN @
                          ELSE IF @ = "due" THEN result ELSE "twice"],
         r.callback[b])

CallCancelCallback(r, cb) ==
    IF cb = "reset" THEN [r EXCEPT !.Prepared = "yes"] ELSE Wake(r, cb)

-----------------------------------------------------------------------------
(* The state functions. *)

\* The command waits for the user to open the cover, and is polled for it.
WaitForCover(r, state) ==
    LET w == [r EXCEPT !.state[r.executing] = state,
                       !.MotorState = "PENDING_STOP"]
    IN  IF r.WaitingForCoverOpen \/ r.WaitingForCoverClose
        THEN w
        ELSE [w EXCEPT !.WaitingForCoverOpen = TRUE, !.CoverAlarm = TRUE]

stateCoverClosed(r) ==
    Send([r EXCEPT !.MotorState = "WORKING"], "Reset", "Reset")

CoverClosed(r) ==
    stateCoverClosed([r EXCEPT !.state[r.executing] = "COVER_CLOSED"])

\* The command that was popped goes on where the last one was cancelled.
Resume(r) ==
    LET point == r.ResumeFromHere
        go == [r EXCEPT !.ResumeFromHere = "NONE"]
    IN  IF point \in {"DISK_ERROR", "NO_DISK", "COVER_OPENED"}
        THEN WaitForCover(go, point)
        ELSE CoverClosed(go)

Starts(r) ==
    LET b == r.executing
        new == IF b \in InquiryBlock
               THEN [r EXCEPT !.ResumeFromHere = "NONE"] ELSE r
    IN  CASE new.ResumeFromHere # "NONE"    -> Resume(new)
          [] new.ResumeFromHere = "NONE" /\ new.MotorState = "WORKING" ->
               [new EXCEPT !.state[b] = "BUSY"]
          [] OTHER                          -> stateCoverClosed(new)

\* stateBusy up to the end of a read of nothing, which is answered at once.
Begin(r) ==
    LET b == r.executing
        busy == [r EXCEPT !.LastState = "stateBusy"]
    IN  CASE b \in InquiryBlock -> SendCleared(busy, "Inquiry", "Busy")
          [] b \notin InquiryBlock /\ r.length[b] = 0 ->
               Answer(busy, b, "IDLE", "good")
          [] OTHER -> SendCleared(busy, "Read", "Busy")

\* stateReady up to the end of a read of nothing.
Take(r) ==
    IF Queued(r) = {}
    THEN [r EXCEPT !.executing = NULL]
    ELSE LET next == Starts(PopWaitingQueue(r))
         IN  IF next.state[next.executing] = "BUSY" THEN Begin(next) ELSE next

\* stateBusy calls stateReady after a read of nothing, which calls stateBusy.
TakeNext(r) ==
    IF r.executing # NULL /\ r.state[r.executing] = "IDLE" THEN Take(r) ELSE r

stateReady(r) ==
    LET after[n \in 0 .. Cardinality(Block)] ==
          IF n = 0 THEN Take(r) ELSE TakeNext(after[n - 1])
    IN  after[Cardinality(Block)]

stateBusy(r) ==
    LET begun == Begin(r)
    IN  IF begun.state[r.executing] = "IDLE" THEN stateReady(begun) ELSE begun

Finish(r) == stateReady(Answer(r, r.executing, "IDLE", "good"))

\* Mutant: the next command is not started.
EndCanceledStops(r) ==
    LET answered == Answer(r, r.executing, "CANCELED", "canceled")
    IN  [CallCancelCallback(answered, r.CancelCallback)
           EXCEPT !.executing = NULL]

\* The end of a command that was cancelled.
EndCanceled(r) ==
    LET answered == Answer(r, r.executing, "CANCELED", "canceled")
    IN  stateReady(CallCancelCallback(answered, r.CancelCallback))

\* CheckCancel, and what the caller does when it returns FALSE.
UnlessCanceling(r, resume, other) ==
    IF r.Canceling
    THEN EndCanceled([r EXCEPT !.Canceling = FALSE, !.ResumeFromHere = resume])
    ELSE other

ReadDiskID(r) ==
    SendCleared([r EXCEPT !.LastState = "stateCoverClosed_CMD"],
                "ReadDiskID", "CoverClosed")

DownRotation(r) ==
    SendCleared([r EXCEPT !.LastState = "stateDownRotation"],
                "SetMaximumRotation", "DownRotation")

CallLastState(r) ==
    CASE r.LastState = "stateBusy"            -> stateBusy(r)
      [] r.LastState = "stateCoverClosed_CMD" -> ReadDiskID(r)
      [] r.LastState = "stateDownRotation"    -> DownRotation(r)

-----------------------------------------------------------------------------
(* What the drive's error code leads to. *)

CoverErrors == {"coverOpened", "diskChanged", "noDisk"}

\* CategorizeError: the category, with the error counted and remembered.  The
\* counter has no bound in the code, which tests for 2 only.
Categorize(r, e) ==
    LET counted == [r EXCEPT !.LastError = e,
                             !.NumInternalRetry = Min({@ + 1, 3})]
        second == counted.NumInternalRetry = 2
    IN  CASE e \in CoverErrors -> [category |-> "OK", r |-> r]
          [] e = "motorStopped" ->
               [category |-> "ERROR", r |-> [r EXCEPT !.LastError = e]]
          [] e \notin CoverErrors \cup {"motorStopped"} ->
               [category |-> CASE second /\ e = r.LastError -> "ERROR"
                               [] second /\ e # r.LastError -> "FATAL"
                               [] ~second /\ e = "readFail" -> "FATAL"
                               [] OTHER                     -> "UNKNOWN",
                r |-> counted]

cbForStateGettingError(r, e) ==
    LET c == Categorize(r, e)
    IN  CASE c.category = "ERROR" -> stateError(c.r)
          [] c.category = "FATAL" ->
               UnlessCanceling(c.r, "NONE",
                 [c.r EXCEPT !.storing = "cbForStoreErrorCode3"])
          [] c.category = "UNKNOWN" ->
               UnlessCanceling(c.r, "NONE", CallLastState(c.r))
          [] e = "coverOpened" ->
               UnlessCanceling(r, "COVER_OPENED",
                               WaitForCover(r, "COVER_OPENED"))
          [] e = "diskChanged" ->
               UnlessCanceling(r, "DISK_CHANGED", CoverClosed(r))
          [] e = "noDisk" ->
               UnlessCanceling(r, "NO_DISK", WaitForCover(r, "NO_DISK"))

-----------------------------------------------------------------------------
(* The callbacks of requests, by the interrupt type of the answer.          *)

NoRetry(r) == [r EXCEPT !.NumInternalRetry = 0]

\* Mutant: a transfer that failed counts.
CountsAlways(r, int) == [r EXCEPT !.transferTotal[r.executing] = @ + 1]

\* The transfer that ended is counted.
Counts(r, int) ==
    [r EXCEPT !.transferTotal[r.executing] = IF int = "TC" THEN @ + 1 ELSE @]

cbForStateBusy(r, int) ==
    LET moved == Counts(r, int)
        good == NoRetry(moved)
        whole == moved.transferTotal[r.executing] = r.length[r.executing]
    IN  CASE r.Breaking ->
               EndCanceled([moved EXCEPT !.Breaking = FALSE,
                                         !.Canceling = FALSE])
          [] ~r.Breaking /\ int = "TC" ->
               UnlessCanceling(good, "NONE",
                 IF whole THEN Finish(good) ELSE stateBusy(good))
          [] ~r.Breaking /\ int = "DE" ->
               CASE r.executing \in InquiryBlock -> stateError(moved)
                 [] r.executing \notin InquiryBlock /\ whole ->
                      UnlessCanceling(moved, "NONE", Finish(moved))
                 [] OTHER -> stateGettingError(moved)

cbForStateReset(r) ==
    IF r.ResetAlarm
    THEN [r EXCEPT !.down = "fault"]
    ELSE [r EXCEPT !.ResumeFromHere = "NONE", !.ResetAlarm = TRUE]

ResetAlarmHandler(r) ==
    LET off == [r EXCEPT !.ResetAlarm = FALSE]
    IN  IF SlowDisc THEN DownRotation(off) ELSE ReadDiskID(off)

cbForStateCoverClosed(r, id) ==
    IF id = GameDisc
    THEN SendCleared(NoRetry(r), "UnencryptedRead", "ReadingTOC")
    ELSE Send(NoRetry(r), "StopMotor", "CheckID1")

cbForStateOpenPartition2(r) ==
    UnlessCanceling(NoRetry(r), "NONE",
      stateBusy(NoRetry([r EXCEPT !.state[r.executing] = "BUSY"])))

\* The disc was exchanged.
cbForStateMotorStopped(r) ==
    LET closed == [r EXCEPT !.WaitingForCoverClose = FALSE]
    IN  IF r.executing = NULL
        THEN [closed EXCEPT !.ResumeFromHere = "7"]
        ELSE CoverClosed(closed)

cbForPrepareCoverRegister(r, reg) ==
    LET done == [r EXCEPT !.PreparingCover = FALSE]
        noAlarm == [done EXCEPT !.CoverAlarm = FALSE]
    IN  CASE r.WaitingForCoverClose ->
               IF reg.CVR THEN done ELSE cbForStateMotorStopped(noAlarm)
          [] ~r.WaitingForCoverClose /\ reg.CVR ->
               IF r.executing = NULL
               THEN [done EXCEPT !.down = "fault"]
               ELSE [done EXCEPT !.WaitingForCoverOpen = FALSE,
                                 !.WaitingForCoverClose = TRUE,
                                 !.state[r.executing] = "COVER_OPENED"]
          [] ~r.WaitingForCoverClose /\ ~reg.CVR /\ reg.CVRINT ->
               cbForStateMotorStopped(
                 Send([noAlarm EXCEPT !.WaitingForCoverOpen = FALSE],
                      "ClearCoverInterrupt", NULL))
          [] OTHER -> done

\* After StopMotor an error is fatal, after the others it is looked into.
Succeeds(r, cb, value) ==
    CASE cb = "Busy"           -> cbForStateBusy(r, "TC")
      [] cb = "GettingError"   -> cbForStateGettingError(r, value)
      [] cb = "GoToRetry"      -> UnlessCanceling(NoRetry(r), "DISK_ERROR",
                                    WaitForCover(NoRetry(r), "DISK_ERROR"))
      [] cb = "CheckID1"       -> UnlessCanceling(NoRetry(r), "WRONG_DISK_ID",
                                    WaitForCover(NoRetry(r), "WRONG_DISK_ID"))
      [] cb = "Reset"          -> cbForStateReset(r)
      [] cb = "DownRotation"   -> ReadDiskID(r)
      [] cb = "CoverClosed"    -> cbForStateCoverClosed(r, value)
      [] cb = "ReadingTOC"     -> SendCleared(NoRetry(r), "UnencryptedRead",
                                              "ReadingPartitionInfo")
      [] cb = "ReadingPartitionInfo" ->
           SendCleared(NoRetry(r), "OpenPartition", "OpenPartition2")
      [] cb = "OpenPartition2" -> cbForStateOpenPartition2(r)

Errs(r, cb) ==
    CASE cb \in {"GettingError", "GoToRetry", "CheckID1"} -> stateError(r)
      [] cb = "Busy" -> cbForStateBusy(r, "DE")
      [] OTHER       -> stateGettingError(r)

\* doTransactionCallback and doPrepareCoverRegisterCallback.
Deliver(r) ==
    LET q == Head(r.low)
        done == CASE q.cb = NULL           -> r
                  [] q.cb = "PrepareCover" ->
                       cbForPrepareCoverRegister(r, q.reply.value)
                  [] q.cb = "Error"        -> [r EXCEPT !.down = "fatal"]
                  [] q.cb \notin {NULL, "PrepareCover", "Error"} ->
                       CASE q.reply.int = "TC" ->
                              Succeeds(r, q.cb, q.reply.value)
                         [] q.reply.int = "DE" -> Errs(r, q.cb)
                         [] OTHER              -> stateTimeout(r)
    IN  [done EXCEPT !.low = Tail(@)]

-----------------------------------------------------------------------------
(* Cancellation. *)

CoverWaits == {"NO_DISK", "COVER_OPENED", "WRONG_DISK_ID", "DISK_ERROR"}

CancelWaiting(r, b, cb) ==
    CallCancelCallback(Answer(Dequeue(r, b), b, "CANCELED", "canceled"), cb)

\* Mutant: the poll of the cover goes on for nobody.
CancelInCoverWaitPollsOn(r, b, cb) ==
    stateReady(CallCancelCallback(
      Answer([r EXCEPT !.ResumeFromHere = r.state[b]],
             b, "CANCELED", "canceled"), cb))

\* The next command resumes in the wait that this one leaves.
CancelInCoverWait(r, b, cb) ==
    LET left == [r EXCEPT !.CoverAlarm = @ /\ ~r.WaitingForCoverOpen,
                          !.WaitingForCoverOpen = FALSE,
                          !.ResumeFromHere = r.state[b]]
    IN  stateReady(CallCancelCallback(
          Answer(left, b, "CANCELED", "canceled"), cb))

\* The driver is told to cancel the command it works on.
CancelLater(r, b, cb) ==
    [r EXCEPT !.Canceling = TRUE, !.CancelCallback = cb,
              !.Breaking = @ \/ (r.state[b] = "BUSY" /\ b \notin InquiryBlock)]

Refused(r, b) ==
    \/ r.state[b] \in {"BUSY", "COVER_CLOSED"} /\ r.Canceling
    \/ /\ r.state[b] \in CoverWaits
       /\ ~r.WaitingForCoverOpen /\ ~r.WaitingForCoverClose

CancelAsync(r, b, cb) ==
    CASE Refused(r, b) -> r
      [] r.state[b] \in {"IDLE", "CANCELED"} -> CallCancelCallback(r, cb)
      [] r.state[b] = "WAITING" -> CancelWaiting(r, b, cb)
      [] ~Refused(r, b) /\ r.state[b] \in {"BUSY", "COVER_CLOSED"} ->
           CancelLater(r, b, cb)
      [] ~Refused(r, b) /\ r.state[b] \in CoverWaits ->
           CancelInCoverWait(r, b, cb)

\* Left out: a command that a reset dropped is not cancelled, and PollCancel
\* says whether one is that waits for the cover while its register is read.
MayCancel(b) ==
    b # NULL
      => /\ dvd.answer[b] # "dropped"
         /\ dvd.PreparingCover /\ dvd.state[b] \in CoverWaits => PollCancel

\* Mutant: a cancellation that is under way keeps its callback.
PrepareResetKeepsCallback(r) ==
    LET b == r.executing
        cleared == [r EXCEPT !.WaitingQueue = [p \in Prio |-> <<>>],
                             !.Prepared = "wanted"]
    IN  CASE r.Canceling -> cleared
          [] ~r.Canceling /\ b = NULL -> CallCancelCallback(cleared, "reset")
          [] ~r.Canceling /\ b # NULL -> CancelAsync(cleared, b, "reset")

\* The commands that wait are dropped, the one the driver works on is cancelled
\* without its callback.
__DVDPrepareResetAsync(r) ==
    LET b == r.executing
        dropped == Queued(r) \cup IF r.Canceling THEN {} ELSE {b}
        cleared == [r EXCEPT
                      !.WaitingQueue = [p \in Prio |-> <<>>],
                      !.answer = [x \in Block |-> IF x \in dropped
                                                  THEN "dropped" ELSE @[x]],
                      !.Prepared = "wanted"]
    IN  CASE r.Canceling -> [cleared EXCEPT !.CancelCallback = "reset"]
          [] ~r.Canceling /\ b = NULL -> CallCancelCallback(cleared, "reset")
          [] ~r.Canceling /\ b # NULL ->
               CancelAsync([cleared EXCEPT !.callback[b] = NULL], b, "reset")

-----------------------------------------------------------------------------
(* The program. *)

Up == dvd.down = NULL
clientUnchanged == UNCHANGED <<waiting, issued, asked>>

Reader(b)    == <<"read", b>>
Canceller(b) == <<"cancel", b>>

\* A command block is used again when its command has ended.
Free(b) ==
    /\ dvd.answer[b] \notin {"due", "dropped"}
    /\ waiting \cap {Reader(b), Canceller(b)} = {}

issueCommand(b, n, p, cb) ==
    LET push == [dvd EXCEPT !.length[b] = n, !.transferTotal[b] = 0,
                            !.callback[b] = cb, !.answer[b] = "due",
                            !.state[b] = "WAITING",
                            !.WaitingQueue[p] = Append(@, b)]
    IN  /\ Up /\ issued < MaxIssued /\ Free(b)
        /\ dvd' = IF dvd.executing = NULL THEN stateReady(push) ELSE push
        /\ issued' = issued + 1
        /\ asked' = asked \ {b}
        /\ data' = [data EXCEPT ![b] = {}]

DVDReadPrio(b) ==
    /\ b \in SyncBlock
    /\ \E n \in Lengths[b], p \in Prio : issueCommand(b, n, p, "sync")
    /\ waiting' = waiting \cup {Reader(b)}
    /\ UNCHANGED driveVars

DVDReadAsyncPrio(b) ==
    /\ b \notin InquiryBlock \cup SyncBlock
    /\ \E n \in Lengths[b], p \in Prio : issueCommand(b, n, p, "async")
    /\ UNCHANGED <<waiting, driveVars>>

\* OSInit asks for the device code before anything is read.
DVDInquiryAsync(b) ==
    /\ b \in InquiryBlock /\ issued = 0
    /\ issueCommand(b, 1, Max(Prio), "async")
    /\ UNCHANGED <<waiting, driveVars>>

DVDCancelAsync(b, cb) ==
    /\ Up /\ MayCancel(b)
    /\ dvd' = CancelAsync(dvd, b, cb)
    /\ asked' = IF dvd.answer[b] = "due" THEN asked \cup {b} ELSE asked
    /\ UNCHANGED <<issued, data, driveVars>>

\* A cancellation whose caller does not wait.
CancelWithoutWait(b) ==
    /\ b \notin InquiryBlock \cup SyncBlock
    /\ DVDCancelAsync(b, "async")
    /\ UNCHANGED waiting

\* DVDCancel returns at once when the cancellation is refused.
DVDCancel(b) ==
    /\ b \in SyncBlock /\ Canceller(b) \notin waiting
    /\ DVDCancelAsync(b, "sync")
    /\ waiting' = IF Refused(dvd, b) THEN waiting
                                     ELSE waiting \cup {Canceller(b)}

\* The loops of DVDReadPrio and DVDCancel look at the state, then sleep.
Look(t) ==
    /\ Up /\ t \in waiting \ dvd.sleeping
    /\ IF dvd.state[t[2]] \in {"IDLE", "CANCELED"}
       THEN waiting' = waiting \ {t} /\ UNCHANGED dvd
       ELSE dvd' = [dvd EXCEPT !.sleeping = @ \cup {t}] /\ UNCHANGED waiting
    /\ UNCHANGED <<issued, asked, data, driveVars>>

Resetting == dvd.Prepared # "no"

\* The system is reset, by a caller that spins until Prepared is set.
__DVDPrepareReset ==
    /\ Up /\ ~Resetting /\ MayCancel(dvd.executing)
    /\ dvd' = __DVDPrepareResetAsync(dvd)
    /\ clientUnchanged /\ UNCHANGED <<data, driveVars>>

-----------------------------------------------------------------------------
(* The interrupts. *)

DriveAnswers ==
    /\ Up /\ dvd.low # <<>> /\ Head(dvd.low).reply = NULL
    /\ LET q == Head(dvd.low)
       IN  \E r \in Replies(q.op) :
             /\ Drive(q.op, r)
             /\ dvd' = [dvd EXCEPT !.low[1].reply = r]
             /\ data' = IF q.op = "Read" /\ r.int = "TC" /\ disc = GameDisc
                        THEN [data EXCEPT ![q.block] = @ \cup {q.transfer}]
                        ELSE data
    /\ clientUnchanged

RequestEnds ==
    /\ Up /\ dvd.low # <<>> /\ Head(dvd.low).reply # NULL
    /\ dvd' = Deliver(dvd)
    /\ clientUnchanged /\ UNCHANGED <<data, driveVars>>

ErrorCodeStored ==
    /\ Up /\ dvd.storing # NULL
    /\ LET stored == [dvd EXCEPT !.storing = NULL]
       IN  dvd' = CASE dvd.storing = "cbForStoreErrorCode1" ->
                       Send(stored, "StopMotor", "Error")
                  [] dvd.storing = "cbForStoreErrorCode2" ->
                       Send([stored EXCEPT !.ResumeFromHere = "NONE"],
                            "Reset", "Error")
                  [] dvd.storing = "cbForStoreErrorCode3" ->
                       stateGoToRetry(stored)
    /\ clientUnchanged /\ UNCHANGED <<data, driveVars>>

ResetAlarmFires ==
    /\ Up /\ dvd.ResetAlarm
    /\ dvd' = ResetAlarmHandler(dvd)
    /\ clientUnchanged /\ UNCHANGED <<data, driveVars>>

CoverAlarmHandler ==
    /\ Up /\ dvd.CoverAlarm /\ ~dvd.PreparingCover
    /\ dvd' = Send([dvd EXCEPT !.PreparingCover = TRUE],
                 "PrepareCoverRegister", "PrepareCover")
    /\ clientUnchanged /\ UNCHANGED <<data, driveVars>>

UserSwaps ==
    Up /\ Swap /\ clientUnchanged /\ UNCHANGED <<dvd, data>>

Next ==
    \/ \E b \in Block :
         \/ DVDReadPrio(b) \/ DVDReadAsyncPrio(b) \/ DVDInquiryAsync(b)
         \/ CancelWithoutWait(b) \/ DVDCancel(b)
    \/ \E t \in waiting : Look(t)
    \/ __DVDPrepareReset
    \/ DriveAnswers \/ RequestEnds \/ ErrorCodeStored
    \/ ResetAlarmFires \/ CoverAlarmHandler \/ UserSwaps

Spec == Init /\ [][Next]_vars

\* The drive answers, interrupts are taken, the NAND call returns, alarms fire,
\* threads that were woken run.  Each of these steps disables itself, so that
\* weak fairness says that its condition does not hold for ever.  The user and
\* the program may do nothing.
Fairness ==
    /\ []<>(dvd.low # <<>> => Head(dvd.low).reply # NULL \/ ~Up)
    /\ []<>(dvd.low # <<>> => Head(dvd.low).reply = NULL \/ ~Up)
    /\ []<>(dvd.storing = NULL \/ ~Up)
    /\ []<>(~dvd.ResetAlarm \/ ~Up)
    /\ []<>(~dvd.CoverAlarm \/ dvd.PreparingCover \/ ~Up)
    /\ \A b \in SyncBlock : \A t \in {Reader(b), Canceller(b)} :
         []<>(t \notin waiting \ dvd.sleeping \/ ~Up)

FairSpec == Spec /\ Fairness

-----------------------------------------------------------------------------
(* Properties. *)

States ==
    {"IDLE", "WAITING", "BUSY", "COVER_CLOSED", "CANCELED"} \cup CoverWaits

TypeOK ==
    /\ dvd.state \in [Block -> States]
    /\ dvd.answer \in [Block -> {"none", "due", "good", "canceled", "dropped"}]
    /\ dvd.executing \in Block \cup {NULL}
    /\ dvd.NumInternalRetry \in 0 .. 3
    /\ {dvd.Canceling, dvd.Breaking, dvd.WaitingForCoverOpen,
        dvd.WaitingForCoverClose, dvd.PreparingCover, dvd.CoverAlarm,
        dvd.ResetAlarm} \subseteq BOOLEAN
    /\ dvd.down \in {NULL, "fatal", "fault", "spin"}

InCoverWait ==
    dvd.executing # NULL /\ dvd.state[dvd.executing] \in CoverWaits

\* The requests whose callbacks carry on the command that is executed.
Steps == {i \in DOMAIN dvd.low : dvd.low[i].cb \notin {NULL, "PrepareCover"}}

\* The command that is executed has one continuation, never none and never two:
\* a request to the drive, the error code that is being stored, the alarm after
\* a reset, or the poll of the cover.  Without one the driver is silent for
\* ever, with two it carries the command on twice.
OneCommandOutstanding ==
    LET count(c) == IF c THEN 1 ELSE 0
    IN  Up => Cardinality(Steps) + count(dvd.storing # NULL)
                + count(dvd.ResetAlarm) + count(InCoverWait /\ dvd.CoverAlarm)
              = count(dvd.executing # NULL)

\* A block says that it waits exactly when it is in a waiting queue.
WaitingExact ==
    \A b \in Block :
      dvd.answer[b] # "dropped"
        => (dvd.state[b] = "WAITING" <=> b \in Queued(dvd))

\* No callback finds executing NULL or the reset alarm in use, and newContext
\* always finds a free context.
NoFault == dvd.down \notin {"fault", "spin"}

\* The driver as a whole: the state of its blocks, its queues and the one
\* activity it has agree after every call and every interrupt, whatever the
\* drive answers and whenever discs come and go and commands are cancelled.
DriverExact ==
    TypeOK /\ OneCommandOutstanding /\ WaitingExact /\ NoFault

\* Every command is answered as the abstract service says: with all its data
\* read from the game's disc, or cancelled because somebody asked for it.
Service == INSTANCE DVDService
             WITH answer <- dvd.answer,
                  complete <- {b \in Block :
                                 b \in InquiryBlock
                                   \/ data[b] = 1 .. dvd.length[b]},
                  spare <- dvd.Breaking, reset <- Resetting
ImplementsDVDService == Service!Spec

\* The user has to insert the game's disc, or to open the cover after an error.
UserMustAct ==
    \/ disc # GameDisc
    \/ dvd.executing # NULL /\ dvd.state[dvd.executing] = "DISK_ERROR"

\* NumInternalRetry is not reset when a command is cancelled: it may step past
\* 2, the only value that ends the retries.
RetriesForever == dvd.NumInternalRetry = 3

\* Every command is answered in the end, through changes of discs, errors,
\* retries and cancellations of others, unless the driver waits for the user or
\* retries for ever.
CommandsServed ==
    \A b \in Block :
      []<>(dvd.answer[b] # "due" \/ UserMustAct \/ RetriesForever \/ ~Up)

\* The blocking calls return: no wakeup is missed between a look at the state
\* and the sleep.  DVDCancel returns even when there is no disc.
CallsReturn ==
    \A b \in SyncBlock :
      /\ []<>(Reader(b) \notin waiting \/ UserMustAct \/ RetriesForever
                \/ Resetting \/ ~Up)
      /\ []<>(Canceller(b) \notin waiting \/ Resetting \/ ~Up)

\* __DVDPrepareReset spins until its callback was called; this happens in every
\* state of the driver, also when a cancellation was under way already.
ResetEnds == []<>(dvd.Prepared # "wanted" \/ ~Up)
=============================================================================
