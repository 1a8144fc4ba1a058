# TLA+ models of the Wii Sports run-time

The repository is a decompilation of Wii Sports: the Revolution SDK
(`src/src/revolution`), the NintendoWare libraries (`src/src/nw4r`), the EGG
framework (`src/src/egg`), the Pack framework of the game (`src/src/Pack`) and
a PC port around them.  This directory holds TLA+ modules of the parts whose
correctness depends on the order in which things happen: the thread kernel that
everything else runs on, and above it the IPC client, the disc driver, the loading of sounds and the saving
of the game.

Paths below are relative to the root of the repository; `OSThread.c` and its
neighbours are in `src/src/revolution/OS/`.  The models are of the original
code, the branch without `PLATFORM_PC`: with it, `include/revolution/OS/*.h`
replaces threads, mutexes and message queues by SDL calls and no-ops.

## 1. Inventory

| Part | State | Operations | Hard parts | What makes it correct |
|---|---|---|---|---|
| OS threads and scheduler (`OSThread.c`) | 32 run queues with `RunQueueBits`, `RunQueueHint`, `Reschedule`, current thread, per thread state / suspend count / base and effective priority / queue pointer / mutex waited for, queue of active threads | create, exit, cancel, join, detach, suspend, resume, sleep, wake, yield, set priority, disable and enable the scheduler | a call may be switched out in its middle; interrupts run kernel calls between any two calls; priority inheritance through chains of owners; suspended sleepers | queues agree with the states and priorities of the threads; the most urgent thread runs; no lost wakeup; the dead stay dead |
| OS mutexes (`OSMutex.c`) | owner, depth, waiters; per thread the mutexes it owns | lock, try, unlock, release all of a dead thread | waiters retry and can be overtaken; a dying thread is switched out half-way | mutual exclusion; no waiter on a free mutex; no unbounded priority inversion |
| OS message queues (`OSMessage.c`) | ring buffer, front, size, two wait queues | send, jam, receive, each blocking or not, also from interrupts | wrap-around in both directions; overtaking; cancelled waiters | a bounded channel, nothing lost, duplicated or reordered; sleepers have a reason |
| OS interrupts (`OSInterrupt.c`) | handler table, masks | dispatch, mask, unmask | a handler changes the scheduler's data under the running thread | one switch, after the handler |
| OS alarms (`OSAlarm.c`) | list of alarms by time, timer | set, periodic, cancel, decrementer handler, reset | handlers set and cancel alarms; alarms on stacks | list order, each expiry once, timer armed for the head |
| OS reset (`OSReset.c`, `OSFatal.c`) | shutdown functions | shutdown, restart, kill threads | kills threads in any state | every function agrees before the final call |
| IPC client (`IPC/ipcclt.c`) | ring of 16 requests with wrapping counters, mailbox credit, relaunch flag | synchronous and asynchronous requests, reply and acknowledge handlers | completion before sleep, requests from callbacks, dropped requests, a relaunch that fails or succeeds | every accepted request is sent once, in order, and completed at most once; the credit fits the mailbox; a request's memory is the IOS's until it answers |
| DVD (`DVD/dvd.c`, `dvdqueue.c`, `dvdfs.c`, `dvd_broadway.c`) | waiting queues by priority, the command that is executed, resume point, retry counter, cancellation and break flags, cover alarms, ring of 4 request contexts | read, inquiry, cancel, blocking forms, prepare reset; callbacks of each request, alarms | cancellation in every state, discs that come and go, retries through a reset of the drive, callbacks that start the next command | one command at a time with one continuation; each is answered once, with all its data or cancelled; who waits is woken |
| NAND, FS | safe-open state | safe open and close | failing steps, retry | a failed save leaves the old file |
| DSP tasks, AX | task list, current and rude task, voices | add, cancel, assert, mail handler | yields and cancellation race with mails | list and current task agree |
| MEM heaps | free regions, saved states | allocate, free, resize, record and restore | alignment arithmetic | blocks are disjoint and inside the heap |
| nw4r sound: task thread, sound thread (`snd_TaskManager.cpp`, `snd_TaskThread.cpp`, `snd_SoundThread.cpp`, `snd_SoundSystem.cpp`) | task lists by priority, current task, flags, threads that wait for the end of a task | append, cancel, cancel all, wait, execute, shut down and start again | cancellation while a task is queued, popped, executed or refilling the list; three threads and the audio interrupt | a cancelled task does not run afterwards; whoever waits for its end returns; shutdown ends |
| nw4r sound: streams and sequences (`snd_StrmPlayer.cpp`, `snd_SeqSound.cpp`) | file, channels, voice, list of data tasks, flags | prepare, start, update, stop, shutdown, load tasks | stopped from two threads while a third loads | no load on a closed file; a freed object gave everything back |
| EGG task thread (`eggTaskThread.cpp`) | job slots, message queues | request, run, end message | slot reuse while the thread cleans up | a job that is queued runs once, its end is told |
| Pack save data (`RPSysSaveDataMgr.cpp`) | flags, error code, data and its buffer, two files and a temporary one | load, save, create, delete, check; on the NAND thread or directly; error dialogue | each of up to nine NAND calls may fail, power may go off | what was not saved is reported; a torn file is never taken for a good one; flags agree with the files |
| graphics, layouts, sequences, faces, drivers, Bluetooth stack, C library, debugger stub, PC shim | | | | not modelled: see section 7 |

How the parts interact.  EGG and nw4r threads are OS threads; they exchange
work through OS message queues, thread queues and mutexes.  Asynchronous IPC,
DVD, alarm and audio completions arrive as interrupt handlers, which wake and
resume threads or send messages without blocking.  Every one of these ends in
`OSSleepThread`, `OSWakeupThread`, `OSResumeThread` or a message queue, which
is why the kernel is modelled first.

## 2. The modules

| Module | Models | Uses |
|---|---|---|
| `OSKernel` | the data of `OSThread.c` and its helpers: `SetRun`, `UnsetRun`, `SetEffectivePriority`, the two walks, `SelectThread`, and the calls that other calls make (`OSSleepThread`, `OSWakeupThread`, `OSResumeThread`) | |
| `OSMutex` | `OSMutex.c`: the actions on mutexes | `OSKernel` |
| `OSThread` | the other calls of `OSThread.c`, the idle loop and interrupts, the whole specification `Spec` and its properties | `OSMutex`, `MutexService` |
| `MutexService` | abstract: what the mutexes promise | |
| `OSMessage` | `OSMessage.c`, one queue, on top of the whole kernel | `OSThread`, `MessageChannel` |
| `MessageChannel` | abstract: a bounded channel with two ends | |
| `OSAlarm` | `OSAlarm.c`: the list of alarms, the decrementer, the exception handler, `OnReset` | `AlarmService` |
| `AlarmService` | abstract: what alarms promise | |
| `IPCClient` | `ipcclt.c` and, external, the IOS on the other processor | `IPCService` |
| `IPCService` | abstract: requests accepted, issued, completed or lost | |
| `DVDDrive` | external: the drive behind `/dev/di` and the user who exchanges discs | |
| `DVD` | `dvd.c` with the queues of `dvdqueue.c`, the contexts of `dvd_broadway.c` and the blocking reads of `dvdfs.c`; the whole specification | `DVDDrive`, `DVDService` |
| `DVDService` | abstract: commands answered once, with their data or cancelled | |
| `SndTaskManager` | `snd_TaskManager.cpp`, `snd_TaskThread.cpp`: the lists and the task thread, what its clients call | |
| `SndStrmPlayer` | `snd_StrmPlayer.cpp`: a stream, its load tasks, `Stop` by two threads | `SndTaskManager` |
| `SndSystem` | `snd_SeqSound.cpp`, `snd_SoundSystem.cpp`, the sound thread's shutdown; the whole specification and its properties | `SndStrmPlayer` |
| `EggTaskThread` | `eggTaskThread.cpp`: slots, requests, the thread's loop | |
| `RPSysSaveDataMgr` | `RPSysSaveDataMgr.cpp` composed with the NAND thread; the whole specification | `EggTaskThread` |
| `MCOSThread`, `MCOSMessage`, `MCOSAlarm`, `MCIPCClient`, `MCDVD`, `MCSndSystem`, `MCRPSysSaveDataMgr` | instances for TLC | |
| `OSKernel_proofs` | what each function of the kernel does to the scheduler's data, for the proofs | `OSThread`, `DataFacts` |
| `OSThread_proofs` | the proofs of the kernel's properties, that it implements `MutexService`, that priorities are inherited exactly and that the most urgent thread runs; and, on top of them, that the ring buffer of `OSMessage` implements the channel and that no wakeup is lost | `OSMessage`, `OSKernel_proofs` |
| `IPCClient_proofs` | the proofs of the client's safety and that it implements `IPCService` | `IPCClient` |
| `DataFacts` | least and greatest elements, induction over sets of naturals, iterated steps and lists without duplicates, for the proofs | |
| `OSAlarm_proofs` | the proofs of the list, of the timer and that they implement `AlarmService` | `OSAlarm`, `DataFacts` |
| `RPSysSaveDataMgr_proofs` | the proofs of the save data manager's safety | `RPSysSaveDataMgr`, `DataFacts` |
| `SndSystem_proofs` | the proofs of the sound system's safety | `SndSystem`, `DataFacts` |
| `DVD_proofs` | the proofs of the disc driver's safety and that it implements `DVDService` | `DVD`, `DataFacts` |

**Atomicity.**  The machine has one processor and every entry point of the
kernel brackets its body with `OSDisableInterrupts`/`OSRestoreInterrupts`.  A
call is therefore one step up to the point where `SelectThread` loads another
thread's context.  A thread that is switched out inside a call resumes there
when it is next selected, and `pc[t]` says where: in the loop of
`OSLockMutex` after `OSSleepThread` (`Locking(m)`), in `OSJoinThread`
(`Joining(t)`), in the rest of a termination after `OSWakeupThread`
(`Terminating(t)`), in `OSSleepTicks` before it cancels its alarm
(`SleepingTicks`), or in the loops of the message queue.  Between two calls
(`UserCode`) and in the idle loop interrupts are enabled and a handler may run.

**State.**  The scheduler's variables and the fields of the `OSThread`
structures are one record `k`; a C function that mutates them is an operator
from such a record to the record it leaves, and a call is the composition of
the operators in the order of the source.  `k.q` maps every thread queue to the
sequence of its threads; the doubly linked lists appear as sequences, and
`k.queue[t]` keeps the pointer a thread has to its queue.  `RunQueueBits` is
the set of the levels whose bit is set, so that `__cntlzw` is the minimum.
`k.alarms` are the threads on whose stacks an alarm of `OSSleepTicks` is set; it
expires at any moment (`SleepAlarmHandler`), the list of alarms itself being
`OSAlarm`.  `owner`, `lock` and `mutexQueue` are the mutex fields.  The walks of
`UpdatePriority` and `__OSPromoteThread` are one operator, `Walk`, that iterates
a step `WalkBound` times; a walk changes a thread at most twice (a second time
only when it goes around a cycle of waiters), so the bound is never the reason
a walk ends.

**Alarms.**  `OSAlarm` stands alone: the kernel sees an alarm only as the
interrupt that its handler is (`InterruptResume`, `SleepAlarmHandler`).  Here the links are kept as
they are in the code, `AlarmQueue.next` and `.prev`, because inserting and
unlinking in the middle, and the look-ahead of `OnReset`, are what could go
wrong; `handler` is the set of the alarms whose handler is not NULL.  `now` is
the time base and `timer` the time at which the decrementer passes zero.  Every
function is one step, as interrupts are disabled.  A handler is a sequence of
steps between `DecrementerExceptionCallback` and `HandlerReturns` (`running` is
its alarm), in which it may set and cancel alarms, its own included, and time
goes on, so that other alarms become late.  Threads' calls, time and exceptions
are interleaved in any order; an exception that comes late stands for
interrupts that were disabled.  `DecrementerEarly` is the exception that finds
nothing due: of a decrementer too small for the wait, or raised for an alarm
that was cancelled since.  Not modelled: the wrap of the 64-bit time, tags and
user data.

**IPC client.**  `c` holds the static variables of `ipcclt.c`; its two counters
run modulo `Width`.  `PPCMSG` and `ARMMSG` are the two mailbox registers, `ackFlag`
and `ready` the bits Y2 and X2 of the control registers, `ios` the requests the
IOS works on, in any order.  A call is one step from `OSDisableInterrupts` to the
end or to `OSSleepThread`; `woken` are the callers whose sleep has ended.  The
interrupt handlers are steps, but a callback is an interval (`callback`) in which
further asynchronous requests are made.  `use` says which blocks are allocated;
a block that is freed may be used for the next call, of another kind.  A relaunch
that fails is a reply to the reboot request; one that succeeds is the first
interrupt of the new IOS, which knows nothing of the requests of the old one.
That the new IOS starts only after the last interrupt of the old one was handled
is an assumption about it.

**DVD.**  Entry points and callbacks run with interrupts disabled, so that each is
one step with all the functions it calls; `dvd` is one record for the statics of
the driver, the fields of the command blocks and the requests in flight
(`low`), and the C functions are operators on it.  The callbacks call each other and start
the next command (`stateReady`), which may be answered at once and start the one after it: `stateBusy`
answers a read of nothing and calls `stateReady` again.  As each turn takes a command from
the waiting queues, there are at most as many turns as blocks, and `stateReady` is
a function of their number (`Take`, `TakeNext`).  A request takes a context until its callback has returned, hence
the drive answers in order (`DriveAnswers`) and the answer is delivered later
(`RequestEnds`).  Error codes are those `CategorizeError` and its caller tell apart.
A read is a number of transfers; `data` records which of them were read from the
game's disc, so that a read answered as good can be compared with what it got.
`down` says that the program stopped: a fatal error with its message, a NULL
`executing`, or `newContext` spinning.  The drive makes its errors and the user exchanges discs at any step, a bounded
number of times.
The waits of `DVDReadPrio` and `DVDCancel` are `Look` and sleep in the one queue
`__DVDThreadQueue`; the spin of `__DVDPrepareReset` is `Prepared = "wanted"`.

**Sound.**  A section of the code with interrupts locked is one step of its
thread; `worker.at` and `pc` say where the threads are.  The sound thread's mutex
is held for a whole frame, during which the main thread's sections under that
mutex wait (`InSoundFrame`).  The threads run by priority (`Ready`, `SoundReady`,
`Runs`): task thread 3, sound thread 4, main 16, the defaults of `SoundSystem`;
the others run while the task thread reads from the disk.  Taking a free data
task of the pool is `CHOOSE`, since no property tells the tasks apart.

**Save data.**  An operation is the sequence `todo.calls` of the calls it makes
to the NAND library, each of which succeeds or fails, and `todo.by` the thread in
it; the conditions on `mFlags` around each function are `Skipped`.  File contents
are what a reader can tell: absent, torn, or a value.  The NAND thread's loop is
modelled statement by statement, since its requester is assumed to be more urgent
and to run between any two of them.  `PowerOff` may come at any step, in the
middle of a write as well; files keep what they had, the temporary one too.

**What callers must do.**  Six guards exclude calls whose outcome the code
leaves undefined, and are the model's assumptions about the program:
the storage of a thread is reused only when nothing refers to it any more
(`Reusable`); an alarm is not set while it is in
the list (`MaySet`); a thread is joined while it is active; nobody blocks or ends
itself with the scheduler disabled (`MayBlock`: `OSReset.c` and `OSFatal.c` are
the callers that disable it); a thread that is part of a deadlock of mutexes is
not cancelled (`Deadlocked`, section 6), and neither is one in `OSSleepTicks`,
whose alarm would stay in the list.  Above the kernel two more:
a sequence sound is not shut down while its load is still queued (section 6), and
an operation on the save data starts only when `isAsyncFinish` says that none is
going on.  A command of the DVD driver is not cancelled after a reset dropped it,
its callback issues no further command, and a read that waits for the cover is not cancelled
during a poll (`MayCancel`, section 6).

## 3. The runs

`sndtask` and `save` check that the system never stops.  The other runs use
`CHECK_DEADLOCK FALSE`: a program may end all its threads or put them all to
sleep, the requests of `ipc` are bounded, and a fatal
error of the disc drive stops the program.

| Run | Instance | Checks | Shows |
|---|---|---|---|
| `lifecycle` | 3 threads, 2 priorities, one wait queue, suspend count at most 1, all calls on threads, interrupts that wake and resume | `RunQueueExact`, `WaitQueueExact`, `HighestPriorityRuns`, `DeadStaysDead` | whatever order threads are created, suspended, put to sleep, cancelled, joined and detached in, the queues hold exactly the threads they should |
| `preemption` | 3 threads, 3 priorities, suspend count up to 2, `OSSleepTicks`, the scheduler disabled and enabled | `PreemptionRemembered`, `SleepAlarmOnStack` | a switch that is put off is remembered in `RunQueueHint`; no alarm is left set when the sleep on whose stack it is has ended |
| `mutex` | 3 threads, 2 mutexes, priorities changed at run time, suspension, cancellation | `WaitQueueExact`, `PriorityInheritanceExact` | inherited priorities are exactly what the waiters justify, through chains of two owners and through deadlocks |
| `termination` | 3 threads that are joined, 2 mutexes of depth up to 2 | `TypeOK`, `OwnershipExact`, `WaitersHaveOwner`, `TerminationFollowsThrough`, `ImplementsMutexService` | ownership survives exits and cancellations at every point; the kernel implements `MutexService` |
| `inheritance` | 4 threads of 4 priorities, 2 mutexes locked in order | `UrgentWaiterServed` | no unbounded priority inversion |
| `message` | 3 threads, 2 messages, capacity 2, handlers that send, cancellation | `SleepersMustWait`, `ImplementsChannel` | the ring buffer with its wait loops is a bounded channel and loses no wakeup |
| `alarm` | 3 alarms, one-shot and periodic, time up to 4 and then as far as the alarms set before need | `AlarmListExact`, `TimerCoversFirstAlarm`, `ImplementsAlarmService`, `AlarmExpires` | the doubly linked list, the timer and the exception handler are an alarm service: nothing expires early, out of order, twice, or off its grid, and no alarm is forgotten or starved |
| `ipc` | 4 blocks, ring of 2, counters modulo 8, 5 requests | `RequestsOwned`, `CreditExact`, `MailboxHandshake`, `StallsOnlyAfterFailedRelaunch`, `ImplementsIPCService`, `AcceptedCompletes` | the ring, the credit and the handlers implement the IPC service through relaunches; a stall has one cause only |
| `dvd` | a read of 1 transfer by a thread that waits, an asynchronous read of 0 or 2, an inquiry; 2 discs, 3 kinds of errors | `DriverExact`, `ImplementsDVDService`, `CommandsServed`, `CallsReturn`, `ResetEnds` | through errors, retries, exchanges of discs and cancellations the driver has one continuation for its command, answers each as the service says, and leaves nobody waiting |
| `sndtask` | a stream with 3 data tasks, a sequence, three threads and the interrupt | `WorkerFileOpen`, `DataTasksExact`, `FreedIsClean`, `StopEnds`, `SystemShutdownEnds` | stops, cancellations and the shutdown of the sound system at every point of a load leave nothing behind and end |
| `save` | 2 job slots, room for 1 end message, all operations, failures, power off | `SavedOrReported`, `ExistFlagsTrue`, `BannerAppearsWhole`, `BegunAccessEnds` | no failed NAND call is forgotten, whatever fails and whenever the power goes |
| `savelost` | the same | `NandAccessHappens` (violated) | a request in the clean-up window of the task thread is lost (section 6) |

**Bounds.**  Three threads are the fewest with a running thread, an owner and a
waiter, and with two waiters in one queue to order; four are needed for an
owner, a waiter, and a thread of middle urgency besides main.  Two mutexes give chains
and cycles of waiters.  Two priorities distinguish an inherited from a base
priority, and `OS_PRIORITY_MAX` is one above them so that no priority in use
coincides with the value a suspended sleeper gets.  Capacity 2 lets the ring
wrap in both directions with a message inside.  `MaxSuspend`, `MaxLock` and the
single level of `OSDisableScheduler` cap counters in the guards.  Threads other
than main, mutexes and messages are symmetric where no liveness property is
checked.

For alarms three are the fewest with one in the middle of the list; `MaxDecrement`
is below the longest wait, so that the decrementer is too small for it; the
periods 2 and 3 make two grids that meet and miss each other.  `alarm` identifies
states that differ only in fields of alarms that are not set (`AlarmView`): the
code writes them before it reads them, so that such states have the same futures,
for `AlarmExpires` too.  One alarm counts as the DVD driver's, the
ones `OnReset` keeps.

A ring of 2 with 4 blocks is full while one request is at the IOS and one more
comes; 5 requests wrap its indexes twice, and one of the blocks is an
asynchronous, then a synchronous request, another a request with and without
relaunch.  `Width` is larger than the number of requests: the counters' wrap is
in section 6.  Three blocks are the fewest with which `UpdateBuffer`
(`Blocks - 2`) loads during playback; one sequence task suffices, as sequences
meet only in the task lists.  In `dvd` at
most 2 commands are issued, the fewest with one that inherits the state the other
left.  `ContextMax` is 4 as in the code, of which at most 3 are in use: one by the
callback that runs and two by the requests it sends.  Up to 2 errors of the drive and 2
exchanges, 3 together, give a first error, a retry and the second error that ends
it, and an error while the driver identifies a disc that was put in.  Two
transfers of a read are enough for one to be broken off.  In `save` 2 slots let a request come while another
job is cleaned up; one end message suffices for one operation at a time.

The type invariants of `IPCClient`, `SndSystem`, `RPSysSaveDataMgr` and `DVD` are
conjuncts of `RequestsOwned`, `DataTasksExact`, `ExistFlagsTrue` and `DriverExact`.

**Fairness** (`OSThread!Fairness`, used by `inheritance` only).  The
processor goes on with a call it has begun, the idle loop ends when a thread is
ready, and a thread that owns a mutex and has the processor unlocks it in the
end, that is, critical sections are finite.  Nothing is assumed about code
outside critical sections: a thread of middle urgency may run for ever, which
is exactly what priority inheritance has to defeat.  The conjuncts are written
as `[]<>` of state predicates because each names the condition that the weakly
fair step makes true.  `InOrder` makes the program lock `m1` before `m2`: the
kernel does not prevent deadlocks, and with one nobody is served.

`OSAlarm!Fairness` (`alarm`) assumes that time passes, that handlers return and
that an exception which was raised is taken in the end, as nobody disables
interrupts for ever.  `DVD!Fairness` assumes that the drive answers, that its
interrupts are taken, that the NAND call which stores an error code returns, that alarms fire and
that woken threads run.  In both each step disables itself, or is
possible a bounded number of times only, so that weak fairness is written as
`[]<>` of its condition being false.  The user may leave the drive empty and the
program may issue nothing; `CommandsServed` and `CallsReturn` therefore excuse the states in
which the user has to act (`UserMustAct`).  About the program nothing is assumed:
it may set alarms again as often as it likes.

`IPCClient!FairSpec`: interrupts are enabled again, callbacks and woken callers
go on, and the IOS takes what is in the mailbox and answers each request; the
answers need strong fairness because one answer disables the others until it was
read.  `SndSystem!Fairness`: the task thread is the most urgent and reads end
(weak); a client that is blocked or outranked gets its turn while the disk is
read (strong).  `RPSysSaveDataMgr!FairSpec`: NAND calls return, the NAND thread
runs while the main thread waits for the next frame, and the main thread looks
for end messages in each frame.  Sounds are started and saves requested as the
program likes.

## 4. What is proved

With TLAPS, for any finite set of threads and any mutexes, priorities, calls and
handlers:

- `OSThread_proofs!MutualExclusion`: `Spec => []OwnershipExact`.  A mutex is free exactly when
  its lock count is 0; a mutex is in the mutex queue of its owner, once, and in
  no other.  So at most one thread owns a mutex, and the release of all the
  mutexes of a dead thread finds each of them.

- The rest of `OSThread_proofs`, for any number of priorities, too, and through walks of
  any length: `TypeCorrect` (`Spec => []TypeOK`), `RunQueuesStayExact`
  (`RunQueueExact`), `WaitQueuesStayExact` (`WaitQueueExact`), `NoWaiterWithoutOwner`
  (`WaitersHaveOwner`), `AlarmsStayOnStack` (`SleepAlarmOnStack`),
  `EndsAreFollowedThrough` (`TerminationFollowsThrough`), `TerminatedThreadsStayDead`
  (`Spec => DeadStaysDead`) and `KernelImplementsMutexService` (`Spec =>
  ImplementsMutexService`).

- The inheritance of priorities in `OSThread_proofs`, for chains of owners of any length and deadlocks, too:
  `PrioritiesAreInherited` (`Spec => []PriorityInheritanceExact`),
  `SwitchesAreRemembered` (`Spec => []PreemptionRemembered`) and, of programs that do not
  disable the scheduler, `MostUrgentThreadRuns` (`Spec => []HighestPriorityRuns`: while
  the scheduler is disabled the code makes no switch, and a less urgent thread may run on).

- `OSThread_proofs!RingImplementsChannel`: `MessageSpec => ImplementsChannel`.
  For every capacity the ring buffer, with the waiting loops of its three
  operations and the handlers that send, implements `MessageChannel`.
- `OSThread_proofs!NoLostMessageWakeup`: `MessageSpec => []SleepersMustWait`, with
  `MessageQueueStaysSound` (`MessageSpec => []MessageInv`): no thread sleeps for a message
  that is there, or for room that is there, for any capacity and any number of threads.

- `IPCClient_proofs`, for any set of request blocks, capacity of the ring and width of the
  counters, their wrap-around included, and whatever the IOS does: `MailboxCreditIsExact`,
  `RequestsHaveOneOwner`, `MailboxNeverOverwritten` (`Spec => []CreditExact`,
  `Spec => []RequestsOwned`, `Spec => MailboxHandshake`) and
  `ClientImplementsService` (`Spec => ImplementsIPCService`); and if the
  counters do not wrap, `SilentOnlyAfterFailedRelaunch` (`MaxQueued < Width` and
  `Spec => StallsOnlyAfterFailedRelaunch`; why it needs that is in section 6).

- `OSAlarm_proofs`, for any finite set of alarms, times, periods and width of the
  decrementer: `AlarmListIsExact` and `TimerCovers` (`Spec => []AlarmListExact`,
  `Spec => []TimerCoversFirstAlarm`), and `AlarmServiceImplemented` (`Spec =>
  ImplementsAlarmService`).

- `RPSysSaveDataMgr_proofs`, for any set of job slots: `SaveIsOnTheNand`, `ExistFlagsAreTrue`
  (`Spec => []SavedOrReported`, `Spec => []ExistFlagsTrue`) and `BannerIsWhole`
  (`Spec => BannerAppearsWhole`).

- `SndSystem_proofs`, for any set of tasks, any finite pool of data tasks and any number of
  blocks to load before the start: `FilesStayOpen`, `DataTasksStayExact` and
  `FreedStreamsAreClean` (`Spec => []WorkerFileOpen`, `Spec => []DataTasksExact`,
  `Spec => []FreedIsClean`).

- `DVD_proofs`, for any finite set of commands, the four priorities of `dvdqueue.c`, any lengths of
  reads, any kinds of error, and however often the drive fails and the discs
  are exchanged: `DriverInvariant` (`Spec => []DVDInv`), `DriverStaysExact` (`Spec => []DriverExact`) and
  `DriverImplementsService` (`Spec => ImplementsDVDService`).  They assume `ContextMax >= 3`
  (`DVD_LOW_CTX_MAX` is 4) and `~PollCancel`: a cancellation during a poll of the cover does break
  the driver (section 6).

`OwnershipExact` is not inductive: `OSUnlockMutex` searches the queue of the
current thread, and `__OSUnlockAllMutex` takes its head, so the types of the
three mutex variables must be known.  The inductive invariant is `OwnershipInv ==
OwnershipType /\ OwnershipExact`.  The lemmas follow the code: `Unlink`,
`Append` and `Tail` keep a list without duplicates and change its set of
elements as expected; taking, releasing and re-locking a mutex preserve the
invariant (`TakeMutexOwnership`, `FreeMutexOwnership`, `DepthOwnership`);
each action of `OSMutex` is one of these, and the actions of `OSThread` leave
the three variables alone.  The proofs about the kernel use `KernelAssumption` (`NULL` is neither
a thread nor a mutex), `MutexAssumption` and `ThreadAssumption`, which TLC evaluates in every run.

For the queues the invariant is `KernelInv == OwnershipInv /\ ConsistentNow /\
EndsKnown`.  What has to be strengthened is time: a function of the kernel takes
threads off their queues, calls others while they are off, and may itself be called
in the middle of a third.  `Good(kk, L)` is what holds of the record `kk` in
between: each queue has its threads once and is sorted, `RunQueueBits` is exact, every
thread is where its state and its queue pointer say, but for those of `L`, which are in no queue.
`OSKernel_proofs` has one lemma for each function, from `SetRun` to `OSCancelThread`,
which says from which `L` to which it goes, and names a frame (`Frame`,
`Repriced`, `Follows`, `Evolves`, `Ended`): what it changes besides.  The
lemmas are composed as the source composes the calls.  A walk
(`UpdatePriority`, `__OSPromoteThread`) is an iteration of one step: `DataFacts` gives
the sequence of its states, and `ClosedFor` a set of threads that the walk does not
leave, so that it never comes to a thread that is in no queue.  Here the guard
`Deadlocked` of `OSCancelThread` is needed: without it the walk comes back to the thread that was
unlinked (section 6); `TwicePigeon` shows that a chain of owners longer than the
number of threads has a cycle, which is what the bounded walk of `Deadlocked` detects.
The wakeup of a whole queue is a fold; `WakeEffect` and `WokenTrans` follow it thread by thread.

`Consistent(kk, pp, ow, mq)` adds to this what ties the record to the other
variables: who may be where in its code (`ProcessorExact`, `LivesExact`), the alarms, the ends
of threads (`EndsFollowed`), and that waiters have owners.  Its arguments are what a call has computed
so far, so that each action of `OSThread` and `OSMutex` is one lemma that carries
it through the calls (`CancelConsistent`, `ReleaseConsistent`, ...).
`EndsKnown`, that who is being ended is terminated, is what the refinement adds.

`PriorityInheritanceExact` is proved next to this, relative to `KernelInv`.  `Lends` is the
function from a thread to the owner of the mutex it waits for; a priority is
`Exact` if it is the least of the base priority and of the priorities lent.  The invariant
is `InheritanceInv`: all threads that have a priority at all are exact (`Inheriting`), and the
mutex that a sleeper names is the one its place in the code says (`Waits`).  Within a call it
does not hold: in a walk one thread at a time is not exact, the
owner of which the walk looks next (`OthersExact`).  Two arguments show that a walk ends with
nobody left behind.  One step of `UpdatePriority` makes its thread exact and can
disturb only the thread it lends to.  As long as it goes on, the set of the threads whose
priority it may still change loses one in each step (`Shrinks`), in a
cycle of owners as well, so that the walk stops before `WalkBound` (`UpdateSettles`).  `PromotionSettles` is the same for
`__OSPromoteThread`, which only raises priorities.  Then the calls: each changes what is
lent by one thread or one mutex (`KeepsRanks` for those that change nothing), and
calls a walk from the thread concerned.

The preemption properties need `Prompt`: a thread readier than the current one is in a run
queue only if `RunQueueHint` is set or the processor is in the middle of a
switch.  `OSUnlockMutex` (`OSMutex.c:70`) lowers the priority of the current
thread without setting the hint.  That is harmless only if the priority was
exactly the inherited one: then the thread owed it to a waiter of the mutex, and
`OSWakeupThread` has just readied this waiter and set the hint (`SuspendedLendNothing`: a
suspended waiter lends nothing).  Hence these theorems rest on `PrioritiesAreInherited`.

For the message queue the invariant is the shape of the ring, `RingInv` (`front`
is an index, `size` at most the capacity).  `WrapOnce` replaces the modulus of
the index computations by one subtraction, since no index goes beyond one turn;
with it `PutLastAppends`, `PutFirstPrepends` and `TakeFirst` show what the stores
of the code do to the sequence `Pending`, and `StepRefines` maps every action of
`MessageNext` to a step of the channel or to a stutter.  That proof uses
`MessageAssumption` (the capacity is positive, the two thread queues are different) and
nothing about the kernel: the channel is safe whatever the scheduler does.

`SleepersMustWait` needs the kernel.  Its invariant `MessageInv` joins `KernelInv`, `RingInv` and
`SleepersInv`, which is the property.  The facts about the kernel's
functions say `Quiet` of each: nobody goes to sleep in a queue of the program.  So only a
call that found the ring full or empty adds a sleeper (`Waited`), and the calls that
change the ring wake the whole queue of the other side (`Stored`, `Taken`); a woken thread that is
overtaken looks again before it sleeps.  A thread in one of the loops of
`OSMessage.c` has a `pc` that `OSThread` does not know; `KernelInv` therefore says
nothing of such places but that they are outside the kernel's own waits, and
the known places are a part of `TypeCorrect` (`CodesKnown`).  Two obligations of the
callers are guards of the model: nobody blocks with the scheduler disabled (`MayBlock`, also in
the other sleeping calls), and the two thread queues inside the
`OSMessageQueue` are slept on by these calls only.

For the IPC client the invariant `IPCInv` has five parts.  `RingInv` is the shape
of the ring, said of the client's record, so that it applies to the record between
`__ipcQueueRequest` and `__ipcSendRequest` too; the requests that wait are
different, and back is as many places behind front as the counters differ.
`PlaceInv` is `RequestsOwned` without the types, and says that the mailbox
and `callback` are places of their own too.  `MailboxInv` holds what the
properties do not say and every handler relies on: the IOS does not take a
request while its last acknowledgement is unread, does not answer while the last
answer is, and an open relaunch is the last request that was sent, so that
its request is in the mailbox, at the IOS or answered, or else the new IOS has
started and reported.  `CreditExact` and the types are the others.
`QueueRequestAppends` and `SendRequestTakes` show what the two functions do to the
sequence `Accepted`; `SendNextOutcome` joins them; one lemma per action
(`IpcAckHandlerStep`, `RequestStep`, ...) proves the parts of the invariant after the
step and names the step of `IPCService` that it is.  TLC checked `IPCInv` first,
also with counters that wrap.  The proofs use `IPCAssumption`
(the ring is not empty and the counters tell its fill levels apart).

For the alarms the invariant is `AlarmInv`.  `AlarmListExact` walks the links from
the head, which no step can be followed along; its part `Listed` says instead that
the links are those of some sequence, without repetitions, of the alarms that are
set, sorted by time.  `LinkChain` and `UnlinkChain` show what inserting in
front of a link and unlinking do to that sequence, case by case as the code tells
the ends of the list apart; `FirstAfterPlace` that the search of `InsertAlarm`
stops at the first later alarm.  `TimerSet` is `TimerCoversFirstAlarm` and one thing
more, that the decrementer is never set to a time at which a periodic alarm was
started just now: an exception that takes it then would find no point of the grid
that has passed.  `OnGrid` says that periodic alarms are due at points of their
grids; `PeriodicPoint` computes the next one from the remainder of the code.
The loop of `OnReset` is a function of the number of its turns (`ResetTurn`,
`LoopResult`): after each turn the look-ahead is still a member of the list or
NULL, although the turn unlinked the alarm before it, and the number of members
bounds the turns.  `StepImplements` maps each action to a step of the service.

For the save data the invariant is `ManagerInv`.  `SavedOrReported` looks at the end
of a save; `Progress` says of every moment before it that the calls still to be
made are the rest of one operation, and, unless an error is kept, that each call
before them had its effect (`Effect`), which later calls leave alone.  `CallEffect`
is what a call contributes, and there is one lemma for the calls of each kind
(`WriteEffect`, `MoveBannerEffect`, ...), with success, failure and skipping apart.
`OneJob` and `OneOperation` say where a job can be between the request, the two
threads and the end message, so that no second operation runs between a write and
the end of the save; this also holds through the lost job of section 6, whose
end message never comes.  `SaveJob` joins the two.  `NullAssumption` says that
`NULL` is none of the names of the two threads.

For the sound system the invariant is `SndInv`.  A task is `Busy` when it is queued or
executed, and the parts say who may be busy when.  `WorkerInv` and `ListInv` are about
the task thread and the lists: a task that is executed is in no list, and while a client
runs, which needs the task thread asleep, reading or gone, the executed task is the
current one (`WorkerIdle`); so the window between `PopTask` and `BeginTask`, in which a task is
in no list and not current, is never seen by `CancelTask`.  `ClientInv` says that one
client at a time is in `Stop`, and that the sound thread has ended when the lists are
emptied.  `LifeInv` orders the life of a stream: it is registered while it is
active and nobody stops it, and it is stopped before it is freed.  `LoadInv` is
`DataTasksExact` with the phases of a load: the header task is busy only before the
stream is prepared, no block is in the list before the header's last loop, and
until then the list is no longer than the counter, which is why a task of the pool
is free whenever a block is queued (`PoolHasFree`).  `HeaderInv` and `SeqInv` are
what the waits in `CancelTask` leave true: past the cancel of the header it is neither queued nor
executed, whatever the other threads append meanwhile.  `LinkLast`, `Unlink` and
`Pop` say what the list operations do to who is queued, and there is one lemma per action.
`StrmAssumption` and `SeqAssumption` say which tasks there are and that the pool is at least as large
as the number of blocks to load (`snd_StrmPlayer.cpp:371` limits it).

For the disc driver the invariant is `DVDInv`.  `DriverExact` counts the activities of the
driver and says nothing of which command they are for, so that no step preserves it
alone.  The main part, `DriverInv`, is about the record of the driver.  `Blocks`: a command that is not
executed is in the queue of its priority or done, the one that is executed is at work and not answered.
`Continues`: the command that is executed has one continuation, and only one,
a request of its own that fits its callback (`CarriesOn`), the
store of an error code or the reset alarm; if it waits for the cover, or there is
no command, there is none.  `Cover`: the flags of the
wait for the cover and their alarm.  `Polling`: a poll of the cover is
the first request, in front of the continuation.  `Unfinished`: less than the whole of
a read was transferred, which is what makes the last transfer the end.  `CancelsWork`: what
is being cancelled is at work, hence `CheckCancel` finds it.  Callbacks call the
functions that start the next command, which call others, all in one step; in
the middle there is a command without a continuation.  Each lemma is about one
C function: it gives the continuation the function leaves, for the command and the
requests in front of it (`Onward`, if the command goes on; `Ended`, if it was answered and the
next one started; `Outcome`, either), and the callbacks are put together from these.
The loop over reads of nothing is followed turn by turn: a
queue gets shorter with each, which bounds the turns, and a command that is
answered in it leaves the others as they were.  `Canceled`, `Issued` and `ResetBegun` are the same for
the calls of the program.

The other parts tie this to the history.  `AskedOf`: a command whose
cancellation was asked for is answered, or is the one that is being cancelled.  `DataOf`: the transfers
of the command that is executed that were read from the game's disc are those
counted in `transferTotal`, and one more if the drive carried out the read whose
answer was not yet delivered (`ReadDone`).  `DiscInv`: a drive whose partition
is open has the game's disc; if only the ID of another disc was read, no request in
flight opens the partition, and the ID that was answered is not the
game's (`Suspicious`).  This is why a transfer of another disc is never counted.
`DriverImplementsService` takes one action at a time: which block it answers and how, and that
a break left over is used up at most once.  The proofs use
`DVDAssumption`, `NullAssumption` and `ReplyAssumption` (`NULL` is none of the names and answers).

In all of these TLC checked the invariant on the runs' instances before it was
proved.  Loops and walks are reasoned about with `DataFacts`: a set of naturals that
holds 0 and successors is `Nat`, which needs no operator as parameter.

Only model-checked: liveness, which is beyond the prover (`CommandsServed`, `CallsReturn`, `ResetEnds`, `AlarmExpires` and the
like, each under the fairness of section 3).  All other properties of the runs that pass
are theorems.

## 5. Mutants

For each property of each run `PROJECT.json` names a definition and a plausible
wrong form of it, kept next to the definition in the module (a bit cleared too
early, a missing hint, a promotion left out, a waiter not woken, ...).  With the
wrong form the run finds the property violated.  One form is
no mistake: `InsertAlarm` in front of alarms with the same end passes the run,
since nothing promises their order.

## 6. What the models brought up

- **A thread that ends itself while it owns mutexes may never finish ending.**
  `OSExitThread` and `OSCancelThread` set the state to EXITED or MORIBUND and
  then call `__OSUnlockAllMutex`.  `OSWakeupThread` in its loop
  (`OSMutex.c:93`) calls `__OSReschedule`; if a waiter became ready,
  `SelectThread` switches to it and, the state of the caller not being RUNNING,
  does not put the caller in a run queue.  The rest of its mutexes stays owned by
  a thread that is gone and its joiner sleeps on.  Schedule: main locks `m1`; a
  thread of lower priority is given the processor and blocks on `m1`; main
  exits.  `TerminationFollowsThrough` therefore only says that somebody has still
  to finish the termination.  A thread cancelled by another one does not have
  the problem.
- **Cancelling a thread in a cycle of mutex waiters.**  `OSCancelThread`
  unlinks the thread and clears `thread->queue` (`OSThread.c:573`) while its state
  is still SLEEPING, then calls `UpdatePriority` on the owner of the mutex it
  waited for.  In a cycle the walk comes back to the thread, and
  `SetEffectivePriority` unlinks it again through the NULL queue pointer.
- **A second join** of a thread that is not detached and was already reaped
  sleeps for ever (`OSThread.c:619`).
- **`OSSleepThread` with the scheduler disabled** returns at once, with the
  caller in the wait queue and its state SLEEPING.

- **A job that is lost** (`savelost`, the one run that finds a violation).  The
  task thread sends its end message, resets `pTask` of the slot (`eggTaskThread.cpp:117`)
  and then calls `clearFunctions`, which resets `pTask` again (`:125`).  A request made in
  between by a more urgent thread, which the end message has just woken, takes
  the blank slot; its `pTask` is cleared before the thread reads the queued
  message, so that the task never runs and no end message is sent.
  `EFlag_NandAccess`, "NAND operation is happening on another thread"
  (`RPSysSaveDataMgr.h:269`), stays set and `isAsyncFinish` is false for ever.  The
  thread priorities are set in `RPSysSystem.cpp`, which is not in the repository; the
  run assumes that the main thread is the more urgent one.
- **If the NAND thread were more urgent** instead, the read-modify-writes of `mFlags` by
  the main thread (`RPSysSaveDataMgr.cpp:418`) could overwrite `EFlag_NandError`.
- **The save data manager**, further: what `request` returns is never looked at
  (`RPSysSaveDataMgr.cpp:183`, `:217`, `:277`, `:370`, `:407`), so that a full queue would have the effect of a lost
  job; a second asynchronous operation started before the first had ended would be
  taken for finished at the first one's message; `existSaveFile` asks for the
  banner and `existBannerFile` for the save file, both right in what they do with the answer;
  `createPackFile` with saving disabled moves an empty banner to the home
  directory and takes it for existing (`BannerAppearsWhole` allows for it).
- **A failed relaunch may stall the IPC client.**  When the reply to the reboot
  request comes after its acknowledgement, `IpcReplyHandler` gives the second
  credit back (`ipcclt.c:163`) but sends nothing: requests in the ring wait until the
  next call or acknowledgement.  `StallsOnlyAfterFailedRelaunch` says that
  nothing else does this.
- **Cancelling a read during a poll of the cover.**  A command that waits for the user
  is polled by `CoverAlarmHandler`, which asks the drive for its cover register; the
  answer comes later, in `cbForPrepareCoverRegister`.  `DVDCancelAsync` stops
  the alarm and starts the next command, if any, but not the poll that is
  under way (`dvd.c:1798`).  Its answer then writes the state of `executing`, which is NULL (`dvd.c:1033`), or
  starts a second activity for the next command, which may go on until `newContext`
  (`dvd_broadway.c:288`) finds no free context and spins.  `MayCancel` excludes the moment; with
  `PollCancel = TRUE` in `dvd.cfg` TLC finds `DriverExact` violated after 12 steps.
- **A retry that does not end.**  `CategorizeError` ends the retries with the second error by
  `NumInternalRetry == 2` (`dvd.c:455`).  The counter is reset by successes, not
  by a cancellation: when a command is cancelled at its second error, the next
  one starts at 2, its first error makes it 3, and errors other than
  of reading are tried again for ever.  `RetriesForever` names the states.
- **A break that hits a later command.**  `DVDCancelAsync` of a read sets `Breaking`
  (`dvd.c:1728`).  If the transfer fails, and the command ends cancelled in
  `CheckCancel` on the way to its retry, `Breaking` stays set; the next transfer that ends, of a command nobody
  cancelled, is answered as cancelled.  `DVDService` allows one such answer
  (`spare`).
- **A relaunch forgets sleepers.**  Other synchronous requests that the old IOS
  had are never answered; their callers sleep on.  `IPCService!Relaunch` loses them.
- **After 2^32 requests** `queued` is less than `sent` until `sent` wraps too; then the
  ring counts as full for `__ipcQueueRequest` and as empty for `__ipcSendRequest`
  (`ipcclt.c:53`, `:76`), and nothing is sent any more if requests wait.
- **`ipcProfile.c`** looks requests up by `base.fd` when they are answered, which the
  IOS has overwritten by then.
- **A sequence that is shut down while its load is queued**: `SeqSound::Shutdown`
  cancels the task, whose callback reports failure and stops the sound, which
  shuts it down; the outer call then shuts down and frees the object again
  (`snd_SeqSound.cpp:80`).
- **A sequence load that `CancelAllTask` interrupts** leaves `mLoadingFlag` set and its file
  open until the sound is shut down later.
- **`StrmPlayer::Stop` frees the channels before it cancels the header task**
  (`snd_StrmPlayer.cpp:163`).  A header load that ends meanwhile allocates channels and a
  voice again; only the second `Stop`, from the destructor, gives them back.
  A stream on the NAND cannot be cancelled (`ut_NandFileStream.h:61`), so that
  its load does end successfully.
- **Other priorities for the sound threads** than the defaults open gaps: with a
  task thread that is not the most urgent, `CancelTask` misses a task that was popped
  and is not yet current (`snd_TaskManager.cpp:92`), the loop of `Stop` over the data
  tasks spins with interrupts disabled, and `WaitTask` may reset the flag that
  `Destroy` has just set.

## 7. Not modelled

The list with reasons is in `PROJECT.json`.  In short: sequential register and
cache code, matrices, formats and text; graphics and layout; sequence playback
and signal processing; the vendored Bluetooth stack; the debugger stub; the PC
shim.  Of the kernel: register contents and stacks, `OSSetSwitchThreadCallback`,
thread-specific data and `val`, the value an `OSJoinThread` hands over.  The DSP
task list, the safe files of the NAND library and the heaps have state worth
modelling and are left for later (section 8).  Of the DVD driver: the commands
of the boot ROM and of disc changes within the program, motor stop and restart, pause, the fatal
state without its message, `DVDCancelAll` outside a reset, callbacks that issue commands, the error
codes of a wrong disc and of a changed medium in state OK, a seek as retry (no
command leads to it), requests that the IOS refuses, files and paths.

The modules cover about one per cent of the repository's lines.  It has
458 000 of them, most of them not executable
logic of the program: vendored Bluetooth code alone is larger than all the concurrent code
together, and headers, resource formats, register writes and matrix
arithmetic make up most of the rest.  A model of these would repeat
them line by line and say nothing.

## 8. Plan

1. *(done)* Kernel, mutexes, message queue; alarms and `OSSleepTicks`; IPC client;
   the DVD driver; sound task manager, streams and sequences; EGG task thread and save data.
2. Proofs *(mutual exclusion and the mutex service, the queues and lives of threads, priority inheritance, the ring
   buffer and the sleepers of the message queue, the IPC client, the alarms, the save data, the sound
   tasks and streams, and the disc driver done)*.
3. `DSPTask`; `NANDSafeFile`, which
   the face library uses; the frame heap with its saved states.
4. The kill loop of `OSReset.c` on `OSThread`.
