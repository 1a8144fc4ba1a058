----------------------------- MODULE DVD_proofs -----------------------------
(***************************************************************************)
(* The safety of the disc driver, and that it implements DVDService, for   *)
(* every set of commands, priorities, lengths, discs and failures, and     *)
(* however often the drive fails and the user exchanges the disc.          *)
(*                                                                         *)
(* DVDInv is the inductive invariant.  Its part DriverInv is a statement   *)
(* about the record of the driver: the command blocks agree with the       *)
(* waiting queues, and the command that is executed has one continuation,  *)
(* which is a request that is in flight, an alarm or a store of an error   *)
(* code (Continues), or it waits for the cover (Cover).  The callbacks     *)
(* call each other inside one step, so the lemmas are about single C       *)
(* functions, with the command and the continuation they leave, and are    *)
(* put together as the calls are.  The other parts tie the record to the   *)
(* history of the commands and to the disc in the drive.                   *)
(***************************************************************************)
EXTENDS DVD, DataFacts, FiniteSetTheorems

-----------------------------------------------------------------------------
(* The record of the driver. *)

StepCallbacks ==
    {"Busy", "GettingError", "GoToRetry", "CheckID1", "Reset", "DownRotation",
     "CoverClosed", "ReadingTOC", "ReadingPartitionInfo", "OpenPartition2",
     "Error"}

Operations ==
    {"Read", "Inquiry", "RequestError", "StopMotor", "Reset", "ReadDiskID",
     "SetMaximumRotation", "UnencryptedRead", "OpenPartition",
     "PrepareCoverRegister", "ClearCoverInterrupt"}

Storers ==
    {"cbForStoreErrorCode1", "cbForStoreErrorCode2", "cbForStoreErrorCode3"}

Points == {"NONE", "7", "DISK_CHANGED"} \cup CoverWaits

Request ==
    [op : Operations, cb : StepCallbacks \cup {"PrepareCover", NULL},
     block : Block \cup {NULL}, transfer : Nat \cup {NULL},
     reply : AnyReply \cup {NULL}]

Driver ==
    [state : [Block -> States],
     length : [Block -> Nat],
     transferTotal : [Block -> Nat],
     callback : [Block -> {"async", "sync", NULL}],
     answer : [Block -> {"none", "due", "good", "canceled", "dropped"}],
     WaitingQueue : [Prio -> Seq(Block)],
     executing : Block \cup {NULL},
     Canceling : BOOLEAN, CancelCallback : {"async", "sync", "reset", NULL},
     Breaking : BOOLEAN,
     ResumeFromHere : Points, NumInternalRetry : 0 .. 3,
     LastError : AnyValue,
     LastState : {"stateBusy", "stateCoverClosed_CMD", "stateDownRotation"},
     MotorState : {"WORKING", "PENDING_STOP"},
     WaitingForCoverOpen : BOOLEAN, WaitingForCoverClose : BOOLEAN,
     PreparingCover : BOOLEAN, CoverAlarm : BOOLEAN,
     ResetAlarm : BOOLEAN, storing : Storers \cup {NULL}, low : Seq(Request),
     sleeping : SUBSET ({"read", "cancel"} \X Block),
     Prepared : {"no", "wanted", "yes"}, down : {NULL, "fatal"}]

-----------------------------------------------------------------------------
(* The command blocks and their queues. *)

Working == {"BUSY", "COVER_CLOSED"} \cup CoverWaits

Queues(w) ==
    /\ w \in [Prio -> Seq(Block)]
    /\ \A p \in Prio : IsInjective(w[p])
    /\ \A p, q \in Prio : p # q => Range(w[p]) \cap Range(w[q]) = {}

\* e is the command that is executed, or NULL.  All but the state of e.
Others(r, e) ==
    /\ Queues(r.WaitingQueue)
    /\ e \in Block \cup {NULL} /\ e \notin Queued(r)
    /\ \A b \in Queued(r) :
         /\ r.state[b] = "WAITING" /\ r.answer[b] = "due"
         /\ r.callback[b] # NULL /\ r.transferTotal[b] = 0
    /\ \A b \in Block :
         b # e => /\ r.state[b] \notin Working
                  /\ r.state[b] = "WAITING"
                       => b \in Queued(r) \/ r.answer[b] = "dropped"
                  /\ r.answer[b] = "due" => b \in Queued(r)
    /\ e # NULL =>
         /\ \/ r.answer[e] = "due" /\ r.callback[e] # NULL
            \/ r.answer[e] = "dropped" /\ r.callback[e] = NULL
         /\ e \notin InquiryBlock => r.transferTotal[e] <= r.length[e]

Blocks(r, e) == Others(r, e) /\ (e # NULL => r.state[e] \in Working)

-----------------------------------------------------------------------------
(* Waiting for the cover. *)

Resumable == {"DISK_ERROR", "NO_DISK", "COVER_OPENED"}

Waits(r, e) == e # NULL /\ r.state[e] \in CoverWaits

Cover(r, e) ==
    /\ ~(r.WaitingForCoverOpen /\ r.WaitingForCoverClose)
    /\ r.CoverAlarm <=> r.WaitingForCoverOpen \/ r.WaitingForCoverClose
    /\ r.PreparingCover => r.CoverAlarm
    /\ Waits(r, e) => r.CoverAlarm
    /\ r.WaitingForCoverOpen => Waits(r, e)
    /\ r.WaitingForCoverClose =>
         \/ e = NULL /\ r.ResumeFromHere \in Resumable
         \/ Waits(r, e) /\ r.state[e] \in Resumable
    /\ e # NULL => r.ResumeFromHere = "NONE"
    /\ \/ r.MotorState = "WORKING" \/ Waits(r, e)
       \/ e = NULL /\ r.ResumeFromHere # "NONE"

-----------------------------------------------------------------------------
(* The continuation of the command that is executed. *)

\* The callbacks that know what their request was.
Fits(op, cb) ==
    /\ op \in {"Read", "Inquiry"} => cb = "Busy"
    /\ cb = "CoverClosed" => op = "ReadDiskID"
    /\ cb \in {"ReadingTOC", "ReadingPartitionInfo"} => op = "UnencryptedRead"

\* The request carries on the command e.
CarriesOn(r, e, q) ==
    /\ q \in Request /\ q.cb \in StepCallbacks /\ q.block = e
    /\ Fits(q.op, q.cb)
    /\ q.op = "Read" =>
         /\ e \notin InquiryBlock
         /\ q.transfer = r.transferTotal[e] + 1
         /\ r.transferTotal[e] < r.length[e]
    /\ q.cb = "Busy" => (q.op = "Read" \/ e \in InquiryBlock)

OneStep(r, e, l) ==
    \E q \in Request :
      /\ CarriesOn(r, e, q)
      /\ \/ r.low = Append(l, q)
         \/ \E c \in Request : /\ c.cb = NULL /\ c.op = "ClearCoverInterrupt"
                               /\ r.low = Append(Append(l, c), q)

Continues(r, e, l) ==
    \/ /\ e = NULL \/ Waits(r, e)
       /\ r.low = l /\ r.storing = NULL /\ ~r.ResetAlarm
    \/ /\ e # NULL /\ ~Waits(r, e)
       /\ \/ r.low = l /\ r.storing # NULL /\ ~r.ResetAlarm
          \/ r.low = l /\ r.storing = NULL /\ r.ResetAlarm
          \/ OneStep(r, e, l) /\ r.storing = NULL /\ ~r.ResetAlarm

Polling(r, l) ==
    \/ ~r.PreparingCover /\ l = <<>>
    \/ r.PreparingCover /\ \E q \in Request : q.cb = "PrepareCover" /\ q.op = "PrepareCoverRegister" /\ l = <<q>>

\* More is to be read.
Unfinished(r) ==
    LET e == r.executing
    IN  e # NULL /\ e \notin InquiryBlock
          => r.length[e] = 0 \/ r.transferTotal[e] < r.length[e]

\* The drive answers one request after the other.
Unanswered(r) == \A i \in DOMAIN r.low : i > 1 => r.low[i].reply = NULL

\* A cancellation that is under way is that of a command at work.
CancelsWork(r) ==
    r.Canceling => r.executing # NULL /\ ~Waits(r, r.executing)

DriverInv(r) ==
    /\ r \in Driver
    /\ Blocks(r, r.executing) /\ Unfinished(r) /\ Unanswered(r)
    /\ CancelsWork(r)
    /\ r.down = NULL =>
         /\ Cover(r, r.executing)
         /\ \E l \in Seq(Request) : Polling(r, l) /\ Continues(r, r.executing, l)

-----------------------------------------------------------------------------
(* Constants and queues. *)

\* What the proofs use of the constants.
LEMMA Names ==
  /\ NULL \notin Block /\ InquiryBlock \subseteq Block
  /\ SyncBlock \subseteq Block \ InquiryBlock
  /\ NULL \notin StepCallbacks /\ NULL # "PrepareCover" /\ NULL \notin Storers
  /\ NULL # "async" /\ NULL # "sync" /\ NULL # "reset"
  /\ NULL # "fatal" /\ NULL # "fault" /\ NULL # "spin"
BY DVDAssumption, NullAssumption DEF StepCallbacks, Storers

\* The members of the queues.
Members(w) == UNION {Range(w[p]) : p \in Prio}

\* Queued reads the queues only.
LEMMA QueuedMembers == ASSUME NEW r PROVE Queued(r) = Members(r.WaitingQueue)
BY DEF Queued, Members

\* A member is in one queue.
LEMMA MemberOf ==
  ASSUME NEW w, NEW b
  PROVE  b \in Members(w) <=> \E p \in Prio : b \in Range(w[p])
BY DEF Members

\* The members are blocks.
LEMMA MembersAreBlocks ==
  ASSUME NEW w, Queues(w)
  PROVE  Members(w) \subseteq Block
<1>1. ASSUME NEW p \in Prio PROVE Range(w[p]) \subseteq Block
  <2>1. w[p] \in Seq(Block)
    BY DEF Queues
  <2> QED
    BY <2>1 DEF Range
<1> QED
  BY <1>1 DEF Members

\* __DVDPushWaitingQueue.
LEMMA PushQueue ==
  ASSUME NEW w, Queues(w), NEW b \in Block, b \notin Members(w), NEW p \in Prio,
         NEW m, m = [w EXCEPT ![p] = Append(@, b)]
  PROVE  Queues(m) /\ Members(m) = Members(w) \cup {b}
<1>1. /\ w \in [Prio -> Seq(Block)] /\ w[p] \in Seq(Block)
      /\ IsInjective(w[p]) /\ b \notin Range(w[p])
  BY DEF Queues, Members
<1>2. /\ Append(w[p], b) \in Seq(Block) /\ IsInjective(Append(w[p], b))
      /\ Range(Append(w[p], b)) = Range(w[p]) \cup {b}
  BY <1>1, AppendNewProperties
<1>3. /\ m \in [Prio -> Seq(Block)]
      /\ m[p] = Append(w[p], b) /\ \A q \in Prio : q # p => m[q] = w[q]
  BY <1>1, <1>2
<1>4. ASSUME NEW q \in Prio, NEW x
      PROVE  x \in Range(m[q]) <=> x \in Range(w[q]) \/ (q = p /\ x = b)
  <2>1. CASE q = p
    BY <2>1, <1>2, <1>3
  <2>2. CASE q # p
    BY <2>2, <1>3
  <2> QED
    BY <2>1, <2>2
<1>5. \A q \in Prio : b \notin Range(w[q])
  BY DEF Members
<1>6. Queues(m)
  <2>1. \A q \in Prio : IsInjective(m[q])
    BY <1>2, <1>3 DEF Queues
  <2>2. ASSUME NEW q \in Prio, NEW r \in Prio, q # r,
               NEW x \in Range(m[q]), x \in Range(m[r])
        PROVE  FALSE
    <3>1. Range(w[q]) \cap Range(w[r]) = {}
      BY <2>2 DEF Queues
    <3> QED
      BY <1>4, <1>5, <2>2, <3>1
  <2> QED
    BY <1>3, <2>1, <2>2 DEF Queues
<1>7. ASSUME NEW x PROVE x \in Members(m) <=> x \in Members(w) \cup {b}
  BY <1>4, MemberOf
<1> QED
  BY <1>6, <1>7

\* __DVDDequeueWaitingQueue.
LEMMA DequeueQueue ==
  ASSUME NEW w, Queues(w), NEW b,
         NEW m, m = [p \in Prio |-> RemoveFirst(w[p], b)]
  PROVE  Queues(m) /\ Members(m) = Members(w) \ {b}
<1>1. ASSUME NEW p \in Prio
      PROVE  /\ m[p] \in Seq(Block) /\ IsInjective(m[p])
             /\ Range(m[p]) = Range(w[p]) \ {b}
  <2>1. w[p] \in Seq(Block) /\ IsInjective(w[p])
    BY DEF Queues
  <2>2. m[p] = RemoveFirst(w[p], b)
    OBVIOUS
  <2> QED
    BY <2>1, <2>2, RemoveFirstProperties
<1>2. m \in [Prio -> Seq(Block)]
  BY <1>1
<1>3. Queues(m)
  BY <1>1, <1>2 DEF Queues
<1>4. ASSUME NEW x PROVE x \in Members(m) <=> x \in Members(w) \ {b}
  <2>1. \A q \in Prio : x \in Range(m[q]) <=> x \in Range(w[q]) /\ x # b
    BY <1>1
  <2> QED
    BY <2>1, MemberOf
<1> QED
  BY <1>3, <1>4

\* __DVDPopWaitingQueue takes the first command of the most urgent queue.
LEMMA PopQueue ==
  ASSUME NEW w, Queues(w), Members(w) # {},
         NEW p, p = Min({q \in Prio : w[q] # <<>>}),
         NEW m, m = [w EXCEPT ![p] = Tail(@)]
  PROVE  /\ Queues(m) /\ Head(w[p]) \in Block
         /\ Head(w[p]) \in Members(w)
         /\ Members(m) = Members(w) \ {Head(w[p])}
<1> DEFINE S == {q \in Prio : w[q] # <<>>}
           t == Head(w[p])
<1>1. S \in SUBSET Nat /\ S # {}
  <2>1. PICK b : b \in Members(w)
    OBVIOUS
  <2>2. PICK q \in Prio : b \in Range(w[q])
    BY <2>1, MemberOf
  <2>3. w[q] # <<>>
    BY <2>2 DEF Range
  <2>4. Prio \subseteq Nat
    BY DVDAssumption
  <2> QED
    BY <2>3, <2>4
<1>2. p \in Prio /\ w[p] # <<>>
  <2>1. \E k \in S : \A n \in S : k <= n
    BY <1>1, LeastElement
  <2>2. p \in S
    BY <2>1 DEF Min
  <2> QED
    BY <2>2
<1> HIDE DEF S
<1>3. /\ w \in [Prio -> Seq(Block)] /\ w[p] \in Seq(Block)
      /\ IsInjective(w[p])
  BY <1>2 DEF Queues
<1>4. /\ Tail(w[p]) \in Seq(Block) /\ t \in Range(w[p])
      /\ IsInjective(Tail(w[p])) /\ Range(Tail(w[p])) = Range(w[p]) \ {t}
  BY <1>2, <1>3, TailProperties
<1>5. t \in Block
  BY <1>2, <1>3, HeadTailProperties
<1> HIDE DEF t
<1>6. /\ m \in [Prio -> Seq(Block)]
      /\ m[p] = Tail(w[p]) /\ \A q \in Prio : q # p => m[q] = w[q]
  BY <1>2, <1>3, <1>4
<1>7. \A q \in Prio : Range(m[q]) = Range(w[q]) \ {t}
  BY <1>2, <1>4, <1>6 DEF Queues
<1>8. Queues(m)
  <2>1. \A q \in Prio : IsInjective(m[q])
    BY <1>4, <1>6 DEF Queues
  <2>2. \A q, r \in Prio : q # r => Range(m[q]) \cap Range(m[r]) = {}
    BY <1>7 DEF Queues
  <2> QED
    BY <1>6, <2>1, <2>2 DEF Queues
<1>9. ASSUME NEW x PROVE x \in Members(m) <=> x \in Members(w) \ {t}
  <2>1. \A q \in Prio : x \in Range(m[q]) <=> x \in Range(w[q]) /\ x # t
    BY <1>7
  <2> QED
    BY <2>1, MemberOf
<1>10. t \in Members(w)
  BY <1>2, <1>4, MemberOf
<1> QED
  BY <1>5, <1>8, <1>9, <1>10 DEF t

\* The queues after a reset are empty.
LEMMA NoQueue ==
  ASSUME NEW m, m = [p \in Prio |-> <<>>]
  PROVE  Queues(m) /\ Members(m) = {}
<1>1. \A p \in Prio : m[p] = <<>> /\ Range(m[p]) = {}
  BY DEF Range
<1>2. IsInjective(<<>>)
  BY DEF IsInjective
<1>3. m \in [Prio -> Seq(Block)]
  OBVIOUS
<1>4. Members(m) = {}
  BY <1>1 DEF Members
<1>5. /\ \A p \in Prio : IsInjective(m[p])
      /\ \A p, q \in Prio : p # q => Range(m[p]) \cap Range(m[q]) = {}
  BY <1>1, <1>2
<1> QED
  BY <1>3, <1>4, <1>5 DEF Queues

-----------------------------------------------------------------------------
(* Steps of the driver that keep its blocks as they are. *)

SameBlocks(r, s) ==
    /\ s.state = r.state /\ s.answer = r.answer /\ s.callback = r.callback
    /\ s.length = r.length /\ s.transferTotal = r.transferTotal
    /\ s.WaitingQueue = r.WaitingQueue

\* Blocks is about these fields.
LEMMA BlocksAlike ==
  ASSUME NEW r, NEW s, NEW e, SameBlocks(r, s)
  PROVE  Queued(s) = Queued(r) /\ (Blocks(r, e) <=> Blocks(s, e))
<1>1. Queued(s) = Queued(r)
  BY QueuedMembers DEF SameBlocks
<1> QED
  BY <1>1 DEF SameBlocks, Blocks, Others

\* Others is about them too.
LEMMA OthersAlike ==
  ASSUME NEW r, NEW s, NEW e, SameBlocks(r, s)
  PROVE  Others(r, e) <=> Others(s, e)
<1>1. Queued(s) = Queued(r)
  BY BlocksAlike
<1> QED
  BY <1>1 DEF SameBlocks, Others

SameCover(r, s) ==
    /\ s.state = r.state /\ s.WaitingForCoverOpen = r.WaitingForCoverOpen
    /\ s.WaitingForCoverClose = r.WaitingForCoverClose
    /\ s.PreparingCover = r.PreparingCover /\ s.CoverAlarm = r.CoverAlarm
    /\ s.ResumeFromHere = r.ResumeFromHere /\ s.MotorState = r.MotorState

\* Cover is about these.
LEMMA CoverAlike ==
  ASSUME NEW r, NEW s, NEW e, SameCover(r, s)
  PROVE  Cover(s, e) <=> Cover(r, e)
BY DEF SameCover, Cover, Waits

\* The rest of what a command can be affected by.
SameControl(r, s) ==
    /\ s.executing = r.executing /\ s.Canceling = r.Canceling
    /\ s.CancelCallback = r.CancelCallback /\ s.Breaking = r.Breaking
    /\ s.ResetAlarm = r.ResetAlarm /\ s.storing = r.storing
    /\ s.Prepared = r.Prepared /\ s.down = r.down

\* What a callback runs on: the command is executed, and nothing carries it on.
Clear(c) == c \in Request /\ c.cb = NULL /\ c.op = "ClearCoverInterrupt"
            /\ c.reply = NULL

Runs(r, l) ==
    /\ r \in Driver /\ r.executing # NULL /\ r.down = NULL
    /\ Blocks(r, r.executing) /\ Cover(r, r.executing)
    /\ ~Waits(r, r.executing)
    /\ r.storing = NULL /\ ~r.ResetAlarm
    /\ l \in Seq(Request) /\ Len(l) <= 1 /\ ContextMax >= 3
    /\ r.low = l \/ \E c : Clear(c) /\ r.low = Append(l, c)

\* The requests after l were not answered yet.  Only the callbacks of the disc's
\* identification ask to read without it being known.
Fresh(s, l) ==
    \A i \in DOMAIN s.low : i > Len(l) => s.low[i].reply = NULL
Plain(s, l) ==
    \A i \in DOMAIN s.low :
      i > Len(l) => s.low[i].op \notin {"UnencryptedRead", "OpenPartition"}

\* The driver after a callback or a call.
Left(s, l) ==
    /\ s \in Driver /\ s.down = NULL
    /\ Blocks(s, s.executing) /\ Cover(s, s.executing)
    /\ l \in Seq(Request) /\ Continues(s, s.executing, l) /\ Fresh(s, l)
    /\ CancelsWork(s)

\* The commands are what they were.
Keeps(r, s) ==
    /\ s.executing = r.executing /\ Queued(s) = Queued(r)
    /\ s.answer = r.answer /\ s.length = r.length
    /\ s.transferTotal = r.transferTotal
    /\ s.Canceling = r.Canceling /\ s.Breaking = r.Breaking
    /\ s.Prepared = r.Prepared /\ s.PreparingCover = r.PreparingCover

\* The command goes on.
GoesOn(r, s, l) == Left(s, l) /\ Keeps(r, s)

\* newContext finds a context.
LEMMA SendEffect ==
  ASSUME NEW r \in Driver, r.executing \in Block, NEW op \in Operations,
         NEW cb \in StepCallbacks \cup {"PrepareCover", NULL},
         Len(r.low) < ContextMax, NEW s, s = Send(r, op, cb)
  PROVE  \E q \in Request :
           /\ q.op = op /\ q.cb = cb /\ q.block = r.executing /\ q.reply = NULL
           /\ op = "Read" => q.transfer = r.transferTotal[r.executing] + 1
           /\ s = [r EXCEPT !.low = Append(r.low, q)]
           /\ Append(r.low, q) \in Seq(Request)
<1> DEFINE q == [op |-> op, cb |-> cb, block |-> r.executing,
                 transfer |-> IF op = "Read"
                              THEN r.transferTotal[r.executing] + 1 ELSE NULL,
                 reply |-> NULL]
<1>1. r.transferTotal[r.executing] \in Nat /\ r.low \in Seq(Request)
      /\ Len(r.low) \in Nat
  BY DEF Driver
<1>2. q \in Request
  BY <1>1 DEF Request
<1>3. /\ q.op = op /\ q.cb = cb /\ q.block = r.executing /\ q.reply = NULL
      /\ op = "Read" => q.transfer = r.transferTotal[r.executing] + 1
  OBVIOUS
<1>4. ~(Len(r.low) >= ContextMax)
  BY <1>1, DVDAssumption
<1>5. s = [r EXCEPT !.low = Append(r.low, q)]
  BY <1>4 DEF Send
<1> HIDE DEF q
<1>6. Append(r.low, q) \in Seq(Request)
  BY <1>1, <1>2
<1> QED
  BY <1>2, <1>3, <1>5, <1>6

\* A request leaves all else as it is.
LEMMA LowChanges ==
  ASSUME NEW r \in Driver, NEW l \in Seq(Request),
         NEW s, s = [r EXCEPT !.low = l]
  PROVE  /\ s \in Driver /\ s.low = l
         /\ SameBlocks(r, s) /\ SameCover(r, s) /\ SameControl(r, s)
<1>1. s \in Driver /\ s.low = l
  BY DEF Driver
<1>2. SameBlocks(r, s)
  BY DEF SameBlocks, Driver
<1>3. SameCover(r, s)
  BY DEF SameCover, Driver
<1>4. SameControl(r, s)
  BY DEF SameControl, Driver
<1> QED
  BY <1>1, <1>2, <1>3, <1>4

\* Runs is about these fields.
LEMMA RunsAlike ==
  ASSUME NEW r, NEW s \in Driver, NEW l, Runs(r, l),
         SameBlocks(r, s), SameCover(r, s), SameControl(r, s), s.low = r.low
  PROVE  Runs(s, l) /\ Queued(s) = Queued(r)
<1>1. Queued(s) = Queued(r) /\ Blocks(s, r.executing)
  BY BlocksAlike DEF Runs
<1>2. Cover(s, r.executing)
  BY CoverAlike DEF Runs
<1>3. ~Waits(s, r.executing)
  BY DEF Runs, SameCover, Waits
<1> QED
  BY <1>1, <1>2, <1>3 DEF Runs, SameControl

\* The same as a command that goes on.
LEMMA GoesOnAlike ==
  ASSUME NEW r, NEW s, NEW t, NEW l, GoesOn(s, t, l),
         SameBlocks(r, s), SameCover(r, s), SameControl(r, s)
  PROVE  GoesOn(r, t, l)
<1>1. Queued(s) = Queued(r)
  BY BlocksAlike
<1> QED
  BY <1>1 DEF GoesOn, Keeps, SameBlocks, SameCover, SameControl

\* DVDLowClearCoverInterrupt before the request itself.
LEMMA ClearRuns ==
  ASSUME NEW r, NEW l, Runs(r, l), r.low = l,
         NEW s, s = Send(r, "ClearCoverInterrupt", NULL)
  PROVE  /\ Runs(s, l) /\ Queued(s) = Queued(r)
         /\ SameBlocks(r, s) /\ SameCover(r, s) /\ SameControl(r, s)
<1>1. /\ r \in Driver /\ r.executing \in Block /\ Len(r.low) < ContextMax
      /\ l \in Seq(Request)
  BY DVDAssumption DEF Runs, Driver
<1>2. PICK q \in Request :
        /\ q.op = "ClearCoverInterrupt" /\ q.cb = NULL /\ q.reply = NULL
        /\ s = [r EXCEPT !.low = Append(r.low, q)]
        /\ Append(r.low, q) \in Seq(Request)
  BY <1>1, SendEffect DEF Operations
<1>3. /\ s \in Driver /\ s.low = Append(l, q)
      /\ SameBlocks(r, s) /\ SameCover(r, s) /\ SameControl(r, s)
  BY <1>1, <1>2, LowChanges
<1>4. Queued(s) = Queued(r) /\ Blocks(s, r.executing)
  BY <1>3, BlocksAlike DEF Runs
<1>5. Cover(s, r.executing)
  BY <1>3, CoverAlike DEF Runs
<1>6. ~Waits(s, r.executing)
  BY <1>3 DEF Runs, SameCover, Waits
<1>7. Clear(q)
  BY <1>2 DEF Clear
<1> QED
  BY <1>3, <1>4, <1>5, <1>6, <1>7 DEF Runs, SameControl

\* A request with a callback carries the command on.
LEMMA SendGoesOn ==
  ASSUME NEW r, NEW l, Runs(r, l), NEW op \in Operations,
         NEW cb \in StepCallbacks,
         op = "Read" => /\ r.executing \notin InquiryBlock
                        /\ r.transferTotal[r.executing]
                             < r.length[r.executing],
         cb = "Busy" => op = "Read" \/ r.executing \in InquiryBlock,
         Fits(op, cb),
         NEW s, s = Send(r, op, cb)
  PROVE  /\ GoesOn(r, s, l)
         /\ op \notin {"UnencryptedRead", "OpenPartition"} => Plain(s, l)
<1> DEFINE e == r.executing
<1>1. /\ r \in Driver /\ e \in Block /\ l \in Seq(Request)
      /\ r.low = l \/ \E c : Clear(c) /\ r.low = Append(l, c)
  BY DEF Runs, Driver
<1>2. Len(r.low) < ContextMax
  <2>1. Len(r.low) <= 2
    BY <1>1 DEF Runs
  <2> QED
    BY <1>1, <2>1, DVDAssumption DEF Runs, Driver
<1>3. PICK q \in Request :
        /\ q.op = op /\ q.cb = cb /\ q.block = e /\ q.reply = NULL
        /\ op = "Read" => q.transfer = r.transferTotal[e] + 1
        /\ s = [r EXCEPT !.low = Append(r.low, q)]
        /\ Append(r.low, q) \in Seq(Request)
  BY <1>1, <1>2, SendEffect
<1>4. /\ s \in Driver /\ s.low = Append(r.low, q)
      /\ SameBlocks(r, s) /\ SameCover(r, s) /\ SameControl(r, s)
  BY <1>1, <1>3, LowChanges
<1>5. Queued(s) = Queued(r) /\ Blocks(s, e)
  BY <1>4, BlocksAlike DEF Runs
<1>6. Cover(s, e)
  BY <1>4, CoverAlike DEF Runs
<1>7. ~Waits(s, e)
  BY <1>4 DEF Runs, SameCover, Waits
<1>8. CarriesOn(s, e, q)
  BY <1>3, <1>4 DEF CarriesOn, SameBlocks
<1>9. OneStep(s, e, l)
  BY <1>1, <1>4, <1>8 DEF OneStep, Clear
<1>10. Fresh(s, l) /\ (op \notin {"UnencryptedRead", "OpenPartition"}
                         => Plain(s, l))
  <2>1. CASE r.low = l
    <3>1. \A i \in DOMAIN s.low : i > Len(l) => s.low[i] = q
      BY <1>1, <1>4, <2>1
    <3> QED
      BY <1>3, <3>1 DEF Fresh, Plain
  <2>2. ASSUME NEW c, Clear(c), r.low = Append(l, c)
        PROVE  Fresh(s, l) /\ (op \notin {"UnencryptedRead", "OpenPartition"}
                                 => Plain(s, l))
    <3>1. \A i \in DOMAIN s.low : i > Len(l) => s.low[i] \in {c, q}
      BY <1>1, <1>4, <2>2 DEF Clear
    <3> QED
      BY <1>3, <2>2, <3>1 DEF Fresh, Plain, Clear
  <2> QED
    BY <1>1, <2>1, <2>2
<1>11. Continues(s, e, l)
  BY <1>4, <1>7, <1>9 DEF Continues, SameControl, Runs
<1>12. CancelsWork(s)
  BY <1>4 DEF CancelsWork, Waits, SameBlocks, SameControl, Runs
<1> QED
  BY <1>1, <1>4, <1>5, <1>6, <1>10, <1>11, <1>12
     DEF GoesOn, Keeps, Left, SameControl, SameBlocks, SameCover, Runs

-----------------------------------------------------------------------------
(* The state functions. *)

\* A request with the cover interrupt cleared before.
LEMMA ClearedGoesOn ==
  ASSUME NEW r, NEW l, Runs(r, l), r.low = l, NEW op \in Operations,
         NEW cb \in StepCallbacks,
         op = "Read" => /\ r.executing \notin InquiryBlock
                        /\ r.transferTotal[r.executing]
                             < r.length[r.executing],
         cb = "Busy" => op = "Read" \/ r.executing \in InquiryBlock,
         Fits(op, cb),
         NEW s, s = SendCleared(r, op, cb)
  PROVE  /\ GoesOn(r, s, l)
         /\ op \notin {"UnencryptedRead", "OpenPartition"} => Plain(s, l)
<1> DEFINE c == Send(r, "ClearCoverInterrupt", NULL)
<1>1. /\ Runs(c, l) /\ Queued(c) = Queued(r)
      /\ SameBlocks(r, c) /\ SameCover(r, c) /\ SameControl(r, c)
  BY ClearRuns
<1>2. s = Send(c, op, cb)
  BY DEF SendCleared
<1> HIDE DEF c
<1>3. /\ c.executing = r.executing /\ c.length = r.length
      /\ c.transferTotal = r.transferTotal
  BY <1>1 DEF SameBlocks, SameControl
<1>4. /\ GoesOn(c, s, l)
      /\ op \notin {"UnencryptedRead", "OpenPartition"} => Plain(s, l)
  BY <1>1, <1>2, <1>3, SendGoesOn
<1> QED
  BY <1>1, <1>4, GoesOnAlike

\* A field that is none of those above is set.
LEMMA RunsAnd ==
  ASSUME NEW r, NEW l, Runs(r, l), NEW s,
         \/ \E x \in {"stateBusy", "stateCoverClosed_CMD",
                      "stateDownRotation"} : s = [r EXCEPT !.LastState = x]
         \/ \E n \in 0 .. 3 : s = [r EXCEPT !.NumInternalRetry = n]
         \/ \E v \in AnyValue : s = [r EXCEPT !.LastError = v]
  PROVE  /\ Runs(s, l) /\ Queued(s) = Queued(r) /\ s.low = r.low
         /\ SameBlocks(r, s) /\ SameCover(r, s) /\ SameControl(r, s)
<1>1. r \in Driver
  BY DEF Runs
<1>2. s \in Driver /\ s.low = r.low
  <2>1. ASSUME NEW x \in {"stateBusy", "stateCoverClosed_CMD",
                          "stateDownRotation"}, s = [r EXCEPT !.LastState = x]
        PROVE  s \in Driver /\ s.low = r.low
    BY <1>1, <2>1, ZenonT(60) DEF Driver
  <2>2. ASSUME NEW n \in 0 .. 3, s = [r EXCEPT !.NumInternalRetry = n]
        PROVE  s \in Driver /\ s.low = r.low
    BY <1>1, <2>2 DEF Driver
  <2>3. ASSUME NEW v \in AnyValue, s = [r EXCEPT !.LastError = v]
        PROVE  s \in Driver /\ s.low = r.low
    BY <1>1, <2>3 DEF Driver
  <2> QED
    BY <2>1, <2>2, <2>3
<1>3. SameBlocks(r, s)
  BY <1>1 DEF Driver, SameBlocks
<1>4. SameCover(r, s)
  BY <1>1 DEF Driver, SameCover
<1>5. SameControl(r, s)
  BY <1>1 DEF Driver, SameControl
<1> QED
  BY <1>2, <1>3, <1>4, <1>5, RunsAlike

\* stateCoverClosed_CMD.
LEMMA ReadDiskIDGoesOn ==
  ASSUME NEW r, NEW l, Runs(r, l), r.low = l
  PROVE  GoesOn(r, ReadDiskID(r), l) /\ Plain(ReadDiskID(r), l)
<1> DEFINE s == [r EXCEPT !.LastState = "stateCoverClosed_CMD"]
<1>1. /\ Runs(s, l) /\ s.low = l
      /\ SameBlocks(r, s) /\ SameCover(r, s) /\ SameControl(r, s)
  BY RunsAnd
<1>2. ReadDiskID(r) = SendCleared(s, "ReadDiskID", "CoverClosed")
  BY DEF ReadDiskID
<1> HIDE DEF s
<1>3. GoesOn(s, ReadDiskID(r), l) /\ Plain(ReadDiskID(r), l)
  BY <1>1, <1>2, ClearedGoesOn DEF Operations, StepCallbacks, Fits
<1> QED
  BY <1>1, <1>3, GoesOnAlike

\* stateDownRotation.
LEMMA DownRotationGoesOn ==
  ASSUME NEW r, NEW l, Runs(r, l), r.low = l
  PROVE  GoesOn(r, DownRotation(r), l) /\ Plain(DownRotation(r), l)
<1> DEFINE s == [r EXCEPT !.LastState = "stateDownRotation"]
<1>1. /\ Runs(s, l) /\ s.low = l
      /\ SameBlocks(r, s) /\ SameCover(r, s) /\ SameControl(r, s)
  BY RunsAnd
<1>2. DownRotation(r) = SendCleared(s, "SetMaximumRotation", "DownRotation")
  BY DEF DownRotation
<1> HIDE DEF s
<1>3. GoesOn(s, DownRotation(r), l) /\ Plain(DownRotation(r), l)
  BY <1>1, <1>2, ClearedGoesOn DEF Operations, StepCallbacks, Fits
<1> QED
  BY <1>1, <1>3, GoesOnAlike

\* stateGettingError and stateGoToRetry.
LEMMA ErrorRequestGoesOn ==
  ASSUME NEW r, NEW l, Runs(r, l)
  PROVE  /\ GoesOn(r, stateGettingError(r), l) /\ Plain(stateGettingError(r), l)
         /\ GoesOn(r, stateGoToRetry(r), l) /\ Plain(stateGoToRetry(r), l)
<1>1. GoesOn(r, stateGettingError(r), l) /\ Plain(stateGettingError(r), l)
  BY SendGoesOn DEF stateGettingError, Operations, StepCallbacks, Fits
<1>2. GoesOn(r, stateGoToRetry(r), l) /\ Plain(stateGoToRetry(r), l)
  BY SendGoesOn DEF stateGoToRetry, Operations, StepCallbacks, Fits
<1> QED
  BY <1>1, <1>2

\* Nothing is sent.
LEMMA Unsent ==
  ASSUME NEW s, NEW l \in Seq(Request), s.low = l
  PROVE  Fresh(s, l) /\ Plain(s, l)
<1>1. \A i \in DOMAIN s.low : ~(i > Len(l))
  OBVIOUS
<1> QED
  BY <1>1 DEF Fresh, Plain

\* The error code is stored.
LEMMA StoreGoesOn ==
  ASSUME NEW r, NEW l, Runs(r, l), r.low = l, NEW cb \in Storers,
         NEW s, s = [r EXCEPT !.storing = cb]
  PROVE  GoesOn(r, s, l) /\ Plain(s, l)
<1>1. r \in Driver /\ l \in Seq(Request)
  BY DEF Runs
<1>2. s \in Driver /\ s.low = l /\ s.storing = cb
  BY <1>1 DEF Driver
<1>3. SameBlocks(r, s)
  BY <1>1 DEF Driver, SameBlocks
<1>4. SameCover(r, s)
  BY <1>1 DEF Driver, SameCover
<1>5. /\ s.executing = r.executing /\ s.Canceling = r.Canceling
      /\ s.Breaking = r.Breaking /\ s.ResetAlarm = r.ResetAlarm
      /\ s.Prepared = r.Prepared /\ s.down = r.down
  BY <1>1 DEF Driver
<1>6. Queued(s) = Queued(r) /\ Blocks(s, r.executing)
  BY <1>3, BlocksAlike DEF Runs
<1>7. Cover(s, r.executing)
  BY <1>4, CoverAlike DEF Runs
<1>8. ~Waits(s, r.executing)
  BY <1>4 DEF Runs, SameCover, Waits
<1>9. Continues(s, r.executing, l)
  BY <1>2, <1>5, <1>8, Names DEF Continues, Runs
<1>10. CancelsWork(s)
  BY <1>5, <1>8 DEF CancelsWork, Runs
<1> QED
  BY <1>1, <1>2, <1>3, <1>4, <1>5, <1>6, <1>7, <1>9, <1>10, Unsent
     DEF GoesOn, Keeps, Left, SameBlocks, SameCover, Runs

\* A command that was taken from its queue, or that waited for the cover.
Picked(r, l) ==
    /\ r \in Driver /\ r.executing # NULL /\ r.down = NULL
    /\ Others(r, r.executing) /\ r.ResumeFromHere = "NONE"
    /\ r.storing = NULL /\ ~r.ResetAlarm
    /\ l \in Seq(Request) /\ Len(l) <= 1 /\ ContextMax >= 3
    /\ r.low = l \/ \E c : Clear(c) /\ r.low = Append(l, c)

NoCover(r) ==
    /\ ~r.WaitingForCoverOpen /\ ~r.WaitingForCoverClose
    /\ ~r.CoverAlarm /\ ~r.PreparingCover

\* The state of the command that is executed changes.
LEMMA StateChanges ==
  ASSUME NEW r \in Driver, NEW w \in Working, NEW e \in Block, Others(r, e),
         NEW s, s.state = [r.state EXCEPT ![e] = w],
         s.answer = r.answer, s.callback = r.callback, s.length = r.length,
         s.transferTotal = r.transferTotal, s.WaitingQueue = r.WaitingQueue
  PROVE  Blocks(s, e) /\ Queued(s) = Queued(r)
<1>1. Queued(s) = Queued(r)
  BY QueuedMembers
<1>2. r.state \in [Block -> States]
  BY DEF Driver
<1>3. s.state[e] = w /\ \A b \in Block : b # e => s.state[b] = r.state[b]
  BY <1>2
<1>4. \A b \in Queued(r) : b \in Block /\ b # e
  BY QueuedMembers, MembersAreBlocks DEF Others
<1>5. Others(s, e)
  BY <1>1, <1>3, <1>4 DEF Others
<1> QED
  BY <1>1, <1>3, <1>5 DEF Blocks

\* stateMotorStopped: the user has to act.
LEMMA WaitGoesOn ==
  ASSUME NEW r, NEW l, Picked(r, l), r.low = l, ~r.Canceling, NEW point \in CoverWaits,
         ~(r.WaitingForCoverOpen /\ r.WaitingForCoverClose),
         r.CoverAlarm <=> r.WaitingForCoverOpen \/ r.WaitingForCoverClose,
         r.PreparingCover => r.CoverAlarm,
         r.WaitingForCoverClose => point \in Resumable,
         NEW s, s = WaitForCover(r, point)
  PROVE  GoesOn(r, s, l) /\ Plain(s, l) /\ s.state[r.executing] = point
<1> DEFINE e == r.executing
           w == [r EXCEPT !.state[e] = point, !.MotorState = "PENDING_STOP"]
<1>1. r \in Driver /\ e \in Block /\ l \in Seq(Request)
  BY DEF Picked, Driver
<1>2. /\ w \in Driver /\ w.state = [r.state EXCEPT ![e] = point]
      /\ w.MotorState = "PENDING_STOP"
  BY <1>1, ZenonT(60) DEF Driver, States
<1>3. /\ w.answer = r.answer /\ w.callback = r.callback
      /\ w.length = r.length /\ w.transferTotal = r.transferTotal
      /\ w.WaitingQueue = r.WaitingQueue /\ w.low = l
  BY <1>1 DEF Driver
<1>4. SameControl(r, w)
  BY <1>1 DEF Driver, SameControl
<1>5. /\ w.WaitingForCoverOpen = r.WaitingForCoverOpen
      /\ w.WaitingForCoverClose = r.WaitingForCoverClose
      /\ w.PreparingCover = r.PreparingCover /\ w.CoverAlarm = r.CoverAlarm
      /\ w.ResumeFromHere = r.ResumeFromHere
  BY <1>1 DEF Driver
<1>6. s = IF w.WaitingForCoverOpen \/ w.WaitingForCoverClose THEN w
          ELSE [w EXCEPT !.WaitingForCoverOpen = TRUE, !.CoverAlarm = TRUE]
  BY <1>5 DEF WaitForCover
<1> HIDE DEF w
<1> DEFINE o == [w EXCEPT !.WaitingForCoverOpen = TRUE, !.CoverAlarm = TRUE]
<1>a. o \in Driver /\ o.state = w.state /\ o.MotorState = w.MotorState
  BY <1>2 DEF Driver
<1>b. /\ o.answer = w.answer /\ o.callback = w.callback
      /\ o.length = w.length /\ o.transferTotal = w.transferTotal
      /\ o.WaitingQueue = w.WaitingQueue /\ o.low = w.low
  BY <1>2 DEF Driver
<1>c. SameControl(w, o)
  BY <1>2 DEF Driver, SameControl
<1>d. /\ o.WaitingForCoverClose = w.WaitingForCoverClose
      /\ o.WaitingForCoverOpen /\ o.CoverAlarm
      /\ o.PreparingCover = w.PreparingCover
      /\ o.ResumeFromHere = w.ResumeFromHere
  BY <1>2 DEF Driver
<1>e. s = w \/ (s = o /\ ~w.WaitingForCoverOpen /\ ~w.WaitingForCoverClose)
  BY <1>6
<1> HIDE DEF o
<1>7. s \in Driver /\ s.state = w.state /\ s.MotorState = "PENDING_STOP"
  BY <1>2, <1>a, <1>e
<1>8. /\ s.answer = r.answer /\ s.callback = r.callback
      /\ s.length = r.length /\ s.transferTotal = r.transferTotal
      /\ s.WaitingQueue = r.WaitingQueue /\ s.low = l
  BY <1>3, <1>b, <1>e
<1>9. SameControl(r, s)
  BY <1>4, <1>c, <1>e DEF SameControl
<1>10. /\ s.WaitingForCoverClose = r.WaitingForCoverClose
       /\ s.WaitingForCoverOpen <=> ~r.WaitingForCoverClose
       /\ s.PreparingCover = r.PreparingCover /\ s.CoverAlarm
       /\ s.ResumeFromHere = r.ResumeFromHere
  BY <1>5, <1>6, <1>d, <1>e
<1>11. Blocks(s, e) /\ Queued(s) = Queued(r)
  <2>1. s.state = [r.state EXCEPT ![e] = point] /\ point \in Working
    BY <1>2, <1>7 DEF Working
  <2>2. Others(r, e)
    BY DEF Picked
  <2> QED
    BY <1>1, <1>8, <2>1, <2>2, StateChanges
<1>12. s.state[e] = point
  BY <1>1, <1>2, <1>7 DEF Driver
<1>13. Waits(s, e)
  BY <1>1, <1>12, Names DEF Waits
<1>14. Cover(s, e)
  BY <1>1, <1>10, <1>12, <1>13 DEF Cover, Picked
<1>15. Continues(s, e, l)
  BY <1>8, <1>9, <1>13 DEF Continues, SameControl, Picked
<1>16. CancelsWork(s)
  BY <1>9 DEF CancelsWork, SameControl
<1> QED
  BY <1>1, <1>7, <1>8, <1>9, <1>10, <1>11, <1>12, <1>14, <1>15, <1>16, Unsent
     DEF GoesOn, Keeps, Left, SameControl, Picked

SameElse(r, s) ==
    /\ s.callback = r.callback /\ s.length = r.length
    /\ s.transferTotal = r.transferTotal /\ s.low = r.low
    /\ s.WaitingForCoverOpen = r.WaitingForCoverOpen
    /\ s.WaitingForCoverClose = r.WaitingForCoverClose
    /\ s.PreparingCover = r.PreparingCover /\ s.CoverAlarm = r.CoverAlarm
    /\ s.Canceling = r.Canceling /\ s.CancelCallback = r.CancelCallback
    /\ s.Breaking = r.Breaking /\ s.ResetAlarm = r.ResetAlarm
    /\ s.storing = r.storing /\ s.down = r.down

\* One command changes its state.
LEMMA StateSet ==
  ASSUME NEW r \in Driver, NEW e \in Block, NEW w \in States,
         NEW s, s = [r EXCEPT !.state[e] = w]
  PROVE  /\ s \in Driver /\ s.state = [r.state EXCEPT ![e] = w]
         /\ s.MotorState = r.MotorState /\ s.answer = r.answer
         /\ s.WaitingQueue = r.WaitingQueue /\ s.executing = r.executing
         /\ s.ResumeFromHere = r.ResumeFromHere /\ s.Prepared = r.Prepared
         /\ SameElse(r, s)
<1>1. s.state = [r.state EXCEPT ![e] = w] /\ s.state \in [Block -> States]
  BY DEF Driver
<1>2. s \in Driver
  BY <1>1 DEF Driver
<1>3. SameElse(r, s)
  BY DEF Driver, SameElse
<1> QED
  BY <1>1, <1>2, <1>3 DEF Driver

\* A command starts on the drive.
LEMMA StateRuns ==
  ASSUME NEW r, NEW l, Picked(r, l), NoCover(r),
         NEW w \in {"BUSY", "COVER_CLOSED"}, NEW s \in Driver,
         s.state = [r.state EXCEPT ![r.executing] = w],
         s.MotorState = "WORKING", s.answer = r.answer,
         s.WaitingQueue = r.WaitingQueue, s.executing = r.executing,
         s.ResumeFromHere = r.ResumeFromHere, SameElse(r, s)
  PROVE  Runs(s, l) /\ Queued(s) = Queued(r)
<1> DEFINE e == r.executing
<1>1. r \in Driver /\ e \in Block
  BY DEF Picked, Driver
<1>2. s.state[e] = w
  BY <1>1 DEF Driver
<1>3. Blocks(s, e) /\ Queued(s) = Queued(r)
  <2>1. w \in Working
    BY DEF Working
  <2>2. Others(r, e)
    BY DEF Picked
  <2>3. /\ s.answer = r.answer /\ s.callback = r.callback
        /\ s.length = r.length /\ s.transferTotal = r.transferTotal
        /\ s.WaitingQueue = r.WaitingQueue
    BY DEF SameElse
  <2> QED
    BY <1>1, <2>1, <2>2, <2>3, StateChanges
<1>4. ~Waits(s, e)
  BY <1>2 DEF Waits, CoverWaits
<1>5. Cover(s, e)
  BY <1>4 DEF Cover, NoCover, Picked, SameElse
<1> QED
  BY <1>1, <1>3, <1>4, <1>5 DEF Runs, Picked, SameElse

\* The drive is reset after a change of the disc.
LEMMA CoverClosedGoesOn ==
  ASSUME NEW r, NEW l, Picked(r, l), NoCover(r),
         NEW s, s = CoverClosed(r)
  PROVE  /\ GoesOn(r, s, l) /\ Plain(s, l)
         /\ s.state[r.executing] = "COVER_CLOSED"
<1> DEFINE e == r.executing
           c == [r EXCEPT !.state[e] = "COVER_CLOSED"]
           m == [c EXCEPT !.MotorState = "WORKING"]
<1>1. r \in Driver /\ e \in Block
  BY DEF Picked, Driver
<1>2. c \in Driver /\ c.state = [r.state EXCEPT ![e] = "COVER_CLOSED"]
  BY <1>1 DEF Driver, States
<1>3. /\ c.answer = r.answer /\ c.WaitingQueue = r.WaitingQueue
      /\ c.executing = e /\ c.ResumeFromHere = r.ResumeFromHere
      /\ c.Prepared = r.Prepared
  BY <1>1 DEF Driver
<1>4. SameElse(r, c)
  BY <1>1 DEF Driver, SameElse
<1>5. s = Send(m, "Reset", "Reset")
  BY DEF CoverClosed, stateCoverClosed
<1> HIDE DEF c
<1>6. /\ m \in Driver /\ m.state = c.state /\ m.MotorState = "WORKING"
      /\ m.answer = c.answer /\ m.WaitingQueue = c.WaitingQueue
      /\ m.executing = c.executing /\ m.ResumeFromHere = c.ResumeFromHere
      /\ m.Prepared = c.Prepared
  BY <1>2 DEF Driver
<1>7. SameElse(c, m)
  BY <1>2 DEF Driver, SameElse
<1> HIDE DEF m
<1>8. SameElse(r, m)
  BY <1>4, <1>7 DEF SameElse
<1>9. Runs(m, l) /\ Queued(m) = Queued(r)
  BY <1>2, <1>3, <1>6, <1>8, StateRuns
<1>10. GoesOn(m, s, l) /\ Plain(s, l)
  BY <1>5, <1>9, SendGoesOn DEF Operations, StepCallbacks, Fits
<1>11. GoesOn(r, s, l)
  BY <1>3, <1>6, <1>8, <1>9, <1>10 DEF GoesOn, Keeps, SameElse
<1>12. s.state = m.state
  <2>1. Len(m.low) < ContextMax /\ m.executing \in Block
    <3>1. Len(m.low) <= 2
      BY <1>9 DEF Runs, Clear
    <3> QED
      BY <1>1, <1>3, <1>6, <1>9, <3>1, DVDAssumption DEF Runs, Driver
  <2>2. PICK q \in Request : /\ s = [m EXCEPT !.low = Append(m.low, q)]
                             /\ Append(m.low, q) \in Seq(Request)
    <3>1. "Reset" \in Operations
          /\ "Reset" \in StepCallbacks \cup {"PrepareCover", NULL}
      BY DEF Operations, StepCallbacks
    <3> HIDE DEF e
    <3> QED
      BY <1>5, <1>6, <2>1, <3>1, SendEffect
  <2> QED
    BY <1>6, <2>2, LowChanges DEF SameBlocks
<1>13. s.state[e] = "COVER_CLOSED"
  BY <1>1, <1>2, <1>6, <1>12 DEF Driver
<1> QED
  BY <1>10, <1>11, <1>13

\* A command ends, and its callback is called if it has one.
LEMMA AnswerEffect ==
  ASSUME NEW r \in Driver, NEW b \in Block, NEW state \in States,
         NEW result \in {"good", "canceled"},
         r.callback[b] = NULL \/ r.answer[b] = "due",
         NEW s, s = Answer(r, b, state, result)
  PROVE  /\ s \in Driver /\ SameElse(r, s)
         /\ s.state[b] = state
         /\ \A x \in Block : x # b => s.state[x] = r.state[x]
         /\ s.answer[b] = IF r.callback[b] = NULL THEN r.answer[b] ELSE result
         /\ \A x \in Block : x # b => s.answer[x] = r.answer[x]
         /\ s.WaitingQueue = r.WaitingQueue /\ s.executing = r.executing
         /\ s.ResumeFromHere = r.ResumeFromHere
         /\ s.MotorState = r.MotorState /\ s.Prepared = r.Prepared
<1> DEFINE a == IF r.callback[b] = NULL THEN r.answer[b] ELSE result
           w == [r EXCEPT !.state[b] = state, !.answer[b] = a]
           v == [w EXCEPT !.sleeping = {}]
<1>1. (IF r.callback[b] = NULL THEN r.answer[b]
       ELSE IF r.answer[b] = "due" THEN result ELSE "twice") = a
  OBVIOUS
<1>2. s = w \/ s = v
  BY <1>1 DEF Answer, Wake
<1>3. a \in {"none", "due", "good", "canceled", "dropped"}
  BY DEF Driver
<1> HIDE DEF a
<1>4. /\ w \in Driver /\ w.state = [r.state EXCEPT ![b] = state]
      /\ w.answer = [r.answer EXCEPT ![b] = a]
  BY <1>3 DEF Driver
<1>5. SameElse(r, w)
  BY DEF Driver, SameElse
<1>6. /\ w.WaitingQueue = r.WaitingQueue /\ w.executing = r.executing
      /\ w.ResumeFromHere = r.ResumeFromHere
      /\ w.MotorState = r.MotorState /\ w.Prepared = r.Prepared
  BY DEF Driver
<1> HIDE DEF w
<1>7. v \in Driver /\ v.state = w.state /\ v.answer = w.answer
  BY <1>4, ZenonT(60) DEF Driver
<1>8. SameElse(w, v)
  BY <1>4 DEF Driver, SameElse
<1>9. /\ v.WaitingQueue = w.WaitingQueue /\ v.executing = w.executing
      /\ v.ResumeFromHere = w.ResumeFromHere
      /\ v.MotorState = w.MotorState /\ v.Prepared = w.Prepared
  BY <1>4 DEF Driver
<1> HIDE DEF v
<1>11. /\ s.state = [r.state EXCEPT ![b] = state]
       /\ s.answer = [r.answer EXCEPT ![b] = a]
  BY <1>2, <1>4, <1>7
<1>12. /\ s.state[b] = state /\ \A x \in Block : x # b => s.state[x] = r.state[x]
       /\ s.answer[b] = a /\ \A x \in Block : x # b => s.answer[x] = r.answer[x]
  BY <1>11 DEF Driver
<1>10. SameElse(r, v)
  BY <1>5, <1>8 DEF SameElse
<1> QED
  BY <1>2, <1>4, <1>5, <1>6, <1>7, <1>9, <1>10, <1>12 DEF a

\* A driver that may take the next command.
MayTake(r, l) ==
    /\ r \in Driver /\ r.down = NULL /\ ~r.Canceling
    /\ Others(r, NULL) /\ Cover(r, NULL)
    /\ r.storing = NULL /\ ~r.ResetAlarm
    /\ l \in Seq(Request) /\ Len(l) <= 1 /\ ContextMax >= 3
    /\ r.low = l
    /\ Queued(r) \cap InquiryBlock = {} \/ r.ResumeFromHere = "NONE"

\* A driver that has left its command, which is not answered yet.
Ending(r, l) ==
    /\ r \in Driver /\ r.down = NULL /\ ~r.Canceling
    /\ r.executing # NULL /\ Others(r, r.executing) /\ Cover(r, NULL)
    /\ r.storing = NULL /\ ~r.ResetAlarm
    /\ l \in Seq(Request) /\ Len(l) <= 1 /\ ContextMax >= 3
    /\ r.low = l
    /\ Queued(r) \cap InquiryBlock = {} \/ r.ResumeFromHere = "NONE"

\* A command that runs may end.
LEMMA RunsEnding ==
  ASSUME NEW r, NEW l, Runs(r, l), r.low = l, ~r.Canceling
  PROVE  Ending(r, l)
<1>1. /\ r.ResumeFromHere = "NONE" /\ r.MotorState = "WORKING"
      /\ ~r.WaitingForCoverOpen /\ ~r.WaitingForCoverClose
      /\ ~r.CoverAlarm /\ ~r.PreparingCover
  BY DEF Runs, Cover
<1>2. Cover(r, NULL)
  BY <1>1 DEF Cover, Waits
<1>3. Others(r, r.executing)
  BY DEF Runs, Blocks
<1> QED
  BY <1>1, <1>2, <1>3 DEF Ending, Runs

\* Nothing but the command was answered.
Answers(r, s, result) ==
    /\ Queued(s) = Queued(r) /\ SameElse(r, s)
    /\ s.executing = r.executing /\ s.Prepared = r.Prepared
    /\ s.answer[r.executing] # "due"
    /\ \A b \in Block : s.answer[b] # r.answer[b]
         => b = r.executing /\ r.answer[b] = "due" /\ s.answer[b] = result

\* The command is answered.
LEMMA AnswerTake ==
  ASSUME NEW r, NEW l, Ending(r, l),
         NEW state \in {"IDLE", "CANCELED"}, NEW result \in {"good", "canceled"},
         NEW s, s = Answer(r, r.executing, state, result)
  PROVE  MayTake(s, l) /\ s.state[r.executing] = state /\ Answers(r, s, result)
<1> DEFINE e == r.executing
<1>1. r \in Driver /\ e \in Block /\ Others(r, e) /\ e # NULL
  BY DEF Ending, Driver
<1>2. r.callback[e] = NULL \/ r.answer[e] = "due"
  BY <1>1 DEF Others
<1>3. /\ s \in Driver /\ SameElse(r, s)
      /\ s.WaitingQueue = r.WaitingQueue /\ s.executing = r.executing
      /\ s.ResumeFromHere = r.ResumeFromHere
      /\ s.MotorState = r.MotorState /\ s.Prepared = r.Prepared
      /\ s.state[e] = state /\ \A x \in Block : x # e => s.state[x] = r.state[x]
      /\ s.answer[e] = IF r.callback[e] = NULL THEN r.answer[e] ELSE result
      /\ \A x \in Block : x # e => s.answer[x] = r.answer[x]
  <2>1. state \in States
    BY DEF States
  <2> QED
    BY <1>1, <1>2, <2>1, AnswerEffect
<1>4. Queued(s) = Queued(r)
  BY <1>3, QueuedMembers
<1>5. s.answer[e] # "due"
  BY <1>1, <1>3 DEF Others
<1>6. \A b \in Queued(r) : b \in Block /\ b # e
  BY <1>1, QueuedMembers, MembersAreBlocks DEF Others
<1>7. Others(s, NULL)
  BY <1>1, <1>3, <1>4, <1>5, <1>6, Names
     DEF Others, SameElse, Working, CoverWaits
<1>8. Cover(s, NULL)
  BY <1>3 DEF Cover, SameElse, Waits, Ending
<1>9. MayTake(s, l)
  BY <1>3, <1>4, <1>7, <1>8 DEF MayTake, Ending, SameElse
<1>10. \A b \in Block : s.answer[b] # r.answer[b]
         => b = e /\ r.answer[b] = "due" /\ s.answer[b] = result
  BY <1>1, <1>3 DEF Others
<1> QED
  BY <1>3, <1>4, <1>5, <1>9, <1>10 DEF Answers

-----------------------------------------------------------------------------
(* The next command. *)

\* What happens to the commands that wait.
Serves(r, s) ==
    /\ s.length = r.length /\ s.transferTotal = r.transferTotal
    /\ s.Canceling = r.Canceling /\ s.Breaking = r.Breaking
    /\ s.Prepared = r.Prepared /\ s.PreparingCover = r.PreparingCover
    /\ Queued(s) \subseteq Queued(r)
    /\ \A b \in Block : s.answer[b] # r.answer[b]
         => /\ b \in Queued(r) /\ b \notin InquiryBlock /\ r.length[b] = 0
            /\ r.answer[b] = "due" /\ s.answer[b] = "good"

\* One command after the other is taken.
LEMMA ServesOn ==
  ASSUME NEW r, NEW s, NEW t, Serves(r, s), Serves(s, t)
  PROVE  Serves(r, t)
<1>1. ASSUME NEW b \in Block, t.answer[b] # r.answer[b]
      PROVE  /\ b \in Queued(r) /\ b \notin InquiryBlock /\ r.length[b] = 0
             /\ r.answer[b] = "due" /\ t.answer[b] = "good"
  <2>1. CASE s.answer[b] # r.answer[b]
    BY <2>1 DEF Serves
  <2>2. CASE s.answer[b] = r.answer[b]
    BY <1>1, <2>2 DEF Serves
  <2> QED
    BY <2>1, <2>2
<1> QED
  BY <1>1 DEF Serves

\* stateBusy up to the end of a read of nothing.
LEMMA BeginEffect ==
  ASSUME NEW r, NEW l, Runs(r, l), r.low = l, Unfinished(r),
         ~r.Canceling, NEW s, s = Begin(r)
  PROVE  \/ GoesOn(r, s, l) /\ Plain(s, l)
         \/ /\ MayTake(s, l) /\ s.state[r.executing] = "IDLE"
            /\ Answers(r, s, "good")
            /\ r.executing \notin InquiryBlock /\ r.length[r.executing] = 0
<1> DEFINE e == r.executing
           y == [r EXCEPT !.LastState = "stateBusy"]
<1>1. /\ Runs(y, l) /\ Queued(y) = Queued(r) /\ y.low = l
      /\ SameBlocks(r, y) /\ SameCover(r, y) /\ SameControl(r, y)
  BY RunsAnd
<1>2. s = CASE e \in InquiryBlock -> SendCleared(y, "Inquiry", "Busy")
            [] e \notin InquiryBlock /\ r.length[e] = 0 ->
                 Answer(y, e, "IDLE", "good")
            [] OTHER -> SendCleared(y, "Read", "Busy")
  BY DEF Begin
<1> HIDE DEF y
<1>3. /\ y.executing = e /\ y.length = r.length
      /\ y.transferTotal = r.transferTotal
  BY <1>1 DEF SameBlocks, SameControl
<1>4. e # NULL
  BY DEF Runs
<1>5. CASE e \in InquiryBlock
  <2>1. s = SendCleared(y, "Inquiry", "Busy")
    BY <1>2, <1>5
  <2>2. GoesOn(y, s, l) /\ Plain(s, l)
    BY <1>1, <1>3, <1>5, <2>1, ClearedGoesOn DEF Operations, StepCallbacks, Fits
  <2> QED
    BY <1>1, <2>2, GoesOnAlike
<1>6. CASE e \notin InquiryBlock /\ r.length[e] = 0
  <2>1. s = Answer(y, y.executing, "IDLE", "good")
    BY <1>2, <1>3, <1>6
  <2>2. Ending(y, l)
    BY <1>1, RunsEnding DEF SameControl
  <2>3. MayTake(s, l) /\ s.state[e] = "IDLE" /\ Answers(y, s, "good")
    BY <1>3, <2>1, <2>2, AnswerTake
  <2>4. Answers(r, s, "good")
    BY <1>1, <2>3 DEF Answers, SameElse, SameBlocks, SameCover, SameControl
  <2> QED
    BY <1>6, <2>3, <2>4
<1>7. CASE e \notin InquiryBlock /\ r.length[e] # 0
  <2>1. s = SendCleared(y, "Read", "Busy")
    BY <1>2, <1>7
  <2>2. r.transferTotal[e] < r.length[e]
    BY <1>4, <1>7 DEF Unfinished
  <2>3. GoesOn(y, s, l) /\ Plain(s, l)
    BY <1>1, <1>3, <1>7, <2>1, <2>2, ClearedGoesOn
       DEF Operations, StepCallbacks, Fits
  <2> QED
    BY <1>1, <2>3, GoesOnAlike
<1> QED
  BY <1>5, <1>6, <1>7

\* ResumeFromHere is forgotten.
LEMMA ForgetPoint ==
  ASSUME NEW r \in Driver, NEW s, s = [r EXCEPT !.ResumeFromHere = "NONE"]
  PROVE  /\ s \in Driver /\ s.low = r.low /\ s.ResumeFromHere = "NONE"
         /\ SameBlocks(r, s) /\ SameControl(r, s)
         /\ s.MotorState = r.MotorState
         /\ s.WaitingForCoverOpen = r.WaitingForCoverOpen
         /\ s.WaitingForCoverClose = r.WaitingForCoverClose
         /\ s.PreparingCover = r.PreparingCover /\ s.CoverAlarm = r.CoverAlarm
<1>1. s \in Driver /\ s.low = r.low /\ s.ResumeFromHere = "NONE"
  BY ZenonT(60) DEF Driver, Points
<1>2. SameBlocks(r, s)
  BY DEF SameBlocks, Driver
<1>3. SameControl(r, s)
  BY DEF SameControl, Driver
<1> QED
  BY <1>1, <1>2, <1>3 DEF Driver

\* A command that was popped before.
LEMMA PickedFrom ==
  ASSUME NEW r, NEW l, Ending(r, l),
         NEW s, s = [r EXCEPT !.ResumeFromHere = "NONE"]
  PROVE  Picked(s, l) /\ s.low = l /\ Keeps(r, s)
<1>1. /\ s \in Driver /\ s.low = r.low /\ s.ResumeFromHere = "NONE"
      /\ SameBlocks(r, s) /\ SameControl(r, s)
      /\ s.PreparingCover = r.PreparingCover
  BY ForgetPoint DEF Ending
<1>2. Queued(s) = Queued(r)
  BY <1>1, BlocksAlike
<1>3. Others(s, r.executing)
  BY <1>1, <1>2 DEF Ending, Others, SameBlocks
<1> QED
  BY <1>1, <1>2, <1>3 DEF Picked, Keeps, Ending, SameBlocks, SameControl

\* The command that was popped starts, or resumes where the last one was.
LEMMA StartsEffect ==
  ASSUME NEW r, NEW l, Ending(r, l),
         r.executing \in InquiryBlock => r.ResumeFromHere = "NONE",
         NEW s, s = Starts(r)
  PROVE  /\ Keeps(r, s)
         /\ \/ s.state[r.executing] = "BUSY" /\ Runs(s, l) /\ s.low = l
            \/ s.state[r.executing] \notin {"IDLE", "BUSY"}
               /\ Left(s, l) /\ Plain(s, l)
<1> DEFINE e == r.executing
           g == [r EXCEPT !.ResumeFromHere = "NONE"]
           n == IF e \in InquiryBlock THEN g ELSE r
<1>1. /\ g \in Driver /\ g.low = r.low /\ g.ResumeFromHere = "NONE"
      /\ SameBlocks(r, g) /\ SameControl(r, g)
      /\ g.MotorState = r.MotorState
      /\ g.WaitingForCoverOpen = r.WaitingForCoverOpen
      /\ g.WaitingForCoverClose = r.WaitingForCoverClose
      /\ g.PreparingCover = r.PreparingCover /\ g.CoverAlarm = r.CoverAlarm
  BY ForgetPoint DEF Ending
<1>2. Picked(g, l) /\ g.low = l /\ Keeps(r, g)
  BY PickedFrom
<1>3. r.ResumeFromHere = "NONE" => Picked(r, l) /\ r.low = l /\ Keeps(r, r)
  BY DEF Picked, Keeps, Ending
<1>4. g.executing = e /\ e \in Block /\ r.low = l /\ r \in Driver
  BY <1>1 DEF SameControl, Ending, Driver
<1>5. CASE r.ResumeFromHere # "NONE"
  <2> DEFINE p == r.ResumeFromHere
  <2>1. n = r
    BY <1>5
  <2>2. s = Resume(r)
    BY <1>5, <2>1 DEF Starts
  <2>3. s = IF p \in {"DISK_ERROR", "NO_DISK", "COVER_OPENED"}
            THEN WaitForCover(g, p) ELSE CoverClosed(g)
    BY <2>2 DEF Resume
  <2> HIDE DEF g, n
  <2>4. CASE p \in Resumable
    <3>1. s = WaitForCover(g, p) /\ p \in CoverWaits
      BY <2>3, <2>4 DEF Resumable, CoverWaits
    <3>2. /\ ~(g.WaitingForCoverOpen /\ g.WaitingForCoverClose)
          /\ g.CoverAlarm <=> g.WaitingForCoverOpen \/ g.WaitingForCoverClose
          /\ g.PreparingCover => g.CoverAlarm
      BY <1>1 DEF Ending, Cover
    <3>3. GoesOn(g, s, l) /\ Plain(s, l) /\ s.state[g.executing] = p
      <4>1. ~g.Canceling
        BY <1>2 DEF Keeps, Ending
      <4> QED
        BY <1>2, <2>4, <3>1, <3>2, <4>1, WaitGoesOn
    <3>4. Keeps(r, s) /\ Left(s, l)
      BY <1>2, <3>3 DEF GoesOn, Keeps
    <3> QED
      BY <1>4, <2>4, <3>3, <3>4 DEF Resumable
  <2>5. CASE p \notin Resumable
    <3>1. s = CoverClosed(g)
      BY <2>3, <2>5 DEF Resumable
    <3>2. NoCover(g)
      BY <1>1, <2>5 DEF Ending, Cover, Waits, NoCover
    <3>3. GoesOn(g, s, l) /\ Plain(s, l) /\ s.state[g.executing] = "COVER_CLOSED"
      BY <1>2, <3>1, <3>2, CoverClosedGoesOn
    <3>4. Keeps(r, s) /\ Left(s, l)
      BY <1>2, <3>3 DEF GoesOn, Keeps
    <3> QED
      BY <1>4, <3>3, <3>4
  <2> QED
    BY <2>4, <2>5
<1>6. CASE r.ResumeFromHere = "NONE"
  <2>1. /\ r.MotorState = "WORKING" /\ ~r.WaitingForCoverOpen
        /\ ~r.WaitingForCoverClose /\ ~r.CoverAlarm /\ ~r.PreparingCover
    BY <1>6 DEF Ending, Cover, Waits, Resumable
  <2>2. n \in {g, r}
    OBVIOUS
  <2>3. /\ n.ResumeFromHere = "NONE" /\ n.MotorState = "WORKING"
        /\ n \in Driver /\ n.executing = e /\ Picked(n, l) /\ n.low = l
        /\ Keeps(r, n)
    BY <1>1, <1>2, <1>3, <1>4, <1>6, <2>1, <2>2
  <2>4. NoCover(n)
    BY <1>1, <2>1, <2>2 DEF NoCover
  <2>5. s = [n EXCEPT !.state[e] = "BUSY"]
    BY <2>3 DEF Starts
  <2> HIDE DEF g, n
  <2>6. /\ s \in Driver /\ s.state = [n.state EXCEPT ![e] = "BUSY"]
        /\ s.MotorState = n.MotorState /\ s.answer = n.answer
        /\ s.WaitingQueue = n.WaitingQueue /\ s.executing = n.executing
        /\ s.ResumeFromHere = n.ResumeFromHere /\ s.Prepared = n.Prepared
        /\ SameElse(n, s)
    <3>1. "BUSY" \in States
      BY DEF States
    <3> QED
      BY <1>4, <2>3, <2>5, <3>1, StateSet, ZenonT(60)
  <2>9. Runs(s, l) /\ Queued(s) = Queued(n)
    BY <2>3, <2>4, <2>6, StateRuns
  <2>10. s.state[e] = "BUSY"
    BY <1>4, <2>3, <2>6 DEF Driver
  <2>11. Keeps(r, s)
    BY <2>3, <2>6, <2>9 DEF Keeps, SameElse
  <2>12. s.low = l
    BY <2>3, <2>6 DEF SameElse
  <2> QED
    BY <2>9, <2>10, <2>11, <2>12
<1> QED
  BY <1>5, <1>6

\* A command is popped from the queues.
LEMMA PopEffect ==
  ASSUME NEW r, NEW l, MayTake(r, l), Queued(r) # {},
         NEW s, s = PopWaitingQueue(r)
  PROVE  /\ Ending(s, l) /\ SameElse(r, s) /\ s.answer = r.answer
         /\ s.Prepared = r.Prepared /\ s.ResumeFromHere = r.ResumeFromHere
         /\ s.executing \in Queued(r)
         /\ Queued(s) = Queued(r) \ {s.executing}
         /\ s.transferTotal[s.executing] = 0 /\ s.answer[s.executing] = "due"
<1> DEFINE w == r.WaitingQueue
           p == Min({q \in Prio : w[q] # <<>>})
           e == Head(w[p])
           m == [w EXCEPT ![p] = Tail(@)]
           x == [r EXCEPT !.executing = e, !.WaitingQueue = m]
<1>1. r \in Driver /\ Queues(w) /\ Members(w) # {} /\ Queued(r) = Members(w)
  BY QueuedMembers DEF MayTake, Others
<1>2. /\ Queues(m) /\ e \in Block /\ e \in Members(w)
      /\ Members(m) = Members(w) \ {e}
  BY <1>1, PopQueue
<1>3. s = x
  BY <1>1 DEF PopWaitingQueue, Driver
<1>4. m \in [Prio -> Seq(Block)]
  BY <1>2 DEF Queues
<1> HIDE DEF m, e
<1>5. s \in Driver /\ s.executing = e /\ s.WaitingQueue = m
  <2> HIDE DEF w
  <2>1. s.executing = e /\ s.WaitingQueue = m
    BY <1>1, <1>3 DEF Driver
  <2>2. s = [r EXCEPT !.executing = e, !.WaitingQueue = m]
    BY <1>3
  <2>3. e \in Block \cup {NULL}
    BY <1>2
  <2> DEFINE y == [r EXCEPT !.executing = e]
  <2>4. y \in Driver
    BY <1>1, <2>3 DEF Driver
  <2>5. s = [y EXCEPT !.WaitingQueue = m]
    BY <2>2
  <2> HIDE DEF y, x
  <2>6. s \in Driver
    BY <1>4, <2>4, <2>5, ZenonT(60) DEF Driver
  <2> QED
    BY <2>1, <2>6
<1>6. SameElse(r, s)
  BY <1>1, <1>3 DEF Driver, SameElse
<1>7. /\ s.state = r.state /\ s.answer = r.answer /\ s.Prepared = r.Prepared
      /\ s.ResumeFromHere = r.ResumeFromHere /\ s.MotorState = r.MotorState
  BY <1>1, <1>3 DEF Driver
<1> HIDE DEF x, w
<1>8. Queued(s) = Queued(r) \ {e} /\ e \in Queued(r)
  BY <1>1, <1>2, <1>5, QueuedMembers
<1>9. /\ s.state[e] = "WAITING" /\ s.answer[e] = "due"
      /\ s.callback[e] # NULL /\ s.transferTotal[e] = 0
  BY <1>6, <1>7, <1>8 DEF MayTake, Others, SameElse
<1>10. Others(s, e)
  <2>1. e \notin InquiryBlock => s.transferTotal[e] <= s.length[e]
    BY <1>2, <1>5, <1>9 DEF Driver
  <2>2. ASSUME NEW b \in Block, b # e
        PROVE  /\ s.state[b] \notin Working
               /\ s.state[b] = "WAITING"
                    => b \in Queued(s) \/ s.answer[b] = "dropped"
               /\ s.answer[b] = "due" => b \in Queued(s)
    BY <1>7, <1>8, <2>2, Names DEF MayTake, Others
  <2>3. \A b \in Queued(s) :
          /\ s.state[b] = "WAITING" /\ s.answer[b] = "due"
          /\ s.callback[b] # NULL /\ s.transferTotal[b] = 0
    BY <1>6, <1>7, <1>8 DEF MayTake, Others, SameElse
  <2> QED
    BY <1>2, <1>5, <1>8, <1>9, <2>1, <2>2, <2>3 DEF Others
<1>11. Cover(s, NULL)
  BY <1>6, <1>7 DEF MayTake, Cover, Waits, SameElse
<1>12. e # NULL
  BY <1>2, Names
<1>13. Ending(s, l)
  BY <1>5, <1>6, <1>7, <1>8, <1>10, <1>11, <1>12 DEF Ending, MayTake, SameElse
<1> QED
  BY <1>5, <1>6, <1>7, <1>8, <1>9, <1>13

\* The command the driver works on has not ended.
LEMMA WorksOn ==
  ASSUME NEW s, NEW l, Left(s, l), s.executing # NULL
  PROVE  s.state[s.executing] # "IDLE"
BY DEF Left, Blocks, Working, CoverWaits

\* stateReady up to the end of a read of nothing.
LEMMA TakeEffect ==
  ASSUME NEW r, NEW l, MayTake(r, l), NEW s, s = Take(r)
  PROVE  /\ Serves(r, s) /\ s.executing \in Queued(r) \cup {NULL}
         /\ Queued(r) # {}
              => s.executing \in Queued(r) \ Queued(s)
         /\ \/ Left(s, l) /\ Plain(s, l)
            \/ /\ MayTake(s, l) /\ s.executing # NULL
               /\ s.state[s.executing] = "IDLE"
<1>1. CASE Queued(r) = {}
  <2>1. s = [r EXCEPT !.executing = NULL] /\ r \in Driver
    BY <1>1 DEF Take, MayTake
  <2>2. s \in Driver /\ s.executing = NULL /\ s.low = r.low
    BY <2>1, ZenonT(60) DEF Driver
  <2>3. SameBlocks(r, s)
    BY <2>1 DEF Driver, SameBlocks
  <2>4. SameCover(r, s)
    BY <2>1 DEF Driver, SameCover
  <2>5. /\ s.Canceling = r.Canceling /\ s.Breaking = r.Breaking
        /\ s.ResetAlarm = r.ResetAlarm /\ s.storing = r.storing
        /\ s.Prepared = r.Prepared /\ s.down = r.down
    BY <2>1 DEF Driver
  <2>6. Queued(s) = Queued(r) /\ Blocks(s, NULL)
    BY <2>3, BlocksAlike DEF MayTake, Blocks
  <2>7. Cover(s, NULL)
    BY <2>4, CoverAlike DEF MayTake
  <2>8. Continues(s, NULL, l)
    BY <2>2, <2>5 DEF MayTake, Continues
  <2>9. Fresh(s, l) /\ Plain(s, l)
    BY <2>2, Unsent DEF MayTake
  <2>10. Serves(r, s)
    BY <2>3, <2>4, <2>5, <2>6 DEF Serves, SameBlocks, SameCover
  <2>11. Left(s, l)
    BY <2>2, <2>5, <2>6, <2>7, <2>8, <2>9 DEF Left, MayTake, CancelsWork
  <2> QED
    BY <1>1, <2>2, <2>9, <2>10, <2>11
<1>2. CASE Queued(r) # {}
  <2> DEFINE n == PopWaitingQueue(r)
             m == Starts(n)
             e == n.executing
  <2>1. /\ Ending(n, l) /\ SameElse(r, n) /\ n.answer = r.answer
        /\ n.Prepared = r.Prepared /\ n.ResumeFromHere = r.ResumeFromHere
        /\ e \in Queued(r) /\ Queued(n) = Queued(r) \ {e}
        /\ n.transferTotal[e] = 0 /\ n.answer[e] = "due"
    BY <1>2, PopEffect
  <2>2. s = IF m.state[m.executing] = "BUSY" THEN Begin(m) ELSE m
    BY <1>2 DEF Take
  <2> HIDE DEF n
  <2>3. e \in InquiryBlock => n.ResumeFromHere = "NONE"
    BY <2>1 DEF MayTake
  <2>4. /\ Keeps(n, m)
        /\ \/ m.state[e] = "BUSY" /\ Runs(m, l) /\ m.low = l
           \/ m.state[e] \notin {"IDLE", "BUSY"} /\ Left(m, l) /\ Plain(m, l)
    BY <2>1, <2>3, StartsEffect
  <2> HIDE DEF m
  <2>5. /\ m.executing = e /\ Queued(m) = Queued(r) \ {e}
        /\ m.answer = r.answer /\ m.length = r.length
        /\ m.transferTotal = r.transferTotal /\ m.transferTotal[e] = 0
        /\ m.Canceling = r.Canceling /\ m.Breaking = r.Breaking
        /\ m.Prepared = r.Prepared /\ m.PreparingCover = r.PreparingCover
        /\ m.answer[e] = "due" /\ e # NULL
    BY <2>1, <2>4 DEF Keeps, SameElse, Ending
  <2> HIDE DEF e
  <2>6. CASE m.state[e] # "BUSY"
    <3>1. s = m /\ Left(s, l) /\ Plain(s, l)
      BY <2>2, <2>4, <2>5, <2>6
    <3>2. Serves(r, s)
      BY <2>5, <3>1 DEF Serves
    <3> QED
      BY <2>1, <2>5, <3>1, <3>2
  <2>7. CASE m.state[e] = "BUSY"
    <3>1. s = Begin(m) /\ Runs(m, l) /\ m.low = l
      BY <2>2, <2>4, <2>5, <2>7
    <3>2. Unfinished(m)
      <4>1. e \in Block /\ m.length[e] \in Nat
        BY <2>5, <3>1 DEF Runs, Driver
      <4> QED
        BY <2>5, <4>1 DEF Unfinished
    <3>3. CASE GoesOn(m, s, l) /\ Plain(s, l)
      <4>1. Serves(r, s) /\ s.executing = e /\ Queued(s) = Queued(r) \ {e}
        BY <2>5, <3>3 DEF GoesOn, Keeps, Serves
      <4> QED
        BY <2>1, <3>3, <4>1 DEF GoesOn
    <3>4. CASE /\ MayTake(s, l) /\ s.state[e] = "IDLE" /\ Answers(m, s, "good")
               /\ e \notin InquiryBlock /\ m.length[e] = 0
      <4>1. s.executing = e /\ Queued(s) = Queued(r) \ {e}
        BY <2>5, <3>4 DEF Answers
      <4>2. \A b \in Block : s.answer[b] # r.answer[b]
              => /\ b \in Queued(r) /\ b \notin InquiryBlock /\ r.length[b] = 0
                 /\ r.answer[b] = "due" /\ s.answer[b] = "good"
        BY <2>1, <2>5, <3>4 DEF Answers
      <4>3. Serves(r, s)
        BY <2>5, <3>4, <4>1, <4>2 DEF Answers, SameElse, Serves
      <4> QED
        BY <2>1, <2>5, <3>4, <4>1, <4>3
    <3> QED
      <4>1. ~m.Canceling
        BY <2>5 DEF MayTake
      <4> QED
        BY <2>5, <3>1, <3>2, <3>3, <3>4, <4>1, BeginEffect
  <2> QED
    BY <2>6, <2>7
<1> QED
  BY <1>1, <1>2

-----------------------------------------------------------------------------
(* Reads of nothing, one after the other. *)

\* What the recursion of stateReady defines.
IsTaking(r, n, f) ==
    f = [i \in 0 .. n |-> IF i = 0 THEN Take(r) ELSE TakeNext(f[i - 1])]

\* There is such a function.
LEMMA TakingExists ==
  ASSUME NEW r, NEW n \in Nat
  PROVE  \E f : IsTaking(r, n, f)
<1> DEFINE S == {k \in Nat : \E f : IsTaking(r, k, f)}
<1>1. 0 \in S
  <2> DEFINE f == [i \in 0 .. 0 |-> Take(r)]
  <2>1. f = [i \in 0 .. 0 |-> IF i = 0 THEN Take(r) ELSE TakeNext(f[i - 1])]
    OBVIOUS
  <2> QED
    BY <2>1 DEF IsTaking
<1>2. \A k \in Nat : k \in S => k + 1 \in S
  <2> SUFFICES ASSUME NEW k \in Nat, k \in S PROVE k + 1 \in S
    OBVIOUS
  <2>1. PICK f : IsTaking(r, k, f)
    OBVIOUS
  <2> DEFINE g == [i \in 0 .. k + 1 |->
                     IF i <= k THEN f[i] ELSE TakeNext(f[k])]
  <2>2. ASSUME NEW i \in 0 .. k + 1
        PROVE  g[i] = IF i = 0 THEN Take(r) ELSE TakeNext(g[i - 1])
    <3>1. CASE i = 0
      <4>1. f[0] = Take(r)
        BY <2>1 DEF IsTaking
      <4> QED
        BY <3>1, <4>1
    <3>2. CASE i # 0 /\ i <= k
      <4>1. i \in 0 .. k /\ i - 1 \in 0 .. k + 1 /\ i - 1 <= k
        BY <3>2
      <4>2. f[i] = TakeNext(f[i - 1])
        BY <2>1, <3>2, <4>1 DEF IsTaking
      <4> QED
        BY <3>2, <4>1, <4>2
    <3>3. CASE i = k + 1
      <4>1. k \in 0 .. k + 1 /\ i - 1 = k
        BY <3>3
      <4>2. g[i] = TakeNext(f[k]) /\ g[k] = f[k]
        BY <3>3
      <4> QED
        BY <3>3, <4>1, <4>2
    <3> QED
      BY <3>1, <3>2, <3>3
  <2>3. g = [i \in 0 .. k + 1 |->
               IF i = 0 THEN Take(r) ELSE TakeNext(g[i - 1])]
    BY <2>2
  <2>4. \E h : IsTaking(r, k + 1, h)
    BY <2>3 DEF IsTaking
  <2> QED
    BY <2>4
<1> HIDE DEF S
<1>3. n \in S
  BY <1>1, <1>2, Induction
<1> QED
  BY <1>3 DEF S

\* The driver after some reads of nothing: it waits for something, or may take
\* one of at most c commands.
Taken(r, s, l, c) ==
    /\ Serves(r, s) /\ s.executing \in Queued(r) \cup {NULL}
    /\ Queued(r) # {} => Queued(s) # Queued(r)
    /\ \/ Left(s, l) /\ Plain(s, l)
       \/ /\ MayTake(s, l) /\ s.executing # NULL
          /\ s.state[s.executing] = "IDLE" /\ Cardinality(Queued(s)) <= c

\* The commands that wait are blocks, of which there are finitely many.
LEMMA QueuedFinite ==
  ASSUME NEW r, NEW l, MayTake(r, l)
  PROVE  /\ IsFiniteSet(Queued(r)) /\ Queued(r) \subseteq Block
         /\ Cardinality(Queued(r)) \in Nat /\ Cardinality(Block) \in Nat
         /\ Cardinality(Queued(r)) <= Cardinality(Block)
<1>1. Queued(r) \subseteq Block
  BY QueuedMembers, MembersAreBlocks DEF MayTake, Others
<1>2. IsFiniteSet(Block)
  BY DVDAssumption
<1> QED
  BY <1>1, <1>2, FS_Subset, FS_CardinalityType

\* One command fewer waits.
LEMMA FewerQueued ==
  ASSUME NEW r, NEW l, MayTake(r, l), Queued(r) # {}, NEW s, Serves(r, s),
         s.executing \in Queued(r) \ Queued(s)
  PROVE  /\ Queued(s) # Queued(r)
         /\ Cardinality(Queued(s)) \in Nat
         /\ Cardinality(Queued(s)) + 1 <= Cardinality(Queued(r))
<1> DEFINE e == s.executing
<1>1. Queued(s) \subseteq Queued(r) \ {e} /\ e \in Queued(r)
  BY DEF Serves
<1>2. IsFiniteSet(Queued(r)) /\ Cardinality(Queued(r)) \in Nat
  BY QueuedFinite
<1>3. /\ IsFiniteSet(Queued(r) \ {e})
      /\ Cardinality(Queued(r) \ {e}) = Cardinality(Queued(r)) - 1
  BY <1>1, <1>2, FS_RemoveElement
<1>4. /\ IsFiniteSet(Queued(s))
      /\ Cardinality(Queued(s)) <= Cardinality(Queued(r) \ {e})
  BY <1>1, <1>3, FS_Subset
<1>5. Cardinality(Queued(s)) \in Nat
  BY <1>4, FS_CardinalityType
<1> QED
  BY <1>1, <1>2, <1>3, <1>4, <1>5

\* The first turn.
LEMMA FirstTurn ==
  ASSUME NEW r, NEW l, MayTake(r, l)
  PROVE  Taken(r, Take(r), l, Cardinality(Block) - 1)
<1> DEFINE s == Take(r)
<1>1. /\ Serves(r, s) /\ s.executing \in Queued(r) \cup {NULL}
      /\ Queued(r) # {} => s.executing \in Queued(r) \ Queued(s)
      /\ \/ Left(s, l) /\ Plain(s, l)
         \/ /\ MayTake(s, l) /\ s.executing # NULL
            /\ s.state[s.executing] = "IDLE"
  BY TakeEffect
<1> HIDE DEF s
<1>2. CASE Queued(r) = {}
  <2>1. s.executing = NULL
    BY <1>1, <1>2
  <2> QED
    BY <1>1, <1>2, <2>1 DEF Taken, s
<1>3. CASE Queued(r) # {}
  <2>1. /\ Queued(s) # Queued(r) /\ Cardinality(Queued(s)) \in Nat
        /\ Cardinality(Queued(s)) + 1 <= Cardinality(Queued(r))
    BY <1>1, <1>3, FewerQueued
  <2>2. Cardinality(Queued(s)) <= Cardinality(Block) - 1
    BY <2>1, QueuedFinite
  <2> QED
    BY <1>1, <1>3, <2>1, <2>2 DEF Taken, s
<1> QED
  BY <1>2, <1>3

\* Another turn.
LEMMA NextTurn ==
  ASSUME NEW r, NEW s, NEW l, NEW c \in Int, Taken(r, s, l, c)
  PROVE  Taken(r, TakeNext(s), l, c - 1)
<1>1. CASE Left(s, l) /\ Plain(s, l)
  <2>1. TakeNext(s) = s
    BY <1>1, WorksOn DEF TakeNext
  <2> QED
    BY <1>1, <2>1 DEF Taken
<1>2. CASE /\ MayTake(s, l) /\ s.executing # NULL
           /\ s.state[s.executing] = "IDLE" /\ Cardinality(Queued(s)) <= c
  <2> DEFINE t == Take(s)
  <2>1. TakeNext(s) = t
    BY <1>2 DEF TakeNext
  <2>2. /\ Serves(s, t) /\ t.executing \in Queued(s) \cup {NULL}
        /\ Queued(s) # {} => t.executing \in Queued(s) \ Queued(t)
        /\ \/ Left(t, l) /\ Plain(t, l)
           \/ /\ MayTake(t, l) /\ t.executing # NULL
              /\ t.state[t.executing] = "IDLE"
    BY <1>2, TakeEffect
  <2> HIDE DEF t
  <2>3. Serves(r, t) /\ t.executing \in Queued(r) \cup {NULL}
    BY <2>2, ServesOn DEF Taken, Serves
  <2>4. Queued(r) # {} => Queued(t) # Queued(r)
    BY <2>2 DEF Taken, Serves
  <2>5. CASE Queued(s) = {}
    <3>1. t.executing = NULL
      BY <2>2, <2>5
    <3> QED
      BY <2>1, <2>2, <2>3, <2>4, <3>1 DEF Taken
  <2>6. CASE Queued(s) # {}
    <3>1. /\ Cardinality(Queued(t)) \in Nat
          /\ Cardinality(Queued(t)) + 1 <= Cardinality(Queued(s))
      BY <1>2, <2>2, <2>6, FewerQueued
    <3>2. Cardinality(Queued(t)) <= c - 1
      BY <1>2, <3>1, QueuedFinite
    <3> QED
      BY <2>1, <2>2, <2>3, <2>4, <3>2 DEF Taken
  <2> QED
    BY <2>5, <2>6
<1> QED
  BY <1>1, <1>2 DEF Taken

\* stateReady: the driver works on a command, or there is none.
LEMMA ReadyEffect ==
  ASSUME NEW r, NEW l, MayTake(r, l), NEW s, s = stateReady(r)
  PROVE  /\ Left(s, l) /\ Plain(s, l)
         /\ Serves(r, s) /\ s.executing \in Queued(r) \cup {NULL}
         /\ Queued(r) # {} => Queued(s) # Queued(r)
<1> DEFINE N == Cardinality(Block)
           f == CHOOSE f : IsTaking(r, N, f)
<1>1. N \in Nat
  BY QueuedFinite
<1>2. IsTaking(r, N, f)
  BY <1>1, TakingExists
<1>3. s = f[N]
  BY DEF stateReady, IsTaking
<1> HIDE DEF f, N
<1>4. /\ f[0] = Take(r)
      /\ \A i \in 1 .. N : f[i] = TakeNext(f[i - 1])
  BY <1>1, <1>2 DEF IsTaking
<1> DEFINE S == {i \in Nat : i <= N => Taken(r, f[i], l, N - 1 - i)}
<1>5. 0 \in S
  <2>1. Taken(r, f[0], l, N - 1)
    BY <1>4, FirstTurn DEF N
  <2>2. N - 1 - 0 = N - 1
    BY <1>1
  <2> QED
    BY <2>1, <2>2
<1>6. ASSUME NEW i \in Nat, i \in S PROVE i + 1 \in S
  <2> SUFFICES ASSUME i + 1 <= N PROVE Taken(r, f[i + 1], l, N - 1 - (i + 1))
    OBVIOUS
  <2>1. Taken(r, f[i], l, N - 1 - i)
    BY <1>1, <1>6
  <2>2. f[i + 1] = TakeNext(f[i])
    <3>1. i + 1 \in 1 .. N /\ (i + 1) - 1 = i
      BY <1>1
    <3> QED
      BY <1>4, <3>1
  <2>3. N - 1 - i \in Int /\ (N - 1 - i) - 1 = N - 1 - (i + 1)
    BY <1>1
  <2>4. Taken(r, f[i + 1], l, (N - 1 - i) - 1)
    BY <2>1, <2>2, <2>3, NextTurn
  <2> QED
    BY <2>3, <2>4
<1> HIDE DEF S
<1>7. N \in S
  BY <1>1, <1>5, <1>6, Induction
<1>8. Taken(r, s, l, N - 1 - N)
  BY <1>1, <1>3, <1>7 DEF S
<1>9. ~(MayTake(s, l) /\ Cardinality(Queued(s)) <= N - 1 - N)
  BY <1>1, QueuedFinite
<1> QED
  BY <1>8, <1>9 DEF Taken

\* The callback of a cancellation, or of a reset, that is called.
LEMMA CallbackEffect ==
  ASSUME NEW r \in Driver, NEW cb, NEW s, s = CallCancelCallback(r, cb)
  PROVE  /\ s \in Driver /\ SameBlocks(r, s) /\ SameCover(r, s)
         /\ SameElse(r, s) /\ s.executing = r.executing
         /\ s.Prepared \in {r.Prepared, "yes"} /\ Queued(s) = Queued(r)
<1> DEFINE p == [r EXCEPT !.Prepared = "yes"]
           w == [r EXCEPT !.sleeping = {}]
<1>1. s \in {p, w, r}
  BY DEF CallCancelCallback, Wake
<1>2. p \in Driver /\ p.executing = r.executing /\ p.Prepared = "yes"
  BY DEF Driver
<1>3. SameBlocks(r, p)
  BY DEF Driver, SameBlocks
<1>4. SameCover(r, p)
  BY DEF Driver, SameCover
<1>5. SameElse(r, p)
  BY DEF Driver, SameElse
<1>6. w \in Driver /\ w.executing = r.executing /\ w.Prepared = r.Prepared
  BY DEF Driver
<1>7. SameBlocks(r, w)
  BY DEF Driver, SameBlocks
<1>8. SameCover(r, w)
  BY DEF Driver, SameCover
<1>9. SameElse(r, w)
  BY DEF Driver, SameElse
<1>10. SameBlocks(r, r) /\ SameCover(r, r) /\ SameElse(r, r)
  BY DEF SameBlocks, SameCover, SameElse
<1> HIDE DEF p, w
<1>11. SameBlocks(r, s) /\ SameCover(r, s) /\ SameElse(r, s)
  BY <1>1, <1>3, <1>4, <1>5, <1>7, <1>8, <1>9, <1>10
<1>12. Queued(s) = Queued(r)
  BY <1>11, BlocksAlike
<1> QED
  BY <1>1, <1>2, <1>6, <1>11, <1>12

-----------------------------------------------------------------------------
(* The end of a command. *)

\* The command the driver worked on has ended, and perhaps reads of nothing.
Ended(r, s, result) ==
    /\ s.length = r.length /\ s.transferTotal = r.transferTotal
    /\ ~s.Canceling /\ (s.Breaking => r.Breaking)
    /\ s.PreparingCover = r.PreparingCover
    /\ s.Prepared \in {r.Prepared, "yes"}
    /\ Queued(s) \subseteq Queued(r) /\ s.executing \in Queued(r) \cup {NULL}
    /\ s.answer[r.executing] # "due"
    /\ \A b \in Block : s.answer[b] # r.answer[b]
         => /\ r.answer[b] = "due"
            /\ \/ b = r.executing /\ s.answer[b] = result
               \/ /\ b \in Queued(r) /\ b \notin InquiryBlock
                  /\ r.length[b] = 0 /\ s.answer[b] = "good"

\* The command is answered, callbacks are called, and the next one is taken.
LEMMA EndedBy ==
  ASSUME NEW r, r.executing \in Block, r.executing \notin Queued(r),
         ~r.Canceling, NEW result \in {"good", "canceled"},
         NEW a, Answers(r, a, result),
         NEW c, SameBlocks(a, c), SameElse(a, c), Queued(c) = Queued(a),
         c.Prepared \in {a.Prepared, "yes"},
         NEW s, Serves(c, s), s.executing \in Queued(c) \cup {NULL}
  PROVE  Ended(r, s, result)
<1>1. /\ Queued(c) = Queued(r) /\ c.answer = a.answer
      /\ c.length = r.length /\ c.transferTotal = r.transferTotal
      /\ c.Canceling = r.Canceling /\ c.Breaking = r.Breaking
      /\ c.PreparingCover = r.PreparingCover
      /\ c.Prepared \in {r.Prepared, "yes"}
  BY DEF Answers, SameBlocks, SameElse
<1>2. s.answer[r.executing] # "due"
  BY <1>1 DEF Answers, Serves
<1>3. ASSUME NEW b \in Block, s.answer[b] # r.answer[b]
      PROVE  /\ r.answer[b] = "due"
             /\ \/ b = r.executing /\ s.answer[b] = result
                \/ /\ b \in Queued(r) /\ b \notin InquiryBlock
                   /\ r.length[b] = 0 /\ s.answer[b] = "good"
  <2>1. CASE a.answer[b] # r.answer[b]
    <3>1. /\ b = r.executing /\ r.answer[b] = "due" /\ a.answer[b] = result
      BY <2>1 DEF Answers
    <3>2. s.answer[b] = a.answer[b]
      BY <1>1, <3>1 DEF Serves
    <3> QED
      BY <3>1, <3>2
  <2>2. CASE a.answer[b] = r.answer[b]
    BY <1>1, <1>3, <2>2 DEF Serves
  <2> QED
    BY <2>1, <2>2
<1> QED
  BY <1>1, <1>2, <1>3 DEF Ended, Serves

\* The same when the command is over.
LEMMA EndEffect ==
  ASSUME NEW r, NEW l, Ending(r, l), ~r.Canceling,
         NEW state \in {"IDLE", "CANCELED"}, NEW result \in {"good", "canceled"},
         NEW a, a = Answer(r, r.executing, state, result),
         NEW c, c = a \/ \E cb : c = CallCancelCallback(a, cb),
         NEW s, s = stateReady(c)
  PROVE  Left(s, l) /\ Plain(s, l) /\ Ended(r, s, result)
<1>1. MayTake(a, l) /\ Answers(r, a, result)
  BY AnswerTake
<1>2. /\ c \in Driver /\ SameBlocks(a, c) /\ SameCover(a, c)
      /\ SameElse(a, c) /\ c.executing = a.executing
      /\ c.Prepared \in {a.Prepared, "yes"} /\ Queued(c) = Queued(a)
  <2>1. CASE c = a
    BY <1>1, <2>1 DEF MayTake, SameBlocks, SameCover, SameElse
  <2>2. ASSUME NEW cb, c = CallCancelCallback(a, cb)
        PROVE  /\ c \in Driver /\ SameBlocks(a, c) /\ SameCover(a, c)
               /\ SameElse(a, c) /\ c.executing = a.executing
               /\ c.Prepared \in {a.Prepared, "yes"} /\ Queued(c) = Queued(a)
    <3>1. a \in Driver
      BY <1>1 DEF MayTake
    <3> QED
      BY <2>2, <3>1, CallbackEffect
  <2> QED
    BY <2>1, <2>2
<1>3. MayTake(c, l)
  <2>1. Others(c, NULL)
    BY <1>1, <1>2 DEF MayTake, Others, SameBlocks
  <2>2. Cover(c, NULL)
    BY <1>1, <1>2, CoverAlike DEF MayTake
  <2> QED
    BY <1>1, <1>2, <2>1, <2>2 DEF MayTake, SameElse, SameCover
<1>4. /\ Left(s, l) /\ Plain(s, l) /\ Serves(c, s)
      /\ s.executing \in Queued(c) \cup {NULL}
  BY <1>3, ReadyEffect
<1>5. r.executing \in Block /\ r.executing \notin Queued(r)
  BY DEF Ending, Driver, Others
<1>6. Ended(r, s, result)
  BY <1>1, <1>2, <1>4, <1>5, EndedBy
<1> QED
  BY <1>4, <1>6

\* What a callback does with the command: it goes on, or ends with its data, or
\* with its cancellation.
Outcome(r, s, l) ==
    \/ GoesOn(r, s, l) /\ Unfinished(r)
    \/ /\ Left(s, l) /\ Ended(r, s, "good")
       /\ \/ r.executing \in InquiryBlock
          \/ r.transferTotal[r.executing] = r.length[r.executing]
    \/ /\ Left(s, l) /\ Ended(r, s, "canceled")
       /\ r.Canceling \/ (r.Breaking /\ ~s.Breaking)

PlainOutcome(r, s, l) == Outcome(r, s, l) /\ Plain(s, l)

\* A step of the driver that keeps the commands as they are.
LEMMA AlikeKeeps ==
  ASSUME NEW r, NEW s, SameBlocks(r, s), SameCover(r, s), SameControl(r, s)
  PROVE  Keeps(r, s)
<1>1. Queued(s) = Queued(r)
  BY BlocksAlike
<1> QED
  BY <1>1 DEF Keeps, SameBlocks, SameCover, SameControl

\* An outcome is about what Keeps keeps.
LEMMA OutcomeAlike ==
  ASSUME NEW r, NEW s, NEW t, NEW l, Outcome(s, t, l), Keeps(r, s)
  PROVE  Outcome(r, t, l)
<1>1. Unfinished(s) => Unfinished(r)
  BY DEF Keeps, Unfinished
<1>2. GoesOn(s, t, l) => GoesOn(r, t, l)
  BY DEF GoesOn, Keeps
<1>3. ASSUME NEW result, Ended(s, t, result) PROVE Ended(r, t, result)
  BY <1>3 DEF Ended, Keeps
<1> QED
  BY <1>1, <1>2, <1>3 DEF Outcome, Keeps

\* The command has all its data.
LEMMA FinishOutcome ==
  ASSUME NEW r, NEW l, Runs(r, l), r.low = l, ~r.Canceling,
         \/ r.executing \in InquiryBlock
         \/ r.transferTotal[r.executing] = r.length[r.executing],
         NEW s, s = Finish(r)
  PROVE  PlainOutcome(r, s, l)
<1>1. Ending(r, l)
  BY RunsEnding
<1>2. Left(s, l) /\ Plain(s, l) /\ Ended(r, s, "good")
  BY <1>1, EndEffect DEF Finish
<1> QED
  BY <1>2 DEF PlainOutcome, Outcome

\* stateBusy.
LEMMA BusyOutcome ==
  ASSUME NEW r, NEW l, Runs(r, l), r.low = l, ~r.Canceling, Unfinished(r),
         NEW s, s = stateBusy(r)
  PROVE  PlainOutcome(r, s, l)
<1> DEFINE b == Begin(r)
           e == r.executing
<1>1. s = IF b.state[e] = "IDLE" THEN stateReady(b) ELSE b
  BY DEF stateBusy
<1>2. \/ GoesOn(r, b, l) /\ Plain(b, l)
      \/ /\ MayTake(b, l) /\ b.state[e] = "IDLE"
         /\ Answers(r, b, "good")
         /\ e \notin InquiryBlock /\ r.length[e] = 0
  BY BeginEffect
<1> HIDE DEF b
<1>3. e # NULL /\ e \in Block /\ e \notin Queued(r) /\ r \in Driver
  BY DEF Runs, Driver, Blocks, Others
<1>4. CASE GoesOn(r, b, l) /\ Plain(b, l)
  <2>1. Left(b, l) /\ b.executing = e
    BY <1>4 DEF GoesOn, Keeps
  <2>2. s = b
    BY <1>1, <1>3, <2>1, WorksOn
  <2> QED
    BY <1>4, <2>2 DEF PlainOutcome, Outcome
<1>5. CASE /\ MayTake(b, l) /\ b.state[e] = "IDLE" /\ Answers(r, b, "good")
           /\ e \notin InquiryBlock /\ r.length[e] = 0
  <2>1. s = stateReady(b)
    BY <1>1, <1>5
  <2>2. /\ Left(s, l) /\ Plain(s, l) /\ Serves(b, s)
        /\ s.executing \in Queued(b) \cup {NULL}
    BY <1>5, <2>1, ReadyEffect
  <2>3. SameBlocks(b, b) /\ SameElse(b, b)
    BY DEF SameBlocks, SameElse
  <2>4. Ended(r, s, "good")
    BY <1>3, <1>5, <2>2, <2>3, EndedBy
  <2>5. r.transferTotal[e] = r.length[e]
    <3>1. r.transferTotal[e] <= r.length[e] /\ r.transferTotal[e] \in Nat
      BY <1>3, <1>5 DEF Runs, Blocks, Others, Driver
    <3> QED
      BY <1>5, <3>1
  <2> QED
    BY <2>2, <2>4, <2>5 DEF PlainOutcome, Outcome
<1> QED
  BY <1>2, <1>4, <1>5

\* A cancellation that was asked for takes place.
LEMMA CanceledOutcome ==
  ASSUME NEW r, NEW l, Runs(r, l), r.low = l, Queued(r) \cap InquiryBlock = {},
         NEW x,
         \/ r.Canceling /\ \E p \in Points :
              x = [r EXCEPT !.Canceling = FALSE, !.ResumeFromHere = p]
         \/ r.Breaking /\ x = [r EXCEPT !.Breaking = FALSE, !.Canceling = FALSE],
         NEW s, s = EndCanceled(x)
  PROVE  PlainOutcome(r, s, l)
<1> DEFINE e == r.executing
<1>0. r \in Driver
  BY DEF Runs
<1>1. /\ r \in Driver /\ e \in Block /\ Others(r, e) /\ r.down = NULL
      /\ r.storing = NULL /\ ~r.ResetAlarm /\ e # NULL
      /\ l \in Seq(Request) /\ Len(l) <= 1 /\ ContextMax >= 3
  BY DEF Runs, Driver, Blocks
<1>2. /\ x \in Driver /\ ~x.Canceling /\ (x.Breaking => r.Breaking)
      /\ r.Canceling \/ (r.Breaking /\ ~x.Breaking)
  <2>1. ASSUME NEW p \in Points, r.Canceling,
               x = [r EXCEPT !.Canceling = FALSE, !.ResumeFromHere = p]
        PROVE  /\ x \in Driver /\ ~x.Canceling /\ (x.Breaking => r.Breaking)
               /\ r.Canceling
    BY <1>0, <2>1, ZenonT(60) DEF Driver
  <2>2. ASSUME r.Breaking,
               x = [r EXCEPT !.Breaking = FALSE, !.Canceling = FALSE]
        PROVE  /\ x \in Driver /\ ~x.Canceling /\ (x.Breaking => r.Breaking)
               /\ r.Breaking /\ ~x.Breaking
    BY <1>0, <2>2, ZenonT(60) DEF Driver
  <2> QED
    BY <2>1, <2>2
<1>3. SameBlocks(r, x)
  BY <1>1 DEF Driver, SameBlocks
<1>4. /\ x.WaitingForCoverOpen = r.WaitingForCoverOpen
      /\ x.WaitingForCoverClose = r.WaitingForCoverClose
      /\ x.PreparingCover = r.PreparingCover /\ x.CoverAlarm = r.CoverAlarm
      /\ x.MotorState = r.MotorState
  BY <1>1 DEF Driver
<1>5. /\ x.executing = e /\ x.ResetAlarm = r.ResetAlarm /\ x.storing = r.storing
      /\ x.Prepared = r.Prepared /\ x.down = r.down /\ x.low = r.low
  BY <1>1 DEF Driver
<1>6. Queued(x) = Queued(r)
  BY <1>3, BlocksAlike
<1>7. Ending(x, l)
  <2>1. Others(x, e)
    BY <1>1, <1>3, OthersAlike
  <2>2. Cover(x, NULL)
    <3>1. /\ r.ResumeFromHere = "NONE" /\ r.MotorState = "WORKING"
          /\ ~r.WaitingForCoverOpen /\ ~r.WaitingForCoverClose
          /\ ~r.CoverAlarm /\ ~r.PreparingCover
      BY DEF Runs, Cover
    <3> QED
      BY <1>4, <3>1 DEF Cover, Waits
  <2> QED
    BY <1>1, <1>2, <1>5, <1>6, <2>1, <2>2 DEF Ending
<1> DEFINE a == Answer(x, e, "CANCELED", "canceled")
           c == CallCancelCallback(a, x.CancelCallback)
<1>8. s = stateReady(c)
  BY <1>5 DEF EndCanceled
<1>9. a = Answer(x, x.executing, "CANCELED", "canceled")
  BY <1>5
<1>10. \E cb : c = CallCancelCallback(a, cb)
  OBVIOUS
<1> HIDE DEF a, c
<1>11. Left(s, l) /\ Plain(s, l) /\ Ended(x, s, "canceled")
  BY <1>2, <1>7, <1>8, <1>9, <1>10, EndEffect
<1>12. Ended(r, s, "canceled")
  <2>1. /\ x.answer = r.answer /\ x.length = r.length
        /\ x.transferTotal = r.transferTotal
    BY <1>3 DEF SameBlocks
  <2> HIDE DEF e
  <2>2. Ended(x, s, "canceled") /\ x.executing = e
    BY <1>5, <1>11
  <2>3. s.answer[e] # "due" /\ s.executing \in Queued(r) \cup {NULL}
    BY <1>6, <2>2 DEF Ended
  <2>4. \A b \in Block : s.answer[b] # r.answer[b]
          => /\ r.answer[b] = "due"
             /\ \/ b = e /\ s.answer[b] = "canceled"
                \/ /\ b \in Queued(r) /\ b \notin InquiryBlock
                   /\ r.length[b] = 0 /\ s.answer[b] = "good"
    BY <1>6, <2>1, <2>2, ZenonT(60) DEF Ended
  <2>5. /\ s.length = r.length /\ s.transferTotal = r.transferTotal
        /\ ~s.Canceling /\ (s.Breaking => r.Breaking)
        /\ s.PreparingCover = r.PreparingCover
        /\ s.Prepared \in {r.Prepared, "yes"} /\ Queued(s) \subseteq Queued(r)
    BY <1>2, <1>4, <1>5, <1>6, <2>1, <2>2 DEF Ended
  <2> QED
    BY <2>3, <2>4, <2>5 DEF Ended, e
<1>13. r.Canceling \/ (r.Breaking /\ ~s.Breaking)
  BY <1>2, <1>11 DEF Ended
<1> QED
  BY <1>11, <1>12, <1>13 DEF PlainOutcome, Outcome

\* CheckCancel.
LEMMA UnlessOutcome ==
  ASSUME NEW r, NEW l, Runs(r, l), r.low = l, Queued(r) \cap InquiryBlock = {},
         NEW p \in Points, NEW other,
         ~r.Canceling => PlainOutcome(r, other, l),
         NEW s, s = UnlessCanceling(r, p, other)
  PROVE  PlainOutcome(r, s, l)
<1>1. CASE r.Canceling
  <2> DEFINE x == [r EXCEPT !.Canceling = FALSE, !.ResumeFromHere = p]
  <2>1. s = EndCanceled(x)
    BY <1>1 DEF UnlessCanceling
  <2>2. r.Canceling /\ \E i \in Points :
          x = [r EXCEPT !.Canceling = FALSE, !.ResumeFromHere = i]
    BY <1>1
  <2> HIDE DEF x
  <2> QED
    BY <2>1, <2>2, CanceledOutcome
<1>2. CASE ~r.Canceling
  BY <1>2 DEF UnlessCanceling
<1> QED
  BY <1>1, <1>2

-----------------------------------------------------------------------------
(* The callbacks of the requests that carry a command on. *)

\* What they find.
Works(r, l) ==
    /\ Runs(r, l) /\ r.low = l /\ Unfinished(r)
    /\ Queued(r) \cap InquiryBlock = {}

\* Works is about these fields.
LEMMA WorksAlike ==
  ASSUME NEW r, NEW s, NEW l, Works(r, l), Runs(s, l), s.low = l, Keeps(r, s)
  PROVE  Works(s, l)
BY DEF Works, Keeps, Unfinished

\* A command that goes on has this outcome.
LEMMA GoesOnOutcome ==
  ASSUME NEW r, NEW s, NEW l, Works(r, l), GoesOn(r, s, l)
  PROVE  Outcome(r, s, l)
BY DEF Works, Outcome

\* A command may come to wait for the cover, or for the reset, at any time.
LEMMA RunsPicked ==
  ASSUME NEW r, NEW l, Runs(r, l)
  PROVE  Picked(r, l) /\ NoCover(r)
BY DEF Runs, Picked, NoCover, Cover, Blocks

\* stateMotorStopped with a command.
LEMMA UserWaitOutcome ==
  ASSUME NEW r, NEW l, Works(r, l), ~r.Canceling, NEW point \in CoverWaits,
         NEW s, s = WaitForCover(r, point)
  PROVE  PlainOutcome(r, s, l)
<1>1. Picked(r, l) /\ NoCover(r) /\ r.low = l
  BY RunsPicked DEF Works
<1>2. GoesOn(r, s, l) /\ Plain(s, l)
  BY <1>1, WaitGoesOn DEF NoCover
<1> QED
  BY <1>2, GoesOnOutcome DEF PlainOutcome

\* stateCoverClosed with a command.
LEMMA CoverClosedOutcome ==
  ASSUME NEW r, NEW l, Works(r, l), NEW s, s = CoverClosed(r)
  PROVE  PlainOutcome(r, s, l)
<1>1. Picked(r, l) /\ NoCover(r)
  BY RunsPicked DEF Works
<1>2. GoesOn(r, s, l) /\ Plain(s, l)
  BY <1>1, CoverClosedGoesOn
<1> QED
  BY <1>2, GoesOnOutcome DEF PlainOutcome

\* stateError, stateTimeout and the error code of a fatal error.
LEMMA StoreOutcome ==
  ASSUME NEW r, NEW l, Works(r, l), NEW cb \in Storers,
         NEW s, s = [r EXCEPT !.storing = cb]
  PROVE  PlainOutcome(r, s, l)
<1>1. GoesOn(r, s, l) /\ Plain(s, l)
  BY StoreGoesOn DEF Works
<1> QED
  BY <1>1, GoesOnOutcome DEF PlainOutcome

\* LastState is called again.
LEMMA LastStateOutcome ==
  ASSUME NEW r, NEW l, Works(r, l), ~r.Canceling, NEW s, s = CallLastState(r)
  PROVE  PlainOutcome(r, s, l)
<1>1. r.LastState \in {"stateBusy", "stateCoverClosed_CMD", "stateDownRotation"}
      /\ Runs(r, l) /\ r.low = l /\ Unfinished(r)
  BY DEF Works, Runs, Driver
<1>2. CASE r.LastState = "stateBusy"
  <2>1. s = stateBusy(r)
    BY <1>2 DEF CallLastState
  <2> QED
    BY <1>1, <2>1, BusyOutcome
<1>3. CASE r.LastState = "stateCoverClosed_CMD"
  <2>1. s = ReadDiskID(r)
    BY <1>3 DEF CallLastState
  <2> QED
    BY <1>1, <2>1, ReadDiskIDGoesOn, GoesOnOutcome DEF PlainOutcome
<1>4. CASE r.LastState = "stateDownRotation"
  <2>1. s = DownRotation(r)
    BY <1>4 DEF CallLastState
  <2> QED
    BY <1>1, <2>1, DownRotationGoesOn, GoesOnOutcome DEF PlainOutcome
<1> QED
  BY <1>1, <1>2, <1>3, <1>4

\* The error is counted.
LEMMA CategorizeEffect ==
  ASSUME NEW r, NEW l, Works(r, l), NEW v \in AnyValue,
         NEW c, c = Categorize(r, v)
  PROVE  /\ c.category \in {"ERROR", "FATAL", "UNKNOWN"} \/ v \in CoverErrors
         /\ Works(c.r, l) /\ Keeps(r, c.r)
         /\ v \in CoverErrors => c.category = "OK"
<1> DEFINE k == [r EXCEPT !.LastError = v]
           m == Min({r.NumInternalRetry + 1, 3})
           d == [k EXCEPT !.NumInternalRetry = m]
<1>1. Runs(r, l) /\ r.low = l /\ r \in Driver
  BY DEF Works, Runs
<1>2. m \in 0 .. 3
  <2>1. r.NumInternalRetry \in 0 .. 3
    BY <1>1 DEF Driver
  <2>2. {r.NumInternalRetry + 1, 3} \in SUBSET Nat
    BY <2>1
  <2>3. \E a \in {r.NumInternalRetry + 1, 3} :
          \A b \in {r.NumInternalRetry + 1, 3} : a <= b
    BY <2>2, LeastElement
  <2>4. m \in {r.NumInternalRetry + 1, 3} /\ m <= 3
    BY <2>3 DEF Min
  <2> QED
    BY <2>1, <2>4
<1>3. /\ Runs(k, l) /\ k.low = l
      /\ SameBlocks(r, k) /\ SameCover(r, k) /\ SameControl(r, k)
  BY <1>1, RunsAnd
<1>4. Keeps(r, k) /\ Works(k, l)
  BY <1>3, AlikeKeeps, WorksAlike
<1> DEFINE n == [r EXCEPT !.LastError = v, !.NumInternalRetry = m]
<1>5. n = d
  BY <1>1 DEF Driver
<1>6. c = CASE v \in CoverErrors -> [category |-> "OK", r |-> r]
            [] v = "motorStopped" -> [category |-> "ERROR", r |-> k]
            [] v \notin CoverErrors \cup {"motorStopped"} ->
                 [category |-> CASE n.NumInternalRetry = 2 /\ v = r.LastError -> "ERROR"
                                 [] n.NumInternalRetry = 2 /\ v # r.LastError -> "FATAL"
                                 [] n.NumInternalRetry # 2 /\ v = "readFail" -> "FATAL"
                                 [] OTHER -> "UNKNOWN",
                  r |-> n]
  BY DEF Categorize
<1> HIDE DEF k, n, m
<1>7. /\ Runs(d, l) /\ d.low = l
      /\ SameBlocks(k, d) /\ SameCover(k, d) /\ SameControl(k, d)
  BY <1>2, <1>3, RunsAnd
<1>8. Keeps(k, d)
  BY <1>7, AlikeKeeps
<1>9. Keeps(r, d) /\ Works(d, l)
  <2>1. Works(d, l)
    BY <1>4, <1>7, <1>8, WorksAlike
  <2> QED
    BY <1>4, <1>8, <2>1 DEF Keeps
<1>10. Keeps(r, r)
  BY DEF Keeps
<1> HIDE DEF d
<1>11. CASE v \in CoverErrors
  <2>1. c = [category |-> "OK", r |-> r]
    BY <1>6, <1>11 DEF CoverErrors
  <2> QED
    BY <1>10, <1>11, <2>1
<1>12. CASE v = "motorStopped"
  <2>1. c = [category |-> "ERROR", r |-> k]
    BY <1>6, <1>12 DEF CoverErrors
  <2> QED
    BY <1>4, <1>12, <2>1 DEF CoverErrors
<1>13. CASE v \notin CoverErrors \cup {"motorStopped"}
  <2> DEFINE y == CASE n.NumInternalRetry = 2 /\ v = r.LastError -> "ERROR"
                    [] n.NumInternalRetry = 2 /\ v # r.LastError -> "FATAL"
                    [] n.NumInternalRetry # 2 /\ v = "readFail" -> "FATAL"
                    [] OTHER -> "UNKNOWN"
  <2>1. c = [category |-> y, r |-> n]
    BY <1>6, <1>13
  <2>2. y \in {"ERROR", "FATAL", "UNKNOWN"}
    OBVIOUS
  <2> HIDE DEF y
  <2> QED
    BY <1>5, <1>9, <1>13, <2>1, <2>2
<1> QED
  BY <1>11, <1>12, <1>13

\* cbForStateGettingError.
LEMMA GettingErrorOutcome ==
  ASSUME NEW r, NEW l, Works(r, l), NEW v \in AnyValue,
         NEW s, s = cbForStateGettingError(r, v)
  PROVE  PlainOutcome(r, s, l)
<1> DEFINE c == Categorize(r, v)
           d == c.r
           stored == [d EXCEPT !.storing = "cbForStoreErrorCode3"]
<1>1. /\ c.category \in {"ERROR", "FATAL", "UNKNOWN"} \/ v \in CoverErrors
      /\ Works(d, l) /\ Keeps(r, d)
      /\ v \in CoverErrors => c.category = "OK"
  BY CategorizeEffect
<1>2. s = CASE c.category = "ERROR" -> stateError(d)
            [] c.category = "FATAL" -> UnlessCanceling(d, "NONE", stored)
            [] c.category = "UNKNOWN" ->
                 UnlessCanceling(d, "NONE", CallLastState(d))
            [] v = "coverOpened" ->
                 UnlessCanceling(r, "COVER_OPENED",
                                 WaitForCover(r, "COVER_OPENED"))
            [] v = "diskChanged" ->
                 UnlessCanceling(r, "DISK_CHANGED", CoverClosed(r))
            [] v = "noDisk" ->
                 UnlessCanceling(r, "NO_DISK", WaitForCover(r, "NO_DISK"))
  BY DEF cbForStateGettingError
<1> DEFINE k == c.category
<1>3. /\ k \in {"ERROR", "FATAL", "UNKNOWN"} \/ v \in CoverErrors
      /\ v \in CoverErrors => k = "OK"
  BY <1>1
<1> HIDE DEF c
<1>a. /\ Runs(r, l) /\ r.low = l /\ Queued(r) \cap InquiryBlock = {}
      /\ Runs(d, l) /\ d.low = l /\ Queued(d) \cap InquiryBlock = {}
  BY <1>1 DEF Works
<1>b. {"NONE", "COVER_OPENED", "DISK_CHANGED", "NO_DISK"} \subseteq Points
  BY DEF Points, CoverWaits
<1>c. "COVER_OPENED" \in CoverWaits /\ "NO_DISK" \in CoverWaits
  BY DEF CoverWaits
<1>d. /\ "cbForStoreErrorCode1" \in Storers
      /\ "cbForStoreErrorCode3" \in Storers
  BY DEF Storers
<1>4. CASE k = "ERROR"
  <2>1. s = [d EXCEPT !.storing = "cbForStoreErrorCode1"]
    BY <1>2, <1>3, <1>4 DEF stateError, CoverErrors
  <2> HIDE DEF d
  <2> QED
    BY <1>1, <1>d, <2>1, StoreOutcome, OutcomeAlike DEF PlainOutcome
<1>5. CASE k = "FATAL"
  <2>1. s = UnlessCanceling(d, "NONE", stored)
    BY <1>2, <1>3, <1>5 DEF CoverErrors
  <2>2. stored = [d EXCEPT !.storing = "cbForStoreErrorCode3"]
    OBVIOUS
  <2> HIDE DEF d, stored
  <2>3. PlainOutcome(d, stored, l)
    BY <1>1, <1>d, <2>2, StoreOutcome
  <2>4. PlainOutcome(d, s, l)
    BY <1>a, <1>b, <2>1, <2>3, UnlessOutcome
  <2> QED
    BY <1>1, <2>4, OutcomeAlike DEF PlainOutcome
<1>6. CASE k = "UNKNOWN"
  <2>1. s = UnlessCanceling(d, "NONE", CallLastState(d))
    BY <1>2, <1>3, <1>6 DEF CoverErrors
  <2> HIDE DEF d
  <2>2. ~d.Canceling => PlainOutcome(d, CallLastState(d), l)
    BY <1>1, LastStateOutcome
  <2>3. PlainOutcome(d, s, l)
    BY <1>a, <1>b, <2>1, <2>2, UnlessOutcome
  <2> QED
    BY <1>1, <2>3, OutcomeAlike DEF PlainOutcome
<1>7. CASE v = "coverOpened"
  <2>1. s = UnlessCanceling(r, "COVER_OPENED", WaitForCover(r, "COVER_OPENED"))
    BY <1>2, <1>3, <1>7 DEF CoverErrors
  <2>2. ~r.Canceling => PlainOutcome(r, WaitForCover(r, "COVER_OPENED"), l)
    BY <1>c, UserWaitOutcome
  <2> QED
    BY <1>a, <1>b, <2>1, <2>2, UnlessOutcome
<1>8. CASE v = "diskChanged"
  <2>1. s = UnlessCanceling(r, "DISK_CHANGED", CoverClosed(r))
    BY <1>2, <1>3, <1>8 DEF CoverErrors
  <2>2. PlainOutcome(r, CoverClosed(r), l)
    BY CoverClosedOutcome
  <2> QED
    BY <1>a, <1>b, <2>1, <2>2, UnlessOutcome
<1>9. CASE v = "noDisk"
  <2>1. s = UnlessCanceling(r, "NO_DISK", WaitForCover(r, "NO_DISK"))
    BY <1>2, <1>3, <1>9 DEF CoverErrors
  <2>2. ~r.Canceling => PlainOutcome(r, WaitForCover(r, "NO_DISK"), l)
    BY <1>c, UserWaitOutcome
  <2> QED
    BY <1>a, <1>b, <2>1, <2>2, UnlessOutcome
<1> HIDE DEF k
<1> QED
  BY <1>3, <1>4, <1>5, <1>6, <1>7, <1>8, <1>9 DEF CoverErrors

\* The retries start anew.
LEMMA NoRetryRuns ==
  ASSUME NEW r, NEW l, Runs(r, l), r.low = l
  PROVE  /\ Runs(NoRetry(r), l) /\ NoRetry(r).low = l /\ Keeps(r, NoRetry(r))
         /\ SameBlocks(r, NoRetry(r)) /\ SameControl(r, NoRetry(r))
<1> DEFINE s == [r EXCEPT !.NumInternalRetry = 0]
<1>1. s = NoRetry(r)
  BY DEF NoRetry
<1>2. \E n \in 0 .. 3 : s = [r EXCEPT !.NumInternalRetry = n]
  OBVIOUS
<1> HIDE DEF s
<1>3. /\ Runs(s, l) /\ s.low = l
      /\ SameBlocks(r, s) /\ SameCover(r, s) /\ SameControl(r, s)
  BY <1>2, RunsAnd
<1> QED
  BY <1>1, <1>3, AlikeKeeps

\* The same of a command that works.
LEMMA NoRetryWorks ==
  ASSUME NEW r, NEW l, Works(r, l)
  PROVE  Works(NoRetry(r), l) /\ Keeps(r, NoRetry(r))
<1>1. Runs(r, l) /\ r.low = l
  BY DEF Works
<1> QED
  BY <1>1, NoRetryRuns, WorksAlike

\* A transfer is counted.
LEMMA CountsRuns ==
  ASSUME NEW r, NEW l, Works(r, l),
         NEW int, int = "TC" => \/ r.executing \in InquiryBlock
                                \/ r.transferTotal[r.executing]
                                     < r.length[r.executing],
         NEW s, s = Counts(r, int)
  PROVE  /\ Runs(s, l) /\ s.low = l /\ Queued(s) = Queued(r)
         /\ SameControl(r, s) /\ s.length = r.length /\ s.answer = r.answer
         /\ s.PreparingCover = r.PreparingCover
         /\ \A b \in Block : b # r.executing
              => s.transferTotal[b] = r.transferTotal[b]
         /\ s.transferTotal[r.executing]
              = IF int = "TC" THEN r.transferTotal[r.executing] + 1
                ELSE r.transferTotal[r.executing]
<1> DEFINE e == r.executing
           n == IF int = "TC" THEN r.transferTotal[e] + 1 ELSE r.transferTotal[e]
<1>1. Runs(r, l) /\ r.low = l /\ r \in Driver /\ e \in Block /\ Others(r, e)
  BY DEF Works, Runs, Driver, Blocks
<1>2. s = [r EXCEPT !.transferTotal[e] = n]
  BY DEF Counts
<1>3. n \in Nat /\ (e \notin InquiryBlock => n <= r.length[e])
  <2>1. r.transferTotal[e] \in Nat /\ r.length[e] \in Nat
    BY <1>1 DEF Driver
  <2>2. e \notin InquiryBlock => r.transferTotal[e] <= r.length[e]
    BY <1>1, Names DEF Others
  <2>3. int = "TC" => e \in InquiryBlock \/ r.transferTotal[e] < r.length[e]
    OBVIOUS
  <2> HIDE DEF e
  <2> QED
    BY <2>1, <2>2, <2>3
<1> HIDE DEF n
<1>4. /\ s.transferTotal = [r.transferTotal EXCEPT ![e] = n]
      /\ s.transferTotal \in [Block -> Nat]
  BY <1>1, <1>2, <1>3 DEF Driver
<1>5. /\ s.transferTotal[e] = n
      /\ \A b \in Block : b # e => s.transferTotal[b] = r.transferTotal[b]
  BY <1>1, <1>4 DEF Driver
<1>6. /\ s.state = r.state /\ s.answer = r.answer /\ s.callback = r.callback
      /\ s.length = r.length /\ s.WaitingQueue = r.WaitingQueue /\ s.low = l
  BY <1>1, <1>2 DEF Driver
<1>7. s \in Driver
  <2> HIDE DEF e
  <2> QED
    BY <1>1, <1>2, <1>4, ZenonT(60) DEF Driver
<1>8. SameCover(r, s)
  BY <1>1, <1>2 DEF Driver, SameCover
<1>9. SameControl(r, s)
  BY <1>1, <1>2 DEF Driver, SameControl
<1>10. Queued(s) = Queued(r) /\ \A b \in Queued(r) : b \in Block /\ b # e
  BY <1>1, <1>6, QueuedMembers, MembersAreBlocks DEF Others
<1>11. Others(s, e)
  BY <1>1, <1>3, <1>5, <1>6, <1>10 DEF Others
<1>12. Blocks(s, e)
  BY <1>1, <1>6, <1>11 DEF Blocks, Runs
<1>13. Cover(s, e)
  BY <1>1, <1>8, CoverAlike DEF Runs
<1>14. ~Waits(s, e)
  BY <1>1, <1>6 DEF Waits, Runs
<1>15. Runs(s, l)
  BY <1>1, <1>6, <1>7, <1>9, <1>12, <1>13, <1>14 DEF Runs, SameControl
<1> QED
  BY <1>5, <1>6, <1>8, <1>9, <1>10, <1>15 DEF n, SameCover

\* cbForStateBusy: the command as it is when its transfer was counted.
LEMMA BusyCallbackOutcome ==
  ASSUME NEW r, NEW l, Works(r, l), NEW int \in {"TC", "DE"},
         int = "TC" => \/ r.executing \in InquiryBlock
                       \/ r.transferTotal[r.executing] < r.length[r.executing],
         NEW s, s = cbForStateBusy(r, int)
  PROVE  PlainOutcome(Counts(r, int), s, l)
<1> DEFINE m == Counts(r, int)
           g == NoRetry(m)
           e == r.executing
           whole == m.transferTotal[e] = m.length[e]
<1>1. /\ Runs(m, l) /\ m.low = l /\ Queued(m) = Queued(r)
      /\ SameControl(r, m) /\ m.length = r.length
      /\ int = "DE" => m.transferTotal[e] = r.transferTotal[e]
  BY CountsRuns
<1>2. s = CASE r.Breaking ->
                 EndCanceled([m EXCEPT !.Breaking = FALSE, !.Canceling = FALSE])
            [] ~r.Breaking /\ int = "TC" ->
                 UnlessCanceling(g, "NONE",
                   IF whole THEN Finish(g) ELSE stateBusy(g))
            [] ~r.Breaking /\ int = "DE" ->
                 CASE e \in InquiryBlock -> stateError(m)
                   [] e \notin InquiryBlock /\ whole ->
                        UnlessCanceling(m, "NONE", Finish(m))
                   [] OTHER -> stateGettingError(m)
  BY <1>1 DEF cbForStateBusy
<1>3. Runs(g, l) /\ g.low = l /\ Keeps(m, g)
  BY <1>1, NoRetryRuns
<1> HIDE DEF m, g
<1>4. m.executing = e /\ m.Breaking = r.Breaking /\ e \in Block
  BY <1>1 DEF SameControl, Works, Runs, Driver
<1>5. /\ g.executing = e /\ g.transferTotal = m.transferTotal
      /\ g.length = m.length
  BY <1>3, <1>4 DEF Keeps
<1>6. e \notin InquiryBlock => m.transferTotal[e] <= m.length[e]
  BY <1>1, <1>4 DEF Runs, Blocks, Others
<1>7. m.transferTotal[e] \in Nat /\ m.length[e] \in Nat
  BY <1>1, <1>4 DEF Runs, Driver
<1>8. ~whole => Unfinished(m) /\ Unfinished(g)
  BY <1>4, <1>5, <1>6, <1>7 DEF Unfinished
<1>9. e \in InquiryBlock => Unfinished(m)
  BY <1>4 DEF Unfinished
<1>10. Queued(m) \cap InquiryBlock = {} /\ Queued(g) \cap InquiryBlock = {}
  BY <1>1, <1>3 DEF Works, Keeps
<1>11. "NONE" \in Points
  BY DEF Points
<1>12. CASE r.Breaking
  <2> DEFINE x == [m EXCEPT !.Breaking = FALSE, !.Canceling = FALSE]
  <2>1. s = EndCanceled(x)
    BY <1>2, <1>12
  <2>2. m.Breaking /\ x = [m EXCEPT !.Breaking = FALSE, !.Canceling = FALSE]
    BY <1>4, <1>12
  <2> HIDE DEF x
  <2>3. PlainOutcome(m, s, l)
    BY <1>1, <1>10, <2>1, <2>2, CanceledOutcome
  <2> QED
    BY <2>3 DEF m
<1>13. CASE ~r.Breaking /\ int = "TC"
  <2> DEFINE o == IF whole THEN Finish(g) ELSE stateBusy(g)
  <2>1. s = UnlessCanceling(g, "NONE", o)
    BY <1>2, <1>13
  <2>2. ASSUME ~g.Canceling PROVE PlainOutcome(g, o, l)
    <3>1. CASE whole
      <4>1. o = Finish(g) /\ g.transferTotal[g.executing] = g.length[g.executing]
        BY <1>5, <3>1
      <4> HIDE DEF o, whole
      <4> QED
        BY <1>3, <2>2, <4>1, FinishOutcome
    <3>2. CASE ~whole
      <4>1. o = stateBusy(g) /\ Unfinished(g)
        BY <1>8, <3>2
      <4> HIDE DEF o, whole
      <4> QED
        BY <1>3, <2>2, <4>1, BusyOutcome
    <3> QED
      BY <3>1, <3>2
  <2> HIDE DEF o
  <2>3. PlainOutcome(g, s, l)
    BY <1>3, <1>10, <1>11, <2>1, <2>2, UnlessOutcome
  <2>4. PlainOutcome(m, s, l)
    BY <1>3, <2>3, OutcomeAlike DEF PlainOutcome
  <2> QED
    BY <2>4 DEF m
<1>14. CASE ~r.Breaking /\ int = "DE"
  <2>1. CASE e \in InquiryBlock
    <3>1. s = [m EXCEPT !.storing = "cbForStoreErrorCode1"]
      BY <1>2, <1>14, <2>1 DEF stateError
    <3>2. Works(m, l)
      BY <1>1, <1>9, <1>10, <2>1 DEF Works
    <3>3. PlainOutcome(m, s, l)
      BY <3>1, <3>2, StoreOutcome DEF Storers
    <3> QED
      BY <3>3 DEF m
  <2>2. CASE e \notin InquiryBlock /\ whole
    <3>1. s = UnlessCanceling(m, "NONE", Finish(m))
      BY <1>2, <1>14, <2>2
    <3>2. m.transferTotal[m.executing] = m.length[m.executing]
      BY <1>4, <2>2
    <3>3. ~m.Canceling => PlainOutcome(m, Finish(m), l)
      BY <1>1, <3>2, FinishOutcome
    <3>4. PlainOutcome(m, s, l)
      BY <1>1, <1>10, <1>11, <3>1, <3>3, UnlessOutcome
    <3> QED
      BY <3>4 DEF m
  <2>3. CASE e \notin InquiryBlock /\ ~whole
    <3>1. s = stateGettingError(m)
      BY <1>2, <1>14, <2>3
    <3>2. Works(m, l)
      BY <1>1, <1>8, <1>10, <2>3 DEF Works
    <3>3. PlainOutcome(m, s, l)
      BY <1>1, <3>1, <3>2, ErrorRequestGoesOn, GoesOnOutcome DEF PlainOutcome
    <3> QED
      BY <3>3 DEF m
  <2> QED
    BY <2>1, <2>2, <2>3
<1> QED
  BY <1>12, <1>13, <1>14

\* cbForStateReset: the alarm carries the command on.
LEMMA ResetOutcome ==
  ASSUME NEW r, NEW l, Works(r, l), NEW s, s = cbForStateReset(r)
  PROVE  PlainOutcome(r, s, l)
<1> DEFINE e == r.executing
           g == [r EXCEPT !.ResumeFromHere = "NONE"]
<1>1. r \in Driver /\ ~r.ResetAlarm /\ r.ResumeFromHere = "NONE" /\ Runs(r, l)
      /\ r.low = l /\ l \in Seq(Request)
  BY DEF Works, Runs, Cover
<1>2. s = [r EXCEPT !.ResumeFromHere = "NONE", !.ResetAlarm = TRUE]
  BY <1>1 DEF cbForStateReset
<1>3. s = [g EXCEPT !.ResetAlarm = TRUE]
  BY <1>1, <1>2 DEF Driver
<1>4. /\ g \in Driver /\ g.low = r.low /\ g.ResumeFromHere = "NONE"
      /\ SameBlocks(r, g) /\ SameControl(r, g)
      /\ g.MotorState = r.MotorState
      /\ g.WaitingForCoverOpen = r.WaitingForCoverOpen
      /\ g.WaitingForCoverClose = r.WaitingForCoverClose
      /\ g.PreparingCover = r.PreparingCover /\ g.CoverAlarm = r.CoverAlarm
  BY <1>1, ForgetPoint
<1> HIDE DEF g
<1>5. /\ s \in Driver /\ s.low = g.low /\ s.ResetAlarm
      /\ s.ResumeFromHere = g.ResumeFromHere
  BY <1>3, <1>4, ZenonT(60) DEF Driver
<1>6. SameBlocks(g, s)
  BY <1>3, <1>4 DEF Driver, SameBlocks
<1>7. SameCover(g, s)
  BY <1>3, <1>4 DEF Driver, SameCover
<1>8. /\ s.executing = g.executing /\ s.Canceling = g.Canceling
      /\ s.Breaking = g.Breaking /\ s.storing = g.storing
      /\ s.Prepared = g.Prepared /\ s.down = g.down
  BY <1>3, <1>4 DEF Driver
<1>9. SameBlocks(r, s)
  BY <1>4, <1>6 DEF SameBlocks
<1>10. SameCover(r, s)
  BY <1>1, <1>4, <1>6, <1>7 DEF SameCover, SameBlocks
<1>11. Queued(s) = Queued(r) /\ Blocks(s, e)
  BY <1>1, <1>9, BlocksAlike DEF Runs
<1>12. Cover(s, e)
  BY <1>1, <1>10, CoverAlike DEF Runs
<1>13. ~Waits(s, e)
  BY <1>1, <1>9 DEF Runs, Waits, SameBlocks
<1>14. Continues(s, e, l)
  BY <1>1, <1>4, <1>5, <1>8, <1>13 DEF Continues, Runs, SameControl
<1>15. s.executing = e /\ s.down = NULL
  BY <1>1, <1>4, <1>8 DEF Runs, SameControl
<1>16. Fresh(s, l) /\ Plain(s, l)
  BY <1>1, <1>4, <1>5, Unsent
<1>17. Left(s, l)
  <2>1. CancelsWork(s)
    BY <1>1, <1>13, <1>15 DEF CancelsWork, Runs
  <2> QED
    BY <1>1, <1>5, <1>11, <1>12, <1>14, <1>15, <1>16, <2>1 DEF Left
<1>18. Keeps(r, s)
  BY <1>4, <1>8, <1>9, <1>10, <1>11 DEF Keeps, SameControl, SameBlocks, SameCover
<1> QED
  BY <1>16, <1>17, <1>18, GoesOnOutcome DEF PlainOutcome, GoesOn

\* cbForStateOpenPartition2: the read starts again.
LEMMA OpenPartitionOutcome ==
  ASSUME NEW r, NEW l, Works(r, l), NEW s, s = cbForStateOpenPartition2(r)
  PROVE  PlainOutcome(r, s, l)
<1> DEFINE e == r.executing
           b == [r EXCEPT !.state[e] = "BUSY"]
           n == NoRetry(r)
           y == NoRetry(b)
<1>1. /\ r \in Driver /\ e \in Block /\ Runs(r, l) /\ r.low = l
      /\ r.MotorState = "WORKING" /\ Unfinished(r)
  BY DEF Works, Runs, Driver, Cover
<1>2. s = UnlessCanceling(n, "NONE", stateBusy(y))
  BY DEF cbForStateOpenPartition2
<1>3. Works(n, l) /\ Keeps(r, n)
  BY NoRetryWorks
<1>4. /\ b \in Driver /\ b.state = [r.state EXCEPT ![e] = "BUSY"]
      /\ b.MotorState = r.MotorState /\ b.answer = r.answer
      /\ b.WaitingQueue = r.WaitingQueue /\ b.executing = r.executing
      /\ b.ResumeFromHere = r.ResumeFromHere /\ b.Prepared = r.Prepared
      /\ SameElse(r, b)
  BY <1>1, StateSet DEF States
<1> HIDE DEF b
<1>5. Picked(r, l) /\ NoCover(r)
  BY <1>1, RunsPicked
<1>6. Runs(b, l) /\ Queued(b) = Queued(r)
  BY <1>1, <1>4, <1>5, StateRuns
<1>7. b.low = l /\ Keeps(r, b)
  BY <1>1, <1>4, <1>6 DEF Keeps, SameElse
<1>8. Runs(y, l) /\ y.low = l /\ Keeps(b, y)
  BY <1>6, <1>7, NoRetryRuns
<1> HIDE DEF n, y
<1>9. Keeps(n, y) /\ Unfinished(y)
  BY <1>1, <1>3, <1>7, <1>8 DEF Keeps, Unfinished
<1>10. ASSUME ~n.Canceling PROVE PlainOutcome(n, stateBusy(y), l)
  <2>1. ~y.Canceling
    BY <1>9, <1>10 DEF Keeps
  <2>2. PlainOutcome(y, stateBusy(y), l)
    BY <1>8, <1>9, <2>1, BusyOutcome
  <2> QED
    BY <1>9, <2>2, OutcomeAlike DEF PlainOutcome
<1>11. PlainOutcome(n, s, l)
  BY <1>2, <1>3, <1>10, UnlessOutcome DEF Works, Points
<1> QED
  BY <1>3, <1>11, OutcomeAlike DEF PlainOutcome

\* The driver as the callback of q finds it, with the transfer counted.
Counted(r, q) ==
    IF q.cb = "Busy" /\ q.reply.int = "TC" THEN Counts(r, "TC") ELSE r

\* The callbacks that go on to read from a disc that was identified.
Identifies(q) ==
    /\ q.reply.int = "TC"
    /\ \/ q.cb \in {"ReadingTOC", "ReadingPartitionInfo"}
       \/ q.cb = "CoverClosed" /\ q.reply.value = GameDisc

\* The step a request leads to.
StepOf(r, q) ==
    CASE q.reply.int = "TC" -> Succeeds(r, q.cb, q.reply.value)
      [] q.reply.int = "DE" -> Errs(r, q.cb)
      [] OTHER              -> stateTimeout(r)

\* The callbacks of requests that succeed, but for cbForStateBusy.
LEMMA SuccessOutcome ==
  ASSUME NEW r, NEW l, Works(r, l), NEW cb \in StepCallbacks \ {"Busy", "Error"},
         NEW v \in AnyValue, NEW s, s = Succeeds(r, cb, v)
  PROVE  /\ Outcome(r, s, l)
         /\ \/ Plain(s, l) \/ cb \in {"ReadingTOC", "ReadingPartitionInfo"}
            \/ cb = "CoverClosed" /\ v = GameDisc
<1> DEFINE n == NoRetry(r)
<1>1. Works(n, l) /\ Keeps(r, n)
  BY NoRetryWorks
<1>2. /\ Runs(r, l) /\ r.low = l /\ Runs(n, l) /\ n.low = l
      /\ Queued(n) \cap InquiryBlock = {}
  BY <1>1 DEF Works
<1>3. "DISK_ERROR" \in CoverWaits \cap Points
      /\ "WRONG_DISK_ID" \in CoverWaits \cap Points
  BY DEF CoverWaits, Points
<1> HIDE DEF n
<1>4. ASSUME NEW op \in Operations, NEW c \in StepCallbacks,
             op \notin {"Read", "Inquiry"}, c # "Busy", Fits(op, c)
      PROVE  Outcome(r, SendCleared(n, op, c), l)
  <2>1. GoesOn(n, SendCleared(n, op, c), l)
    BY <1>2, <1>4, ClearedGoesOn
  <2> QED
    BY <1>1, <2>1, GoesOnOutcome, OutcomeAlike
<1>5. ASSUME NEW point \in CoverWaits \cap Points,
             s = UnlessCanceling(n, point, WaitForCover(n, point))
      PROVE  PlainOutcome(r, s, l)
  <2>1. ~n.Canceling => PlainOutcome(n, WaitForCover(n, point), l)
    BY <1>1, <1>5, UserWaitOutcome
  <2>2. PlainOutcome(n, s, l)
    BY <1>2, <1>5, <2>1, UnlessOutcome
  <2> QED
    BY <1>1, <2>2, OutcomeAlike DEF PlainOutcome
<1>6. CASE cb = "GettingError"
  <2>1. s = cbForStateGettingError(r, v)
    BY <1>6 DEF Succeeds
  <2> QED
    BY <2>1, GettingErrorOutcome DEF PlainOutcome
<1>7. CASE cb = "GoToRetry"
  <2>1. s = UnlessCanceling(n, "DISK_ERROR", WaitForCover(n, "DISK_ERROR"))
    BY <1>7 DEF Succeeds, n
  <2> QED
    BY <1>3, <1>5, <2>1 DEF PlainOutcome
<1>8. CASE cb = "CheckID1"
  <2>1. s = UnlessCanceling(n, "WRONG_DISK_ID", WaitForCover(n, "WRONG_DISK_ID"))
    BY <1>8 DEF Succeeds, n
  <2> QED
    BY <1>3, <1>5, <2>1 DEF PlainOutcome
<1>9. CASE cb = "Reset"
  <2>1. s = cbForStateReset(r)
    BY <1>9 DEF Succeeds
  <2> QED
    BY <2>1, ResetOutcome DEF PlainOutcome
<1>10. CASE cb = "DownRotation"
  <2>1. s = ReadDiskID(r)
    BY <1>10 DEF Succeeds
  <2> QED
    BY <1>2, <2>1, ReadDiskIDGoesOn, GoesOnOutcome
<1>11. CASE cb = "CoverClosed"
  <2>1. s = cbForStateCoverClosed(r, v)
    BY <1>11 DEF Succeeds
  <2>2. CASE v = GameDisc
    <3>1. s = SendCleared(n, "UnencryptedRead", "ReadingTOC")
      BY <2>1, <2>2 DEF cbForStateCoverClosed, n
    <3>2. Fits("UnencryptedRead", "ReadingTOC")
      BY DEF Fits
    <3>3. Outcome(r, s, l)
      BY <1>4, <3>1, <3>2 DEF Operations, StepCallbacks
    <3> QED
      BY <1>11, <2>2, <3>3
  <2>3. CASE v # GameDisc
    <3>1. s = Send(n, "StopMotor", "CheckID1")
      BY <2>1, <2>3 DEF cbForStateCoverClosed, n
    <3>2. GoesOn(n, s, l) /\ Plain(s, l)
      BY <1>2, <3>1, SendGoesOn DEF Operations, StepCallbacks, Fits
    <3> QED
      BY <1>1, <3>2, GoesOnOutcome, OutcomeAlike
  <2> QED
    BY <2>2, <2>3
<1>12. CASE cb = "ReadingTOC"
  <2>1. s = SendCleared(n, "UnencryptedRead", "ReadingPartitionInfo")
    BY <1>12 DEF Succeeds, n
  <2>2. Fits("UnencryptedRead", "ReadingPartitionInfo")
    BY DEF Fits
  <2>3. Outcome(r, s, l)
    BY <1>4, <2>1, <2>2 DEF Operations, StepCallbacks
  <2> QED
    BY <1>12, <2>3
<1>13. CASE cb = "ReadingPartitionInfo"
  <2>1. s = SendCleared(n, "OpenPartition", "OpenPartition2")
    BY <1>13 DEF Succeeds, n
  <2>2. Fits("OpenPartition", "OpenPartition2")
    BY DEF Fits
  <2>3. Outcome(r, s, l)
    BY <1>4, <2>1, <2>2 DEF Operations, StepCallbacks
  <2> QED
    BY <1>13, <2>3
<1>14. CASE cb = "OpenPartition2"
  <2>1. s = cbForStateOpenPartition2(r)
    BY <1>14 DEF Succeeds
  <2> QED
    BY <2>1, OpenPartitionOutcome DEF PlainOutcome
<1> QED
  BY <1>6, <1>7, <1>8, <1>9, <1>10, <1>11, <1>12, <1>13, <1>14
     DEF StepCallbacks

\* Every callback that carries a command on.
LEMMA StepOutcome ==
  ASSUME NEW r, NEW l, Works(r, l), NEW q, CarriesOn(r, r.executing, q),
         q.cb # "Error", q.reply \in AnyReply, NEW s, s = StepOf(r, q)
  PROVE  Outcome(Counted(r, q), s, l) /\ (Plain(s, l) \/ Identifies(q))
<1> DEFINE int == q.reply.int
           cb == q.cb
<1>1. /\ int \in {"TC"} \cup FailureTypes /\ q.reply.value \in AnyValue
      /\ cb \in StepCallbacks \ {"Error"}
      /\ cb = "Busy" => \/ r.executing \in InquiryBlock
                        \/ r.transferTotal[r.executing] < r.length[r.executing]
  BY DEF AnyReply, CarriesOn
<1>2. CASE int = "TC" /\ cb = "Busy"
  <2>1. s = cbForStateBusy(r, "TC") /\ Counted(r, q) = Counts(r, "TC")
    BY <1>2 DEF StepOf, Succeeds, Counted
  <2> QED
    BY <1>1, <1>2, <2>1, BusyCallbackOutcome DEF PlainOutcome
<1>3. CASE int = "TC" /\ cb # "Busy"
  <2>1. s = Succeeds(r, cb, q.reply.value) /\ Counted(r, q) = r
    BY <1>3 DEF StepOf, Counted
  <2> QED
    BY <1>1, <1>3, <2>1, SuccessOutcome DEF Identifies
<1>4. CASE int = "DE" /\ cb = "Busy"
  <2>1. s = cbForStateBusy(r, "DE") /\ Counted(r, q) = r
    BY <1>4 DEF StepOf, Errs, Counted
  <2> DEFINE m == Counts(r, "DE")
  <2>2. Outcome(m, s, l) /\ Plain(s, l)
    BY <2>1, BusyCallbackOutcome DEF PlainOutcome
  <2>3. Keeps(r, m)
    <3>1. /\ Queued(m) = Queued(r) /\ SameControl(r, m)
          /\ m.length = r.length /\ m.answer = r.answer
          /\ m.PreparingCover = r.PreparingCover
      BY CountsRuns
    <3>2. m = [r EXCEPT !.transferTotal[r.executing] = @]
      BY DEF Counts
    <3>3. r \in Driver
      BY DEF Works, Runs
    <3>4. m.transferTotal = r.transferTotal
      BY <3>2, <3>3 DEF Driver
    <3> QED
      BY <3>1, <3>4 DEF Keeps, SameControl
  <2> HIDE DEF m
  <2> QED
    BY <2>1, <2>2, <2>3, OutcomeAlike
<1>5. CASE int = "DE" /\ cb # "Busy"
  <2>1. Counted(r, q) = r /\ s = Errs(r, cb)
    BY <1>5 DEF StepOf, Counted
  <2>2. CASE cb \in {"GettingError", "GoToRetry", "CheckID1"}
    <3>1. s = [r EXCEPT !.storing = "cbForStoreErrorCode1"]
      BY <2>1, <2>2 DEF Errs, stateError
    <3> QED
      BY <2>1, <3>1, StoreOutcome DEF PlainOutcome, Storers
  <2>3. CASE cb \notin {"GettingError", "GoToRetry", "CheckID1"}
    <3>1. s = stateGettingError(r)
      BY <1>5, <2>1, <2>3 DEF Errs
    <3> QED
      BY <2>1, <3>1, ErrorRequestGoesOn, GoesOnOutcome DEF Works
  <2> QED
    BY <2>2, <2>3
<1>6. CASE int \notin {"TC", "DE"}
  <2>1. Counted(r, q) = r /\ s = [r EXCEPT !.storing = "cbForStoreErrorCode2"]
    BY <1>6 DEF StepOf, stateTimeout, Counted
  <2> QED
    BY <2>1, StoreOutcome DEF PlainOutcome, Storers
<1> QED
  BY <1>2, <1>3, <1>4, <1>5, <1>6

-----------------------------------------------------------------------------
(* What becomes of the driver as a whole. *)

\* The commands are what they were, or one of them has ended.
SameCommands(r, s) ==
    /\ s.executing = r.executing /\ Queued(s) = Queued(r)
    /\ s.answer = r.answer /\ s.length = r.length
    /\ s.transferTotal = r.transferTotal
    /\ s.Canceling = r.Canceling /\ s.Breaking = r.Breaking
    /\ s.Prepared = r.Prepared

Onward(r, s) ==
    \/ SameCommands(r, s)
    \/ /\ r.executing # NULL /\ Ended(r, s, "good")
       /\ \/ r.executing \in InquiryBlock
          \/ r.transferTotal[r.executing] = r.length[r.executing]
    \/ /\ r.executing # NULL /\ Ended(r, s, "canceled")
       /\ r.Canceling \/ (r.Breaking /\ ~s.Breaking)

\* More is to be read of the command that is executed then.
LEMMA OutcomeUnfinished ==
  ASSUME NEW r, NEW s, NEW l, Outcome(r, s, l), Others(r, r.executing),
         r.executing # NULL
  PROVE  Unfinished(s) /\ Onward(r, s) /\ s.PreparingCover = r.PreparingCover
<1>1. CASE GoesOn(r, s, l) /\ Unfinished(r)
  BY <1>1 DEF GoesOn, Keeps, Unfinished, Onward, SameCommands
<1>2. ASSUME NEW result, Left(s, l), Ended(r, s, result)
      PROVE  Unfinished(s) /\ s.PreparingCover = r.PreparingCover
  <2> DEFINE e == s.executing
  <2>1. ASSUME e # NULL PROVE s.length[e] = 0 \/ s.transferTotal[e] < s.length[e]
    <3>1. s.transferTotal[e] = 0
      BY <1>2, <2>1 DEF Ended, Others
    <3>2. s.length[e] \in Nat
      BY <1>2, <2>1 DEF Left, Driver
    <3> QED
      BY <3>1, <3>2
  <2> QED
    BY <1>2, <2>1 DEF Unfinished, Ended
<1> QED
  BY <1>1, <1>2 DEF Outcome, Onward

\* The command that is executed, and what carries it on.
Working1(r) ==
    /\ r.executing # NULL /\ ~Waits(r, r.executing) /\ ~r.PreparingCover
    /\ \/ r.low = <<>> /\ r.storing # NULL /\ ~r.ResetAlarm
       \/ r.low = <<>> /\ r.storing = NULL /\ r.ResetAlarm
       \/ /\ r.storing = NULL /\ ~r.ResetAlarm
          /\ \E q \in Request :
               /\ CarriesOn(r, r.executing, q)
               /\ \/ r.low = <<q>>
                  \/ \E c \in Request :
                       /\ c.cb = NULL /\ c.op = "ClearCoverInterrupt"
                       /\ r.low = <<c, q>>

\* Nothing is executed, or it waits for the cover.
Resting(r) ==
    /\ r.executing = NULL \/ Waits(r, r.executing)
    /\ r.storing = NULL /\ ~r.ResetAlarm
    /\ \/ ~r.PreparingCover /\ r.low = <<>>
       \/ /\ r.PreparingCover
          /\ \E q \in Request : /\ q.cb = "PrepareCover"
                                /\ q.op = "PrepareCoverRegister"
                                /\ r.low = <<q>>

\* The driver does one or the other.
LEMMA DriverCases ==
  ASSUME NEW r, DriverInv(r), r.down = NULL
  PROVE  Working1(r) \/ Resting(r)
<1> DEFINE e == r.executing
<1>1. PICK l \in Seq(Request) : Polling(r, l) /\ Continues(r, e, l)
  BY DEF DriverInv
<1>2. Cover(r, e)
  BY DEF DriverInv
<1>3. CASE e = NULL \/ Waits(r, e)
  <2>1. r.low = l /\ r.storing = NULL /\ ~r.ResetAlarm
    BY <1>1, <1>3 DEF Continues, Waits
  <2> QED
    BY <1>1, <1>3, <2>1 DEF Resting, Polling
<1>4. CASE e # NULL /\ ~Waits(r, e)
  <2>1. ~r.PreparingCover /\ l = <<>>
    BY <1>1, <1>2, <1>4 DEF Cover, Polling
  <2>2. \/ r.low = <<>> /\ r.storing # NULL /\ ~r.ResetAlarm
        \/ r.low = <<>> /\ r.storing = NULL /\ r.ResetAlarm
        \/ OneStep(r, e, <<>>) /\ r.storing = NULL /\ ~r.ResetAlarm
    BY <1>1, <1>4, <2>1 DEF Continues
  <2>3. ASSUME OneStep(r, e, <<>>)
        PROVE  \E q \in Request :
                 /\ CarriesOn(r, e, q)
                 /\ \/ r.low = <<q>>
                    \/ \E c \in Request :
                         /\ c.cb = NULL /\ c.op = "ClearCoverInterrupt"
                         /\ r.low = <<c, q>>
    <3>1. PICK q \in Request :
            /\ CarriesOn(r, e, q)
            /\ \/ r.low = Append(<<>>, q)
               \/ \E c \in Request :
                    /\ c.cb = NULL /\ c.op = "ClearCoverInterrupt"
                    /\ r.low = Append(Append(<<>>, c), q)
      BY <2>3 DEF OneStep
    <3>2. Append(<<>>, q) = <<q>>
      BY OneLong
    <3>3. \A c \in Request : Append(Append(<<>>, c), q) = <<c, q>>
      BY OneLong, TwoLong
    <3> QED
      BY <3>1, <3>2, <3>3
  <2> QED
    BY <1>4, <2>1, <2>2, <2>3 DEF Working1
<1> QED
  BY <1>3, <1>4

\* A driver that was left is in order.
LEMMA LeftDriver ==
  ASSUME NEW s, NEW l, Left(s, l), Unfinished(s), Polling(s, l)
  PROVE  DriverInv(s)
<1>1. Len(l) \in Nat /\ Len(l) <= 1 /\ l \in Seq(Request)
  <2>1. l \in Seq(Request)
    BY DEF Left
  <2>2. CASE l = <<>>
    BY <2>1, <2>2
  <2>3. ASSUME NEW q \in Request, l = <<q>>
        PROVE  Len(l) \in Nat /\ Len(l) <= 1
    <3>1. Len(l) = 1
      BY <2>3, OneLong
    <3> QED
      BY <3>1
  <2> QED
    BY <2>1, <2>2, <2>3 DEF Polling
<1>2. s.low \in Seq(Request)
  BY DEF Left, Driver
<1>3. Unanswered(s)
  BY <1>1, <1>2 DEF Left, Fresh, Unanswered
<1> QED
  BY <1>1, <1>3 DEF DriverInv, Left

\* The request whose callback has returned gives its context back.
LEMMA TailDriver ==
  ASSUME NEW s, NEW q \in Request, Left(s, <<q>>), Unfinished(s),
         ~s.PreparingCover, NEW t, t = [s EXCEPT !.low = Tail(@)]
  PROVE  /\ DriverInv(t) /\ SameBlocks(s, t) /\ SameCover(s, t)
         /\ SameControl(s, t)
         /\ \A i \in DOMAIN t.low : t.low[i].reply = NULL
         /\ Plain(s, <<q>>) => \A i \in DOMAIN t.low :
              t.low[i].op \notin {"UnencryptedRead", "OpenPartition"}
<1> DEFINE l == <<q>>
           e == s.executing
<1>1. s \in Driver /\ l \in Seq(Request) /\ Len(l) = 1 /\ s.low \in Seq(Request)
  BY DEF Left, Driver
<1>2. Continues(s, e, l) /\ Blocks(s, e) /\ Cover(s, e) /\ s.down = NULL
  BY DEF Left
<1>3. /\ l # <<>> /\ Tail(l) = <<>> /\ Tail(l) \in Seq(Request)
      /\ \A x \in Request : /\ Append(l, x) \in Seq(Request)
                           /\ Append(l, x) # <<>> /\ Append(l, x) # l
                           /\ Tail(Append(l, x)) = Append(<<>>, x)
      /\ \A c, x \in Request :
           /\ Append(Append(l, c), x) # <<>> /\ Append(Append(l, c), x) # l
           /\ Tail(Append(Append(l, c), x)) = Append(Append(<<>>, c), x)
  <2>1. l # <<>> /\ Tail(l) = <<>> /\ Tail(l) \in Seq(Request)
    BY OneLong
  <2> HIDE DEF l
  <2>2. ASSUME NEW x \in Request
        PROVE  /\ Append(l, x) \in Seq(Request) /\ Append(l, x) # <<>>
               /\ Tail(Append(l, x)) = Append(<<>>, x) /\ Append(l, x) # l
    <3>1. Len(Append(l, x)) = 2
      <4>1. Len(Append(l, x)) = Len(l) + 1
        BY <1>1, AppendProperties
      <4> QED
        BY <1>1, <4>1
    <3>2. /\ Append(l, x) \in Seq(Request) /\ Append(l, x) # <<>>
          /\ Tail(Append(l, x)) = Append(<<>>, x)
      BY <1>1, <2>1, AppendTail
    <3>3. Append(l, x) # l
      BY <1>1, <3>1
    <3> QED
      BY <3>2, <3>3
  <2>3. ASSUME NEW c \in Request, NEW x \in Request
        PROVE  /\ Append(Append(l, c), x) # <<>> /\ Append(Append(l, c), x) # l
               /\ Tail(Append(Append(l, c), x)) = Append(Append(<<>>, c), x)
    <3> DEFINE m == Append(l, c)
    <3>1. m \in Seq(Request) /\ m # <<>> /\ Tail(m) = Append(<<>>, c)
      BY <2>2
    <3>2. Len(m) = 2
      <4>1. Len(m) = Len(l) + 1
        BY <1>1, AppendProperties
      <4> QED
        BY <1>1, <4>1
    <3> HIDE DEF m
    <3>3. Len(Append(m, x)) = 3 /\ Append(m, x) \in Seq(Request)
      <4>1. Len(Append(m, x)) = Len(m) + 1 /\ Append(m, x) \in Seq(Request)
        BY <3>1, AppendProperties
      <4> QED
        BY <3>2, <4>1
    <3>4. Append(m, x) # <<>> /\ Tail(Append(m, x)) = Append(Tail(m), x)
      BY <3>1, AppendTail
    <3>5. Append(m, x) # l
      BY <1>1, <3>3
    <3> QED
      BY <3>1, <3>4, <3>5 DEF m
  <2> QED
    BY <2>1, <2>2, <2>3
<1> HIDE DEF l
<1>4. s.low # <<>> /\ Tail(s.low) \in Seq(Request)
  <2>1. s.low # <<>>
    BY <1>2, <1>3 DEF Continues, OneStep
  <2> QED
    BY <1>1, <2>1, HeadTailProperties
<1>5. /\ t \in Driver /\ t.low = Tail(s.low)
      /\ SameBlocks(s, t) /\ SameCover(s, t) /\ SameControl(s, t)
  <2>1. t = [s EXCEPT !.low = Tail(s.low)]
    OBVIOUS
  <2> QED
    BY <1>1, <1>4, <2>1, LowChanges
<1>6. Queued(t) = Queued(s) /\ Blocks(t, e)
  BY <1>2, <1>5, BlocksAlike
<1>7. Cover(t, e)
  BY <1>2, <1>5, CoverAlike
<1>8. t.executing = e /\ Unfinished(t) /\ t.down = NULL /\ ~t.PreparingCover
  BY <1>2, <1>5 DEF Unfinished, SameBlocks, SameControl, SameCover
<1>9. Waits(t, e) <=> Waits(s, e)
  BY <1>5 DEF Waits, SameBlocks
<1>10. Continues(t, e, <<>>)
  <2>1. CASE s.low = l
    <3>1. t.low = <<>>
      BY <1>3, <1>5, <2>1
    <3>2. ~OneStep(s, e, l)
      BY <1>3, <2>1 DEF OneStep
    <3> QED
      BY <1>2, <1>5, <1>9, <3>1, <3>2 DEF Continues, SameControl
  <2>2. CASE s.low # l
    <3>1. /\ e # NULL /\ ~Waits(s, e) /\ s.storing = NULL /\ ~s.ResetAlarm
          /\ OneStep(s, e, l)
      BY <1>2, <2>2 DEF Continues
    <3>2. PICK x \in Request :
            /\ CarriesOn(s, e, x)
            /\ \/ s.low = Append(l, x)
               \/ \E c \in Request :
                    /\ c.cb = NULL /\ c.op = "ClearCoverInterrupt"
                    /\ s.low = Append(Append(l, c), x)
      BY <3>1 DEF OneStep
    <3>3. CarriesOn(t, e, x)
      BY <1>5, <3>2 DEF CarriesOn, SameBlocks
    <3>4. CASE s.low = Append(l, x)
      <4>1. t.low = Append(<<>>, x)
        BY <1>3, <1>5, <3>4
      <4> QED
        BY <1>5, <1>9, <3>1, <3>3, <4>1 DEF Continues, OneStep, SameControl
    <3>5. ASSUME NEW c \in Request, c.cb = NULL, c.op = "ClearCoverInterrupt",
                 s.low = Append(Append(l, c), x)
          PROVE  Continues(t, e, <<>>)
      <4>1. t.low = Append(Append(<<>>, c), x)
        BY <1>3, <1>5, <3>5
      <4> QED
        BY <1>5, <1>9, <3>1, <3>3, <3>5, <4>1 DEF Continues, OneStep, SameControl
    <3> QED
      BY <3>2, <3>4, <3>5
  <2> QED
    BY <2>1, <2>2
<1>11. \A i \in DOMAIN t.low :
         /\ t.low[i] = s.low[i + 1] /\ i + 1 \in DOMAIN s.low /\ i + 1 > Len(l)
  BY <1>1, <1>4, <1>5
<1>12. \A i \in DOMAIN t.low : t.low[i].reply = NULL
  BY <1>11 DEF Left, Fresh
<1>13. Plain(s, l) => \A i \in DOMAIN t.low :
         t.low[i].op \notin {"UnencryptedRead", "OpenPartition"}
  BY <1>11 DEF Plain
<1>14. CancelsWork(t)
  BY <1>5, <1>8, <1>9 DEF CancelsWork, SameControl, Left
<1>15. DriverInv(t)
  <2>1. Polling(t, <<>>) /\ <<>> \in Seq(Request)
    BY <1>8 DEF Polling
  <2> QED
    BY <1>5, <1>6, <1>7, <1>8, <1>10, <1>12, <1>14, <2>1
       DEF DriverInv, Unanswered
<1> QED
  BY <1>5, <1>12, <1>13, <1>15 DEF l

-----------------------------------------------------------------------------
(* The poll of the cover. *)

\* What the steps of the poll keep.
SamePolled(r, s) ==
    /\ s \in Driver /\ SameBlocks(r, s) /\ SameControl(r, s)
    /\ s.low = r.low /\ s.MotorState = r.MotorState

\* A flag of the cover is set.
LEMMA FlagSet ==
  ASSUME NEW r \in Driver, NEW v \in BOOLEAN, NEW s,
         \/ s = [r EXCEPT !.PreparingCover = v]
         \/ s = [r EXCEPT !.CoverAlarm = v]
         \/ s = [r EXCEPT !.WaitingForCoverOpen = v]
         \/ s = [r EXCEPT !.WaitingForCoverClose = v]
  PROVE  /\ SamePolled(r, s) /\ SameBlocks(r, s) /\ SameControl(r, s)
         /\ s.ResumeFromHere = r.ResumeFromHere
<1>1. s \in Driver
  <2>1. CASE s = [r EXCEPT !.PreparingCover = v]
    BY <2>1, ZenonT(60) DEF Driver
  <2>2. CASE s = [r EXCEPT !.CoverAlarm = v]
    BY <2>2, ZenonT(60) DEF Driver
  <2>3. CASE s = [r EXCEPT !.WaitingForCoverOpen = v]
    BY <2>3, ZenonT(60) DEF Driver
  <2>4. CASE s = [r EXCEPT !.WaitingForCoverClose = v]
    BY <2>4, ZenonT(60) DEF Driver
  <2> QED
    BY <2>1, <2>2, <2>3, <2>4
<1>2. SameBlocks(r, s)
  BY DEF Driver, SameBlocks
<1>3. SameControl(r, s)
  BY DEF Driver, SameControl
<1>4. /\ s.low = r.low /\ s.MotorState = r.MotorState
      /\ s.ResumeFromHere = r.ResumeFromHere
  BY DEF Driver
<1> QED
  BY <1>1, <1>2, <1>3, <1>4 DEF SamePolled

\* ResumeFromHere is set after the disc was exchanged.
LEMMA SevenSet ==
  ASSUME NEW r \in Driver, NEW s, s = [r EXCEPT !.ResumeFromHere = "7"]
  PROVE  /\ s \in Driver /\ SameBlocks(r, s) /\ SameControl(r, s)
         /\ s.low = r.low
<1>1. s \in Driver
  <2>1. "7" \in Points
    BY DEF Points
  <2> QED
    BY <2>1 DEF Driver
<1>2. SameBlocks(r, s)
  BY DEF Driver, SameBlocks
<1>3. SameControl(r, s) /\ s.low = r.low
  BY DEF Driver, SameControl
<1> QED
  BY <1>1, <1>2, <1>3

\* The command waits on, or nothing is executed.
LEMMA StaysLeft ==
  ASSUME NEW r, NEW l \in Seq(Request), r \in Driver,
         r.down = NULL, r.low = l, r.storing = NULL, ~r.ResetAlarm,
         Blocks(r, r.executing), Cover(r, r.executing),
         r.executing = NULL \/ Waits(r, r.executing), ~r.Canceling
  PROVE  Left(r, l) /\ Plain(r, l)
BY Unsent DEF Left, Continues, CancelsWork

\* SameCommands is about these fields.
LEMMA PolledCommands ==
  ASSUME NEW r, NEW s, SameBlocks(r, s), SameControl(r, s)
  PROVE  SameCommands(r, s) /\ (Unfinished(r) => Unfinished(s))
<1>1. Queued(s) = Queued(r)
  BY BlocksAlike
<1> QED
  BY <1>1 DEF SameCommands, SameBlocks, SameControl, Unfinished

\* The disc was exchanged while a command waited.
LEMMA ExchangedCommand ==
  ASSUME NEW r, NEW l, Picked(r, l), NoCover(r), Unfinished(r),
         NEW s, s = CoverClosed(r)
  PROVE  /\ Left(s, l) /\ Plain(s, l) /\ ~s.PreparingCover
         /\ SameCommands(r, s) /\ Unfinished(s)
<1>1. GoesOn(r, s, l) /\ Plain(s, l)
  BY CoverClosedGoesOn
<1> QED
  BY <1>1 DEF GoesOn, Keeps, SameCommands, Unfinished, NoCover

\* The user has opened the cover: the command waits for it to be closed.
LEMMA OpenedCover ==
  ASSUME NEW r \in Driver, r.executing # NULL,
         Blocks(r, r.executing), Cover(r, r.executing),
         Waits(r, r.executing), r.WaitingForCoverOpen, ~r.PreparingCover,
         r.CoverAlarm,
         NEW s, s = [r EXCEPT !.WaitingForCoverOpen = FALSE,
                              !.WaitingForCoverClose = TRUE,
                              !.state[r.executing] = "COVER_OPENED"]
  PROVE  /\ s \in Driver /\ SameControl(r, s) /\ s.low = r.low
         /\ Blocks(s, r.executing) /\ Cover(s, r.executing)
         /\ Waits(s, r.executing) /\ SameCommands(r, s)
         /\ Unfinished(r) => Unfinished(s)
         /\ ~s.PreparingCover
<1> DEFINE e == r.executing
<1>1. e \in Block
  BY DEF Driver
<1> HIDE DEF e
<1>2. s = [r EXCEPT !.WaitingForCoverOpen = FALSE,
                    !.WaitingForCoverClose = TRUE,
                    !.state[e] = "COVER_OPENED"]
  BY DEF e
<1>3. /\ s \in Driver /\ s.state = [r.state EXCEPT ![e] = "COVER_OPENED"]
      /\ s.WaitingForCoverOpen = FALSE /\ s.WaitingForCoverClose = TRUE
  <2>1. "COVER_OPENED" \in States
    BY DEF States, CoverWaits
  <2>2. s \in Driver
    <3> DEFINE o == [r EXCEPT !.WaitingForCoverOpen = FALSE]
               c == [o EXCEPT !.WaitingForCoverClose = TRUE]
    <3>1. o \in Driver
      BY FlagSet DEF SamePolled
    <3>2. s = [c EXCEPT !.state[e] = "COVER_OPENED"]
      BY <1>2
    <3> HIDE DEF o
    <3>3. c \in Driver
      BY <3>1, FlagSet DEF SamePolled
    <3> HIDE DEF c
    <3>4. ASSUME NEW y, y = [c EXCEPT !.state[e] = "COVER_OPENED"]
          PROVE  y \in Driver
      BY <1>1, <2>1, <3>3, <3>4, StateSet
    <3> QED
      BY <3>2, <3>4
  <2> QED
    BY <1>1, <1>2, <2>2 DEF Driver
<1>4. /\ s.answer = r.answer /\ s.callback = r.callback
      /\ s.length = r.length /\ s.transferTotal = r.transferTotal
      /\ s.WaitingQueue = r.WaitingQueue /\ s.low = r.low
  BY <1>2 DEF Driver
<1>5. SameControl(r, s)
  BY <1>2 DEF Driver, SameControl
<1>6. /\ s.PreparingCover = r.PreparingCover /\ s.CoverAlarm = r.CoverAlarm
      /\ s.ResumeFromHere = r.ResumeFromHere /\ s.MotorState = r.MotorState
  BY <1>2 DEF Driver
<1>7. Blocks(s, e) /\ Queued(s) = Queued(r)
  <2>1. "COVER_OPENED" \in Working /\ Others(r, e)
    BY DEF Working, CoverWaits, Blocks, e
  <2>2. r \in Driver /\ e \in Block
    BY <1>1
  <2>3. s.state = [r.state EXCEPT ![e] = "COVER_OPENED"]
    BY <1>3
  <2>4. ASSUME NEW y, y.state = [r.state EXCEPT ![e] = "COVER_OPENED"],
               y.answer = r.answer, y.callback = r.callback, y.length = r.length,
               y.transferTotal = r.transferTotal, y.WaitingQueue = r.WaitingQueue
        PROVE  Blocks(y, e) /\ Queued(y) = Queued(r)
    BY ONLY <2>1, <2>2, <2>4, StateChanges
  <2> QED
    BY <1>4, <2>3, <2>4
<1>8. s.state[e] = "COVER_OPENED"
  BY <1>1, <1>3 DEF Driver
<1>9. Waits(s, e)
  BY <1>1, <1>8 DEF Waits, CoverWaits, e
<1>10. Cover(s, e)
  BY <1>3, <1>6, <1>8, <1>9 DEF Cover, Resumable, e
<1> QED
  BY <1>3, <1>4, <1>5, <1>6, <1>7, <1>9, <1>10
     DEF e, SameCommands, SameControl, Unfinished

\* doPrepareCoverRegisterCallback.
LEMMA CoverRegister ==
  ASSUME NEW r, NEW q \in Request, DriverInv(r), r.down = NULL, Resting(r),
         r.PreparingCover, r.low = <<q>>, ContextMax >= 3, NEW reg,
         NEW s, s = cbForPrepareCoverRegister(r, reg)
  PROVE  /\ Left(s, <<q>>) /\ Plain(s, <<q>>) /\ ~s.PreparingCover
         /\ SameCommands(r, s) /\ Unfinished(s)
<1> DEFINE e == r.executing
           l == <<q>>
           done == [r EXCEPT !.PreparingCover = FALSE]
           noAlarm == [done EXCEPT !.CoverAlarm = FALSE]
           closed == [noAlarm EXCEPT !.WaitingForCoverClose = FALSE]
           seven == [closed EXCEPT !.ResumeFromHere = "7"]
           opened == [noAlarm EXCEPT !.WaitingForCoverOpen = FALSE]
<1>1. r \in Driver /\ l \in Seq(Request) /\ Len(l) <= 1
  BY OneLong DEF DriverInv
<1>0. SUFFICES /\ Left(s, l) /\ Plain(s, l) /\ ~s.PreparingCover
               /\ SameCommands(r, s) /\ Unfinished(s)
  BY DEF l
<1> HIDE DEF l
<1>2. /\ Cover(r, e) /\ Blocks(r, e) /\ Unfinished(r)
      /\ r.storing = NULL /\ ~r.ResetAlarm /\ r.low = l
      /\ e = NULL \/ Waits(r, e)
      /\ ~r.Canceling
  BY DEF DriverInv, Resting, CancelsWork, l
<1>3. /\ SamePolled(r, done) /\ SameControl(r, done) /\ SameBlocks(r, done)
      /\ ~done.PreparingCover /\ done.CoverAlarm = r.CoverAlarm
      /\ done.WaitingForCoverOpen = r.WaitingForCoverOpen
      /\ done.WaitingForCoverClose = r.WaitingForCoverClose
      /\ done.ResumeFromHere = r.ResumeFromHere
  <2>1. /\ ~done.PreparingCover /\ done.CoverAlarm = r.CoverAlarm
        /\ done.WaitingForCoverOpen = r.WaitingForCoverOpen
        /\ done.WaitingForCoverClose = r.WaitingForCoverClose
    BY <1>1 DEF Driver
  <2> HIDE DEF done
  <2>2. done = [r EXCEPT !.PreparingCover = FALSE]
    BY DEF done
  <2> QED
    BY <1>1, <2>1, <2>2, FlagSet
<1>4. Cover(done, e) /\ Blocks(done, e) /\ done.executing = e
  <2>1. Waits(done, e) <=> Waits(r, e)
    BY <1>3 DEF Waits, SameBlocks
  <2> QED
    BY <1>2, <1>3, <2>1, BlocksAlike
       DEF Cover, SameBlocks, SameControl, SamePolled
<1>5. Left(done, l) /\ Plain(done, l) /\ SameCommands(r, done)
      /\ Unfinished(done) /\ done.down = NULL
  <2>1. /\ done.low = l /\ done.storing = NULL /\ ~done.ResetAlarm
        /\ done \in Driver /\ done.down = NULL /\ ~done.Canceling
        /\ e = NULL \/ Waits(done, e)
    BY <1>2, <1>3 DEF SamePolled, SameControl, Waits, SameBlocks
  <2>2. Left(done, l) /\ Plain(done, l)
    BY <1>1, <1>4, <2>1, StaysLeft
  <2> QED
    BY <1>2, <1>3, <2>1, <2>2, PolledCommands
<1> HIDE DEF done
<1>6. /\ SamePolled(done, noAlarm) /\ SameBlocks(done, noAlarm)
      /\ SameControl(done, noAlarm)
      /\ ~noAlarm.PreparingCover /\ noAlarm.CoverAlarm = FALSE
      /\ noAlarm.WaitingForCoverOpen = done.WaitingForCoverOpen
      /\ noAlarm.WaitingForCoverClose = done.WaitingForCoverClose
      /\ noAlarm.ResumeFromHere = done.ResumeFromHere
  <2>0. done \in Driver
    BY <1>3 DEF SamePolled
  <2>1. /\ ~noAlarm.PreparingCover /\ noAlarm.CoverAlarm = FALSE
        /\ noAlarm.WaitingForCoverOpen = done.WaitingForCoverOpen
        /\ noAlarm.WaitingForCoverClose = done.WaitingForCoverClose
    BY <1>3, <2>0 DEF Driver
  <2> HIDE DEF noAlarm
  <2>2. noAlarm = [done EXCEPT !.CoverAlarm = FALSE]
    BY DEF noAlarm
  <2> QED
    BY <2>0, <2>1, <2>2, FlagSet
<1> HIDE DEF noAlarm
<1>7. /\ SamePolled(noAlarm, closed) /\ SameBlocks(noAlarm, closed)
      /\ SameControl(noAlarm, closed)
      /\ ~closed.PreparingCover /\ ~closed.CoverAlarm
      /\ closed.WaitingForCoverOpen = noAlarm.WaitingForCoverOpen
      /\ ~closed.WaitingForCoverClose
      /\ closed.ResumeFromHere = noAlarm.ResumeFromHere
  <2>0. noAlarm \in Driver
    BY <1>6 DEF SamePolled
  <2>1. /\ ~closed.PreparingCover /\ ~closed.CoverAlarm /\ ~closed.WaitingForCoverClose
        /\ closed.WaitingForCoverOpen = noAlarm.WaitingForCoverOpen
    BY <1>6, <2>0 DEF Driver
  <2> HIDE DEF closed
  <2>2. closed = [noAlarm EXCEPT !.WaitingForCoverClose = FALSE]
    BY DEF closed
  <2> QED
    BY <2>0, <2>1, <2>2, FlagSet
<1>8. /\ SamePolled(noAlarm, opened) /\ SameBlocks(noAlarm, opened)
      /\ SameControl(noAlarm, opened)
      /\ ~opened.PreparingCover /\ ~opened.CoverAlarm
      /\ ~opened.WaitingForCoverOpen
      /\ opened.WaitingForCoverClose = noAlarm.WaitingForCoverClose
      /\ opened.ResumeFromHere = noAlarm.ResumeFromHere
  <2>0. noAlarm \in Driver
    BY <1>6 DEF SamePolled
  <2>1. /\ ~opened.PreparingCover /\ ~opened.CoverAlarm /\ ~opened.WaitingForCoverOpen
        /\ opened.WaitingForCoverClose = noAlarm.WaitingForCoverClose
    BY <1>6, <2>0 DEF Driver
  <2> HIDE DEF opened
  <2>2. opened = [noAlarm EXCEPT !.WaitingForCoverOpen = FALSE]
    BY DEF opened
  <2> QED
    BY <2>0, <2>1, <2>2, FlagSet
<1> HIDE DEF closed, opened
<1>9. ASSUME e # NULL, NEW x \in Driver, SameBlocks(r, x), SameControl(r, x),
             x.ResumeFromHere = "NONE", NoCover(x),
             x.low = l \/ \E c : Clear(c) /\ x.low = Append(l, c),
             s = CoverClosed(x)
      PROVE  /\ Left(s, l) /\ Plain(s, l) /\ ~s.PreparingCover
             /\ SameCommands(r, s) /\ Unfinished(s)
  <2>1. Others(x, e)
    BY <1>2, <1>9, OthersAlike DEF Blocks
  <2>2. x.executing = e /\ x.down = NULL /\ x.storing = NULL /\ ~x.ResetAlarm
    BY <1>2, <1>9 DEF SameControl
  <2>3. Picked(x, l)
    BY <1>1, <1>9, <2>1, <2>2 DEF Picked
  <2>4. SameCommands(r, x) /\ Unfinished(x)
    BY <1>2, <1>9, PolledCommands
  <2>5. /\ Left(s, l) /\ Plain(s, l) /\ ~s.PreparingCover
        /\ SameCommands(x, s) /\ Unfinished(s)
    BY <1>9, <2>3, <2>4, ExchangedCommand
  <2> QED
    BY <2>4, <2>5 DEF SameCommands
<1>10. r.CoverAlarm /\ (e # NULL => r.ResumeFromHere = "NONE")
  BY <1>2 DEF Cover
<1>11. CASE r.WaitingForCoverClose /\ ~reg.CVR
  <2>1. s = cbForStateMotorStopped(noAlarm)
    BY <1>11 DEF cbForPrepareCoverRegister, noAlarm, done
  <2>2. noAlarm.executing = e /\ ~r.WaitingForCoverOpen
    BY <1>2, <1>3, <1>6, <1>11 DEF SameControl, Cover
  <2>3. SameBlocks(r, closed) /\ SameControl(r, closed) /\ closed \in Driver
        /\ NoCover(closed) /\ closed.low = l
        /\ closed.ResumeFromHere = r.ResumeFromHere
    BY <1>2, <1>3, <1>6, <1>7, <2>2
       DEF SamePolled, SameBlocks, SameControl, NoCover
  <2>4. CASE e = NULL
    <3>1. s = [closed EXCEPT !.ResumeFromHere = "7"]
      BY <2>1, <2>2, <2>4 DEF cbForStateMotorStopped, closed
    <3>2. /\ s \in Driver /\ SameBlocks(closed, s) /\ SameControl(closed, s)
          /\ s.ResumeFromHere = "7" /\ s.low = l
          /\ ~s.PreparingCover /\ ~s.CoverAlarm
          /\ ~s.WaitingForCoverOpen /\ ~s.WaitingForCoverClose
      <4>1. /\ s \in Driver /\ SameBlocks(closed, s) /\ SameControl(closed, s)
            /\ s.low = closed.low
        BY <2>3, <3>1, SevenSet
      <4>2. /\ s.ResumeFromHere = "7"
            /\ s.PreparingCover = closed.PreparingCover
            /\ s.CoverAlarm = closed.CoverAlarm
            /\ s.WaitingForCoverOpen = closed.WaitingForCoverOpen
            /\ s.WaitingForCoverClose = closed.WaitingForCoverClose
        BY <2>3, <3>1 DEF Driver
      <4> QED
        BY <2>3, <4>1, <4>2 DEF NoCover
    <3>3. SameBlocks(r, s) /\ SameControl(r, s) /\ s.executing = NULL
      BY <2>3, <2>4, <3>2 DEF SameBlocks, SameControl
    <3>4. Blocks(s, NULL) /\ SameCommands(r, s) /\ Unfinished(s)
      BY <1>2, <2>4, <3>3, BlocksAlike, PolledCommands
    <3>5. Cover(s, NULL)
      BY <3>2 DEF Cover, Waits
    <3>6. /\ s.down = NULL /\ s.storing = NULL /\ ~s.ResetAlarm
          /\ ~s.Canceling
      BY <1>2, <3>3 DEF SameControl
    <3> QED
      BY <1>1, <3>2, <3>3, <3>4, <3>5, <3>6, StaysLeft
  <2>5. CASE e # NULL
    <3>1. s = CoverClosed(closed)
      BY <2>1, <2>2, <2>5 DEF cbForStateMotorStopped, closed
    <3> QED
      BY <1>9, <1>10, <2>3, <2>5, <3>1
  <2> QED
    BY <2>4, <2>5
<1>12. CASE ~r.WaitingForCoverClose /\ reg.CVR
  <2>1. r.WaitingForCoverOpen /\ Waits(r, e) /\ e # NULL
    BY <1>2, <1>10, <1>12 DEF Cover, Waits
  <2>2. s = [done EXCEPT !.WaitingForCoverOpen = FALSE,
                         !.WaitingForCoverClose = TRUE,
                         !.state[e] = "COVER_OPENED"]
    BY <1>12, <2>1 DEF cbForPrepareCoverRegister, done
  <2>3. Waits(done, e) /\ done \in Driver
    BY <1>3, <2>1 DEF Waits, SameBlocks, SamePolled
  <2>4. /\ s \in Driver /\ SameControl(done, s) /\ s.low = done.low
        /\ Blocks(s, e) /\ Cover(s, e) /\ Waits(s, e)
        /\ SameCommands(done, s) /\ Unfinished(s) /\ ~s.PreparingCover
    BY <1>3, <1>4, <1>5, <1>10, <2>1, <2>2, <2>3, OpenedCover
  <2>5. /\ s.low = l /\ s.storing = NULL /\ ~s.ResetAlarm /\ s.down = NULL
        /\ s.executing = e /\ ~s.Canceling
    BY <1>2, <1>3, <2>4 DEF SamePolled, SameControl
  <2>6. Left(s, l) /\ Plain(s, l)
    BY <1>1, <2>4, <2>5, StaysLeft
  <2> QED
    BY <1>5, <2>4, <2>6 DEF SameCommands
<1>13. CASE ~r.WaitingForCoverClose /\ ~reg.CVR /\ reg.CVRINT
  <2> DEFINE sent == Send(opened, "ClearCoverInterrupt", NULL)
             x == [sent EXCEPT !.WaitingForCoverClose = FALSE]
  <2>1. r.WaitingForCoverOpen /\ Waits(r, e) /\ e # NULL
    BY <1>2, <1>10, <1>13 DEF Cover, Waits
  <2>2. s = cbForStateMotorStopped(sent)
    BY <1>13 DEF cbForPrepareCoverRegister, noAlarm, done, opened
  <2>3. /\ SameBlocks(r, opened) /\ SameControl(r, opened) /\ opened \in Driver
        /\ NoCover(opened) /\ opened.low = l /\ opened.executing = e
        /\ opened.ResumeFromHere = r.ResumeFromHere
    BY <1>2, <1>3, <1>6, <1>8, <1>13
       DEF SamePolled, SameBlocks, SameControl, NoCover
  <2> HIDE DEF sent
  <2>4. PICK c \in Request :
          /\ Clear(c) /\ sent = [opened EXCEPT !.low = Append(l, c)]
          /\ Append(l, c) \in Seq(Request)
    <3>1. opened.executing \in Block /\ Len(opened.low) < ContextMax
      BY <1>1, <2>1, <2>3, LenProperties, DVDAssumption DEF Driver
    <3> QED
      BY <2>3, <3>1, SendEffect DEF sent, Operations, Clear
  <2>5. /\ sent \in Driver /\ sent.low = Append(l, c)
        /\ SameBlocks(opened, sent) /\ SameCover(opened, sent)
        /\ SameControl(opened, sent)
    BY <2>3, <2>4, LowChanges
  <2>6. /\ x \in Driver /\ SameBlocks(sent, x) /\ SameControl(sent, x)
        /\ x.low = sent.low /\ x.ResumeFromHere = sent.ResumeFromHere
        /\ ~x.WaitingForCoverClose
        /\ x.WaitingForCoverOpen = sent.WaitingForCoverOpen
        /\ x.PreparingCover = sent.PreparingCover
        /\ x.CoverAlarm = sent.CoverAlarm
    <3>1. sent \in Driver
      BY <2>5
    <3>2. /\ ~x.WaitingForCoverClose
          /\ x.WaitingForCoverOpen = sent.WaitingForCoverOpen
          /\ x.PreparingCover = sent.PreparingCover
          /\ x.CoverAlarm = sent.CoverAlarm
      BY <3>1 DEF Driver
    <3> HIDE DEF x
    <3>3. x = [sent EXCEPT !.WaitingForCoverClose = FALSE]
      BY DEF x
    <3> QED
      BY <3>1, <3>2, <3>3, FlagSet DEF SamePolled
  <2>7. s = CoverClosed(x)
    BY <2>1, <2>2, <2>3, <2>5 DEF cbForStateMotorStopped, SameControl
  <2> HIDE DEF x
  <2>8. SameBlocks(r, x) /\ SameControl(r, x)
    BY <2>3, <2>5, <2>6 DEF SameBlocks, SameControl
  <2>9. NoCover(x) /\ x.ResumeFromHere = "NONE" /\ x.low = Append(l, c)
    BY <1>10, <2>1, <2>3, <2>5, <2>6 DEF NoCover, SameCover
  <2> QED
    BY <1>9, <2>1, <2>4, <2>6, <2>7, <2>8, <2>9
<1>14. CASE \/ r.WaitingForCoverClose /\ reg.CVR
            \/ ~r.WaitingForCoverClose /\ ~reg.CVR /\ ~reg.CVRINT
  <2>1. s = done
    BY <1>14 DEF cbForPrepareCoverRegister, done
  <2> QED
    BY <1>3, <1>5, <2>1
<1> QED
  BY <1>11, <1>12, <1>13, <1>14

-----------------------------------------------------------------------------
(* doTransactionCallback: the request at the head. *)

\* It carries on the command that is executed, polls the cover, or clears the
\* interrupt of the cover before another one.
LEMMA HeadCases ==
  ASSUME NEW r, DriverInv(r), r.down = NULL, r.low # <<>>
  PROVE  LET e == r.executing
         IN  \/ /\ Working1(r) /\ e # NULL /\ r.storing = NULL /\ ~r.ResetAlarm
                /\ \E q \in Request :
                     /\ CarriesOn(r, e, q)
                     /\ \/ r.low = <<q>>
                        \/ \E c \in Request :
                             /\ c.cb = NULL /\ c.op = "ClearCoverInterrupt"
                             /\ r.low = <<c, q>>
             \/ /\ Resting(r) /\ r.PreparingCover
                /\ \E q \in Request : /\ q.cb = "PrepareCover"
                                      /\ q.op = "PrepareCoverRegister"
                                      /\ r.low = <<q>>
BY DriverCases DEF Working1, Resting

\* What is known of it.
LEMMA HeadFits ==
  ASSUME NEW r, DriverInv(r), r.down = NULL, r.low # <<>>,
         NEW q, q = Head(r.low)
  PROVE  /\ q \in Request
         /\ q.cb \in StepCallbacks
              => r.executing # NULL /\ CarriesOn(r, r.executing, q)
         /\ q.cb \notin StepCallbacks
              => q.op \in {"ClearCoverInterrupt", "PrepareCoverRegister"}
<1>1. \/ \E x \in Request : CarriesOn(r, r.executing, x) /\ r.low = <<x>>
                             /\ r.executing # NULL
      \/ \E c, x \in Request : /\ c.cb = NULL /\ c.op = "ClearCoverInterrupt"
                               /\ r.low = <<c, x>>
      \/ \E x \in Request : /\ x.cb = "PrepareCover"
                            /\ x.op = "PrepareCoverRegister" /\ r.low = <<x>>
  BY HeadCases
<1>2. "PrepareCover" \notin StepCallbacks /\ NULL \notin StepCallbacks
  BY NullAssumption DEF StepCallbacks
<1>3. ASSUME NEW x \in Request, CarriesOn(r, r.executing, x), r.low = <<x>>,
             r.executing # NULL
      PROVE  q = x /\ q.cb \in StepCallbacks
  BY <1>3, OneLong DEF CarriesOn
<1>4. ASSUME NEW c \in Request, NEW x \in Request, r.low = <<c, x>>
      PROVE  q = c
  BY <1>4, TwoLong
<1>5. ASSUME NEW x \in Request, r.low = <<x>>
      PROVE  q = x
  BY <1>5, OneLong
<1> QED
  BY <1>1, <1>2, <1>3, <1>4, <1>5

\* A request that carries on a command is alone when its turn has come.
LEMMA HeadAlone ==
  ASSUME NEW r, DriverInv(r), r.down = NULL, r.low # <<>>,
         NEW q, q = Head(r.low), q.cb \in StepCallbacks
  PROVE  r.low = <<q>>
<1>1. \/ \E x \in Request : r.low = <<x>>
      \/ \E c, x \in Request : c.cb = NULL /\ r.low = <<c, x>>
  BY HeadCases
<1>2. NULL \notin StepCallbacks
  BY NullAssumption DEF StepCallbacks
<1>3. ASSUME NEW x \in Request, r.low = <<x>> PROVE r.low = <<q>>
  BY <1>3, OneLong
<1>4. ASSUME NEW c \in Request, NEW x \in Request, c.cb = NULL, r.low = <<c, x>>
      PROVE  FALSE
  BY <1>2, <1>4, TwoLong
<1> QED
  BY <1>1, <1>3, <1>4

\* Its context is given back, and another request is carried out next.
LEMMA ClearDelivered ==
  ASSUME NEW r, DriverInv(r), r.down = NULL, Working1(r), r.storing = NULL,
         ~r.ResetAlarm, NEW c \in Request, NEW q \in Request,
         CarriesOn(r, r.executing, q), r.low = <<c, q>>,
         NEW s, s = [r EXCEPT !.low = Tail(@)]
  PROVE  /\ DriverInv(s) /\ SameCommands(r, s) /\ SameControl(r, s)
         /\ s.low = <<q>> /\ q.reply = NULL
<1> DEFINE e == r.executing
<1>1. r \in Driver /\ Blocks(r, e) /\ Cover(r, e) /\ Unfinished(r)
  BY DEF DriverInv
<1>2. /\ Tail(r.low) = <<q>> /\ <<q>> \in Seq(Request) /\ Len(<<q>>) = 1
      /\ DOMAIN <<q>> = {1}
  BY OneLong, TwoLong
<1>3. q.reply = NULL
  <2>1. 2 \in DOMAIN r.low /\ r.low[2] = q
    OBVIOUS
  <2> QED
    BY <2>1 DEF DriverInv, Unanswered
<1>4. s = [r EXCEPT !.low = <<q>>]
  BY <1>2
<1>5. /\ s \in Driver /\ s.low = <<q>>
      /\ SameBlocks(r, s) /\ SameCover(r, s) /\ SameControl(r, s)
  BY <1>1, <1>2, <1>4, LowChanges
<1>6. Blocks(s, e) /\ Cover(s, e) /\ s.executing = e
  BY <1>1, <1>5, BlocksAlike, CoverAlike DEF SameControl
<1>7. SameCommands(r, s) /\ Unfinished(s)
  BY <1>1, <1>5, PolledCommands
<1>8. ~Waits(s, e) /\ e # NULL /\ ~s.PreparingCover
  BY <1>5 DEF Working1, Waits, SameBlocks, SameCover
<1>9. OneStep(s, e, <<>>)
  <2>1. CarriesOn(s, e, q)
    BY <1>5 DEF CarriesOn, SameBlocks
  <2>2. s.low = Append(<<>>, q)
    BY <1>5, OneLong
  <2> QED
    BY <2>1, <2>2 DEF OneStep
<1>10. Unanswered(s)
  BY <1>2, <1>5 DEF Unanswered
<1>11. Polling(s, <<>>) /\ Continues(s, e, <<>>) /\ <<>> \in Seq(Request)
  BY <1>5, <1>8, <1>9 DEF Polling, Continues, SameControl
<1>12. CancelsWork(s)
  BY <1>6, <1>8 DEF CancelsWork
<1> QED
  BY <1>3, <1>5, <1>6, <1>7, <1>10, <1>11, <1>12 DEF DriverInv

\* SameCommands and Onward are about the same fields.
LEMMA OnwardAlike ==
  ASSUME NEW r, NEW s, NEW t, Onward(r, s), SameBlocks(s, t), SameCover(s, t),
         SameControl(s, t)
  PROVE  Onward(r, t)
<1>1. Queued(s) = Queued(t)
  BY BlocksAlike
<1> QED
  BY <1>1
     DEF Onward, SameCommands, Ended, SameBlocks, SameCover, SameControl

\* What a request that was carried out leaves of the requests.
Requests(r, q, s) ==
    \A i \in DOMAIN s.low :
      /\ s.low[i].reply = NULL
      /\ \/ s.low[i].op \notin {"UnencryptedRead", "OpenPartition"}
         \/ i + 1 \in DOMAIN r.low /\ s.low[i] = r.low[i + 1]
         \/ Identifies(q)

\* The step of a command.
LEMMA StepDelivered ==
  ASSUME NEW r, DriverInv(r), r.down = NULL, Working1(r), r.storing = NULL,
         ~r.ResetAlarm, NEW q \in Request, CarriesOn(r, r.executing, q),
         r.low = <<q>>, q.reply # NULL, q.cb # "Error",
         Queued(r) \cap InquiryBlock = {}, ContextMax >= 3,
         NEW done, done = StepOf(r, q),
         NEW s, s = [done EXCEPT !.low = Tail(@)]
  PROVE  DriverInv(s) /\ Onward(Counted(r, q), s) /\ Requests(r, q, s)
<1> DEFINE e == r.executing
           l == <<q>>
           n == Counted(r, q)
<1>1. r \in Driver /\ Blocks(r, e) /\ Cover(r, e) /\ Unfinished(r)
  BY DEF DriverInv
<1>2. l \in Seq(Request) /\ Len(l) = 1
  BY OneLong
<1>3. q.reply \in AnyReply
  BY DEF Request
<1>4. e # NULL /\ ~Waits(r, e) /\ ~r.PreparingCover
  BY DEF Working1
<1>5. Works(r, l)
  BY <1>1, <1>2, <1>4 DEF Works, Runs
<1> HIDE DEF l
<1>6. Outcome(n, done, l) /\ (Plain(done, l) \/ Identifies(q))
  BY <1>3, <1>5, StepOutcome
<1>7. /\ Others(n, n.executing) /\ n.executing # NULL
      /\ n.PreparingCover = r.PreparingCover
  <2>1. CASE n = r
    BY <1>1, <1>4, <2>1 DEF Blocks
  <2>2. CASE n = Counts(r, "TC") /\ q.cb = "Busy"
    <3>1. \/ r.executing \in InquiryBlock
          \/ r.transferTotal[r.executing] < r.length[r.executing]
      BY <2>2 DEF CarriesOn
    <3>2. Runs(n, l) /\ n.PreparingCover = r.PreparingCover
      BY <1>5, <2>2, <3>1, CountsRuns
    <3> QED
      BY <3>2 DEF Runs, Blocks
  <2> QED
    BY <2>1, <2>2 DEF Counted
<1> HIDE DEF n
<1>8. Unfinished(done) /\ Onward(n, done) /\ ~done.PreparingCover
  BY <1>4, <1>6, <1>7, OutcomeUnfinished
<1>9. Left(done, l)
  BY <1>6 DEF Outcome, GoesOn
<1>10. /\ DriverInv(s) /\ SameBlocks(done, s) /\ SameCover(done, s)
       /\ SameControl(done, s)
       /\ \A i \in DOMAIN s.low : s.low[i].reply = NULL
       /\ Plain(done, l) => \A i \in DOMAIN s.low :
            s.low[i].op \notin {"UnencryptedRead", "OpenPartition"}
  BY <1>8, <1>9, TailDriver DEF l
<1>11. Onward(n, s)
  BY <1>8, <1>10, OnwardAlike
<1>12. Requests(r, q, s)
  BY <1>6, <1>10 DEF Requests
<1> QED
  BY <1>10, <1>11, <1>12 DEF n

\* The poll of the cover.
LEMMA PollDelivered ==
  ASSUME NEW r, DriverInv(r), r.down = NULL, Resting(r), r.PreparingCover,
         NEW q \in Request, r.low = <<q>>, ContextMax >= 3,
         NEW done, NEW reg, done = cbForPrepareCoverRegister(r, reg),
         NEW s, s = [done EXCEPT !.low = Tail(@)]
  PROVE  DriverInv(s) /\ SameCommands(r, s) /\ Requests(r, q, s)
<1>1. /\ Left(done, <<q>>) /\ Plain(done, <<q>>) /\ ~done.PreparingCover
      /\ SameCommands(r, done) /\ Unfinished(done)
  BY CoverRegister
<1>2. /\ DriverInv(s) /\ SameBlocks(done, s) /\ SameCover(done, s)
      /\ SameControl(done, s)
      /\ \A i \in DOMAIN s.low : s.low[i].reply = NULL
      /\ \A i \in DOMAIN s.low :
           s.low[i].op \notin {"UnencryptedRead", "OpenPartition"}
  BY <1>1, TailDriver
<1>3. SameCommands(done, s)
  BY <1>2, PolledCommands
<1> QED
  BY <1>1, <1>2, <1>3 DEF Requests, SameCommands

\* cbForStateError: the program stops.
LEMMA FatalDelivered ==
  ASSUME NEW r, DriverInv(r), NEW q \in Request, r.low = <<q>>,
         NEW s, s = [[r EXCEPT !.down = "fatal"] EXCEPT !.low = Tail(@)]
  PROVE  DriverInv(s) /\ SameCommands(r, s) /\ Requests(r, q, s)
<1> DEFINE d == [r EXCEPT !.down = "fatal"]
<1>1. r \in Driver /\ Blocks(r, r.executing) /\ Unfinished(r)
  BY DEF DriverInv
<1>2. /\ d \in Driver /\ SameBlocks(r, d) /\ d.low = r.low /\ d.down = "fatal"
      /\ d.executing = r.executing /\ d.Canceling = r.Canceling
      /\ d.Breaking = r.Breaking /\ d.Prepared = r.Prepared
  BY <1>1 DEF Driver, SameBlocks
<1> HIDE DEF d
<1>3. s = [d EXCEPT !.low = <<>>]
  <2>1. Tail(d.low) = <<>>
    BY <1>2, OneLong
  <2>2. s = [d EXCEPT !.low = Tail(d.low)]
    BY DEF d
  <2> QED
    BY <2>1, <2>2
<1>4. /\ s \in Driver /\ s.low = <<>>
      /\ SameBlocks(d, s) /\ SameCover(d, s) /\ SameControl(d, s)
  <2>1. <<>> \in Seq(Request)
    OBVIOUS
  <2> QED
    BY <1>2, <1>3, <2>1, LowChanges
<1>5. SameBlocks(r, s) /\ s.executing = r.executing /\ s.down = "fatal"
  BY <1>2, <1>4 DEF SameBlocks, SameControl
<1>6. Queued(s) = Queued(r) /\ Blocks(s, r.executing)
  BY <1>1, <1>5, BlocksAlike
<1>7. Unfinished(s) /\ SameCommands(r, s)
  BY <1>1, <1>2, <1>4, <1>5, <1>6
     DEF Unfinished, SameCommands, SameBlocks, SameControl
<1>8. Unanswered(s) /\ Requests(r, q, s) /\ s.down # NULL
  BY <1>4, <1>5, NullAssumption DEF Unanswered, Requests
<1>9. CancelsWork(s)
  BY <1>5, <1>7 DEF DriverInv, CancelsWork, SameCommands, Waits, SameBlocks
<1> QED
  BY <1>4, <1>5, <1>6, <1>7, <1>8, <1>9 DEF DriverInv

\* doTransactionCallback.
LEMMA DeliverEffect ==
  ASSUME NEW r, DriverInv(r), r.down = NULL, r.low # <<>>,
         NEW q, q = Head(r.low), q.reply # NULL,
         Queued(r) \cap InquiryBlock = {}, ContextMax >= 3,
         NEW s, s = Deliver(r)
  PROVE  DriverInv(s) /\ Onward(Counted(r, q), s) /\ Requests(r, q, s)
<1> DEFINE e == r.executing
<1>1. "PrepareCover" \notin StepCallbacks /\ NULL \notin StepCallbacks
      /\ NULL # "Busy" /\ NULL # "PrepareCover" /\ NULL # "Error"
  BY NullAssumption DEF StepCallbacks
<1>2. ASSUME NEW x \in Request, CarriesOn(r, e, x), r.low = <<x>>,
             Working1(r), r.storing = NULL, ~r.ResetAlarm
      PROVE  DriverInv(s) /\ Onward(Counted(r, q), s) /\ Requests(r, q, s)
  <2>1. q = x /\ q \in Request /\ q.cb \in StepCallbacks
    BY <1>2, OneLong DEF CarriesOn
  <2>2. CASE q.cb = "Error"
    <3>1. s = [[r EXCEPT !.down = "fatal"] EXCEPT !.low = Tail(@)]
      BY <1>1, <2>2 DEF Deliver
    <3>2. Counted(r, q) = r
      BY <2>2 DEF Counted
    <3> QED
      BY <1>2, <2>1, <3>1, <3>2, FatalDelivered DEF Onward
  <2>3. CASE q.cb # "Error"
    <3>1. s = [StepOf(r, q) EXCEPT !.low = Tail(@)]
      BY <1>1, <2>1, <2>3 DEF Deliver, StepOf
    <3> QED
      BY <1>2, <2>1, <2>3, <3>1, StepDelivered
  <2> QED
    BY <2>2, <2>3
<1>3. ASSUME NEW c \in Request, NEW x \in Request, CarriesOn(r, e, x),
             c.cb = NULL, c.op = "ClearCoverInterrupt", r.low = <<c, x>>,
             Working1(r), r.storing = NULL, ~r.ResetAlarm
      PROVE  DriverInv(s) /\ Onward(Counted(r, q), s) /\ Requests(r, q, s)
  <2>1. q = c
    BY <1>3, TwoLong
  <2>2. s = [r EXCEPT !.low = Tail(@)]
    <3>1. Head(r.low).cb = NULL
      BY <1>3, <2>1
    <3> QED
      BY <1>1, <3>1 DEF Deliver
  <2>3. /\ DriverInv(s) /\ SameCommands(r, s) /\ s.low = <<x>>
        /\ x.reply = NULL
    <3>1. /\ DriverInv(s) /\ SameCommands(r, s) /\ SameControl(r, s)
          /\ s.low = <<x>> /\ x.reply = NULL
      BY <1>3, <2>2, ClearDelivered
    <3> QED
      BY <3>1
  <2>4. Counted(r, q) = r
    BY <1>1, <1>3, <2>1 DEF Counted
  <2>5. Requests(r, q, s)
    BY <1>3, <2>3 DEF Requests
  <2> QED
    BY <2>3, <2>4, <2>5 DEF Onward
<1>4. ASSUME NEW x \in Request, x.cb = "PrepareCover", r.low = <<x>>,
             Resting(r), r.PreparingCover
      PROVE  DriverInv(s) /\ Onward(Counted(r, q), s) /\ Requests(r, q, s)
  <2>1. q = x
    BY <1>4, OneLong
  <2>2. s = [cbForPrepareCoverRegister(r, q.reply.value) EXCEPT !.low = Tail(@)]
    BY <1>1, <1>4, <2>1 DEF Deliver
  <2>3. Counted(r, q) = r
    BY <1>4, <2>1 DEF Counted
  <2> QED
    BY <1>4, <2>1, <2>2, <2>3, PollDelivered DEF Onward
<1> QED
  BY <1>2, <1>3, <1>4, HeadCases

-----------------------------------------------------------------------------
(* The other interrupts. *)

\* No request was answered, and none reads from a disc that was identified.
NewRequests(s) ==
    \A i \in DOMAIN s.low :
      /\ s.low[i].reply = NULL
      /\ s.low[i].op \notin {"UnencryptedRead", "OpenPartition"}

\* A command that nothing carried on goes on.
LEMMA IdleGoesOn ==
  ASSUME NEW r, ~r.PreparingCover, Unfinished(r),
         NEW s, GoesOn(r, s, <<>>), Plain(s, <<>>)
  PROVE  DriverInv(s) /\ SameCommands(r, s) /\ NewRequests(s)
<1>1. Left(s, <<>>) /\ ~s.PreparingCover /\ Unfinished(s) /\ SameCommands(r, s)
  BY DEF GoesOn, Keeps, Unfinished, SameCommands
<1>2. DriverInv(s)
  BY <1>1, LeftDriver DEF Polling
<1>3. s.low \in Seq(Request)
  BY <1>1 DEF Left, Driver
<1>4. NewRequests(s)
  BY <1>1, <1>3 DEF Left, Fresh, Plain, NewRequests
<1> QED
  BY <1>1, <1>2, <1>4

\* cbForNandClose and the like: the error code was stored.
LEMMA StoredEffect ==
  ASSUME NEW r, DriverInv(r), r.down = NULL, r.storing # NULL, ContextMax >= 3,
         NEW stored, stored = [r EXCEPT !.storing = NULL],
         NEW s,
         s = CASE r.storing = "cbForStoreErrorCode1" ->
                    Send(stored, "StopMotor", "Error")
               [] r.storing = "cbForStoreErrorCode2" ->
                    Send([stored EXCEPT !.ResumeFromHere = "NONE"],
                         "Reset", "Error")
               [] r.storing = "cbForStoreErrorCode3" ->
                    stateGoToRetry(stored)
  PROVE  DriverInv(s) /\ SameCommands(r, s) /\ NewRequests(s)
<1> DEFINE e == r.executing
           forgot == [stored EXCEPT !.ResumeFromHere = "NONE"]
<1>1. /\ r \in Driver /\ Blocks(r, e) /\ Cover(r, e) /\ Unfinished(r)
      /\ e # NULL /\ ~Waits(r, e) /\ ~r.PreparingCover /\ r.low = <<>>
      /\ ~r.ResetAlarm
  BY DriverCases DEF DriverInv, Working1, Resting
<1>2. /\ stored \in Driver /\ SameBlocks(r, stored) /\ SameCover(r, stored)
      /\ stored.low = <<>> /\ stored.executing = e /\ stored.storing = NULL
      /\ ~stored.ResetAlarm /\ stored.down = NULL
      /\ stored.Canceling = r.Canceling /\ stored.Breaking = r.Breaking
      /\ stored.Prepared = r.Prepared
  <2>1. stored \in Driver
    BY <1>1 DEF Driver
  <2>2. SameBlocks(r, stored)
    BY <1>1 DEF Driver, SameBlocks
  <2>3. SameCover(r, stored)
    BY <1>1 DEF Driver, SameCover
  <2>4. /\ stored.low = <<>> /\ stored.executing = e /\ stored.storing = NULL
        /\ ~stored.ResetAlarm /\ stored.down = NULL
    BY <1>1 DEF Driver
  <2>5. /\ stored.Canceling = r.Canceling /\ stored.Breaking = r.Breaking
        /\ stored.Prepared = r.Prepared
    BY <1>1 DEF Driver
  <2> QED
    BY <2>1, <2>2, <2>3, <2>4, <2>5
<1>3. Blocks(stored, e) /\ Cover(stored, e) /\ Queued(stored) = Queued(r)
  BY <1>1, <1>2, BlocksAlike, CoverAlike
<1>4. /\ ~Waits(stored, e) /\ Unfinished(stored) /\ SameCommands(r, stored)
      /\ ~stored.PreparingCover
  BY <1>1, <1>2, <1>3
     DEF Waits, Unfinished, SameCommands, SameBlocks, SameCover
<1>5. Runs(stored, <<>>)
  BY <1>1, <1>2, <1>3, <1>4 DEF Runs
<1>6. SUFFICES GoesOn(stored, s, <<>>) /\ Plain(s, <<>>)
  <2>1. ASSUME GoesOn(stored, s, <<>>), Plain(s, <<>>)
        PROVE  DriverInv(s) /\ SameCommands(stored, s) /\ NewRequests(s)
    BY <1>4, <2>1, IdleGoesOn
  <2> QED
    BY <1>4, <2>1 DEF SameCommands
<1>7. r.storing \in Storers
  BY <1>1 DEF Driver
<1>8. CASE r.storing = "cbForStoreErrorCode1"
  <2>1. s = Send(stored, "StopMotor", "Error")
    BY <1>8
  <2> QED
    BY <1>5, <2>1, SendGoesOn DEF Fits, Operations, StepCallbacks
<1>9. CASE r.storing = "cbForStoreErrorCode2"
  <2>1. s = Send(forgot, "Reset", "Error")
    BY <1>9
  <2>2. /\ forgot \in Driver /\ forgot.low = <<>>
        /\ SameBlocks(stored, forgot) /\ SameControl(stored, forgot)
        /\ SameCover(stored, forgot)
    <3>1. stored.ResumeFromHere = "NONE"
      BY <1>1, <1>2 DEF Cover, SameCover
    <3> HIDE DEF forgot
    <3>2. forgot = [stored EXCEPT !.ResumeFromHere = "NONE"]
      BY DEF forgot
    <3>3. /\ forgot \in Driver /\ forgot.low = stored.low
          /\ forgot.ResumeFromHere = "NONE"
          /\ SameBlocks(stored, forgot) /\ SameControl(stored, forgot)
          /\ forgot.MotorState = stored.MotorState
          /\ forgot.WaitingForCoverOpen = stored.WaitingForCoverOpen
          /\ forgot.WaitingForCoverClose = stored.WaitingForCoverClose
          /\ forgot.PreparingCover = stored.PreparingCover
          /\ forgot.CoverAlarm = stored.CoverAlarm
      BY <1>2, <3>2, ForgetPoint
    <3>4. SameCover(stored, forgot)
      BY <3>1, <3>3 DEF SameBlocks, SameCover
    <3> QED
      BY <1>2, <3>3, <3>4
  <2> HIDE DEF forgot
  <2>3. Runs(forgot, <<>>)
    BY <1>2, <1>5, <2>2, RunsAlike
  <2>4. GoesOn(forgot, s, <<>>) /\ Plain(s, <<>>)
    BY <2>1, <2>3, SendGoesOn DEF Fits, Operations, StepCallbacks
  <2> QED
    BY <2>2, <2>4, GoesOnAlike
<1>10. CASE r.storing = "cbForStoreErrorCode3"
  <2>1. s = stateGoToRetry(stored)
    BY <1>10
  <2> QED
    BY <1>5, <2>1, ErrorRequestGoesOn
<1> QED
  BY <1>7, <1>8, <1>9, <1>10 DEF Storers

\* ResetAlarmHandler: the drive is told what to do after its reset.
LEMMA ResetAlarmEffect ==
  ASSUME NEW r, DriverInv(r), r.down = NULL, r.ResetAlarm, ContextMax >= 3,
         NEW s, s = ResetAlarmHandler(r)
  PROVE  DriverInv(s) /\ SameCommands(r, s) /\ NewRequests(s)
<1> DEFINE e == r.executing
           off == [r EXCEPT !.ResetAlarm = FALSE]
<1>1. /\ r \in Driver /\ Blocks(r, e) /\ Cover(r, e) /\ Unfinished(r)
      /\ e # NULL /\ ~Waits(r, e) /\ ~r.PreparingCover /\ r.low = <<>>
      /\ r.storing = NULL
  BY DriverCases DEF DriverInv, Working1, Resting
<1>2. /\ off \in Driver /\ SameBlocks(r, off) /\ SameCover(r, off)
      /\ off.low = <<>> /\ off.executing = e /\ off.storing = NULL
      /\ ~off.ResetAlarm /\ off.down = NULL
      /\ off.Canceling = r.Canceling /\ off.Breaking = r.Breaking
      /\ off.Prepared = r.Prepared
  BY <1>1, ZenonT(60) DEF Driver, SameBlocks, SameCover
<1>3. s = IF SlowDisc THEN DownRotation(off) ELSE ReadDiskID(off)
  BY DEF ResetAlarmHandler
<1> HIDE DEF off
<1>4. Blocks(off, e) /\ Cover(off, e) /\ Queued(off) = Queued(r)
  BY <1>1, <1>2, BlocksAlike, CoverAlike
<1>5. /\ ~Waits(off, e) /\ Unfinished(off) /\ SameCommands(r, off)
      /\ ~off.PreparingCover
  BY <1>1, <1>2, <1>4
     DEF Waits, Unfinished, SameCommands, SameBlocks, SameCover
<1>6. Runs(off, <<>>)
  BY <1>1, <1>2, <1>4, <1>5 DEF Runs
<1>7. GoesOn(off, s, <<>>) /\ Plain(s, <<>>)
  BY <1>2, <1>3, <1>6, DownRotationGoesOn, ReadDiskIDGoesOn
<1>8. DriverInv(s) /\ SameCommands(off, s) /\ NewRequests(s)
  BY <1>5, <1>7, IdleGoesOn
<1> QED
  BY <1>5, <1>8 DEF SameCommands

\* CoverAlarmHandler: the register of the cover is asked for.
LEMMA CoverAlarmEffect ==
  ASSUME NEW r, DriverInv(r), r.down = NULL, r.CoverAlarm, ~r.PreparingCover,
         ContextMax >= 3,
         NEW s, s = Send([r EXCEPT !.PreparingCover = TRUE],
                         "PrepareCoverRegister", "PrepareCover")
  PROVE  DriverInv(s) /\ SameCommands(r, s) /\ NewRequests(s)
<1> DEFINE e == r.executing
           p == [r EXCEPT !.PreparingCover = TRUE]
           q == [op |-> "PrepareCoverRegister", cb |-> "PrepareCover",
                 block |-> e, transfer |-> NULL, reply |-> NULL]
<1>1. /\ r \in Driver /\ Blocks(r, e) /\ Cover(r, e) /\ Unfinished(r)
      /\ e = NULL \/ Waits(r, e)
  BY DEF DriverInv, Cover
<1>2. r.low = <<>> /\ r.storing = NULL /\ ~r.ResetAlarm
  BY <1>1, DriverCases DEF Working1, Resting
<1>3. /\ p \in Driver /\ SameBlocks(r, p) /\ SameControl(r, p) /\ p.low = <<>>
      /\ p.PreparingCover /\ p.CoverAlarm
      /\ p.WaitingForCoverOpen = r.WaitingForCoverOpen
      /\ p.WaitingForCoverClose = r.WaitingForCoverClose
      /\ p.ResumeFromHere = r.ResumeFromHere /\ p.MotorState = r.MotorState
  BY <1>1, <1>2, ZenonT(60) DEF Driver, SameBlocks, SameControl
<1>4. e \in Block \cup {NULL}
  BY <1>1 DEF Driver
<1>5. q \in Request
  BY <1>4 DEF Request, Operations
<1>6. s = [p EXCEPT !.low = <<q>>]
  <2>1. ~(Len(p.low) >= ContextMax)
    <3>1. Len(<<>>) = 0 /\ ContextMax \in Nat
      BY DVDAssumption
    <3> QED
      BY <1>3, <3>1
  <2>2. Append(p.low, q) = <<q>>
    BY <1>3, <1>5, OneLong
  <2>3. p.executing = e
    BY <1>3 DEF SameControl
  <2> QED
    BY <2>1, <2>2, <2>3 DEF Send
<1>7. /\ <<q>> \in Seq(Request) /\ Len(<<q>>) = 1 /\ <<q>>[1] = q
      /\ DOMAIN <<q>> = {1}
  BY <1>5, OneLong
<1>8. q.cb = "PrepareCover" /\ q.op = "PrepareCoverRegister" /\ q.reply = NULL
  OBVIOUS
<1> HIDE DEF p, q
<1>9. /\ s \in Driver /\ s.low = <<q>>
      /\ SameBlocks(p, s) /\ SameCover(p, s) /\ SameControl(p, s)
  BY <1>3, <1>6, <1>7, LowChanges
<1>10. SameBlocks(r, s) /\ SameControl(r, s)
  BY <1>3, <1>9 DEF SameBlocks, SameControl
<1>11. Blocks(s, e) /\ SameCommands(r, s) /\ Unfinished(s) /\ s.executing = e
  BY <1>1, <1>10, BlocksAlike, PolledCommands DEF SameControl
<1>12. Waits(s, e) <=> Waits(r, e)
  BY <1>10 DEF Waits, SameBlocks
<1>13. Cover(s, e)
  BY <1>1, <1>3, <1>9, <1>10, <1>12 DEF Cover, SameCover, SameBlocks
<1>14. Polling(s, <<q>>)
  BY <1>3, <1>5, <1>8, <1>9 DEF Polling, SameCover
<1>15. Continues(s, e, <<q>>)
  BY <1>1, <1>2, <1>9, <1>10, <1>12 DEF Continues, SameControl
<1>16. Unanswered(s) /\ NewRequests(s)
  BY <1>7, <1>8, <1>9 DEF Unanswered, NewRequests
<1>17. CancelsWork(s)
  BY <1>1, <1>10, <1>11, <1>12 DEF DriverInv, CancelsWork, SameControl
<1> QED
  BY <1>7, <1>9, <1>11, <1>13, <1>14, <1>15, <1>16, <1>17 DEF DriverInv

-----------------------------------------------------------------------------
(* The drive answers. *)

\* Everything the drive answers is a reply.
LEMMA RepliesAreReplies ==
  ASSUME disc \in Disc \cup {NULL}, sense \in Faults \cup {NULL},
         cvrint \in BOOLEAN, NEW op
  PROVE  Replies(op) \subseteq AnyReply
<1>1. Errors \subseteq AnyValue
  BY DEF Errors, AnyValue
<1>2. [CVR |-> disc = NULL, CVRINT |-> cvrint]
        \in [CVR : BOOLEAN, CVRINT : BOOLEAN]
  OBVIOUS
<1>3. disc \in AnyValue /\ NULL \in AnyValue
      /\ [CVR |-> disc = NULL, CVRINT |-> cvrint] \in AnyValue
  BY <1>2 DEF AnyValue
<1>4. \A v \in AnyValue, int \in {"TC"} \cup FailureTypes :
        Reply(int, v) \in AnyReply
  BY DEF Reply, AnyReply
<1>5. Answered(op) \subseteq AnyReply
  BY <1>1, <1>3, <1>4 DEF Answered
<1> QED
  BY <1>3, <1>4, <1>5 DEF Replies

\* The request at the head has an answer.
LEMMA AnsweredRequest ==
  ASSUME NEW q \in Request, NEW a \in AnyReply,
         NEW x, x = [q EXCEPT !.reply = a]
  PROVE  /\ x \in Request /\ x.reply = a
         /\ x.op = q.op /\ x.cb = q.cb /\ x.block = q.block
         /\ x.transfer = q.transfer
BY DEF Request

\* They differ in their replies.
AlikeRequest(x, q) ==
    /\ x.op = q.op /\ x.cb = q.cb
    /\ x.block = q.block /\ x.transfer = q.transfer

\* The first request is replaced.
Replaces(m, l, x) ==
    /\ DOMAIN m = DOMAIN l /\ Len(m) = Len(l)
    /\ \A i \in DOMAIN m : m[i] = IF i = 1 THEN x ELSE l[i]

\* What EXCEPT makes of the requests.
LEMMA ReplacedRequest ==
  ASSUME NEW l \in Seq(Request), l # <<>>, NEW x \in Request,
         NEW m, m = [l EXCEPT ![1] = x]
  PROVE  m \in Seq(Request) /\ Replaces(m, l, x)
<1>1. 1 \in 1 .. Len(l) /\ DOMAIN l = 1 .. Len(l)
  OBVIOUS
<1>2. m \in Seq(Request) /\ Len(m) = Len(l)
  BY <1>1, ExceptSeq
<1>3. DOMAIN m = DOMAIN l
  OBVIOUS
<1> QED
  BY <1>1, <1>2, <1>3 DEF Replaces

\* Nothing else changes.
LEMMA DriveAnswerEffect ==
  ASSUME NEW r, DriverInv(r), r.down = NULL, r.low # <<>>,
         NEW x \in Request, AlikeRequest(x, Head(r.low)),
         NEW m \in Seq(Request), Replaces(m, r.low, x),
         NEW s, s = [r EXCEPT !.low = m]
  PROVE  DriverInv(s) /\ SameCommands(r, s) /\ s.low = m
<1> DEFINE e == r.executing
           q == Head(r.low)
<1>1. /\ r \in Driver /\ Blocks(r, e) /\ Cover(r, e) /\ Unfinished(r)
      /\ Unanswered(r) /\ r.low \in Seq(Request)
  BY DEF DriverInv, Driver
<1>2. q \in Request /\ q = r.low[1]
  BY <1>1
<1>3. /\ x \in Request /\ x.op = q.op /\ x.cb = q.cb
      /\ x.block = q.block /\ x.transfer = q.transfer
  BY DEF AlikeRequest
<1>5. /\ DOMAIN m = DOMAIN r.low /\ Len(m) = Len(r.low)
      /\ \A i \in DOMAIN m : m[i] = IF i = 1 THEN x ELSE r.low[i]
  BY DEF Replaces
<1>6. /\ s \in Driver /\ s.low = m
      /\ SameBlocks(r, s) /\ SameCover(r, s) /\ SameControl(r, s)
  BY <1>1, LowChanges
<1>7. Blocks(s, e) /\ Cover(s, e) /\ s.executing = e
  BY <1>1, <1>6, BlocksAlike, CoverAlike DEF SameControl
<1>8. SameCommands(r, s) /\ Unfinished(s)
  BY <1>1, <1>6, PolledCommands
<1>9. Unanswered(s)
  BY <1>1, <1>5, <1>6 DEF Unanswered
<1>10. ASSUME NEW y \in Request, r.low = <<y>>
       PROVE  m = <<x>> /\ x.op = y.op /\ x.cb = y.cb /\ x.block = y.block
              /\ x.transfer = y.transfer
  <2>1. q = y
    BY <1>10, OneLong
  <2>2. Len(m) = 1 /\ m[1] = x
    BY <1>5, <1>10
  <2>3. m = <<x>>
    BY <1>3, <1>5, <2>2, OneLong, SeqEqual
  <2> QED
    BY <1>3, <2>1, <2>3
<1>11. ASSUME NEW c \in Request, NEW y \in Request, r.low = <<c, y>>
       PROVE  m = <<x, y>> /\ x.op = c.op /\ x.cb = c.cb
  <2>1. q = c
    BY <1>11, TwoLong
  <2>2. Len(m) = 2 /\ m[1] = x /\ m[2] = y
    BY <1>5, <1>11
  <2>3. <<x, y>> \in Seq(Request) /\ Len(<<x, y>>) = 2
        /\ <<x, y>>[1] = x /\ <<x, y>>[2] = y
    BY <1>3
  <2>4. \A i \in 1 .. 2 : m[i] = <<x, y>>[i]
    BY <2>2, <2>3
  <2>5. m = <<x, y>>
    BY <1>5, <2>2, <2>3, <2>4, SeqEqual
  <2> QED
    BY <1>3, <2>1, <2>5
<1>12. Waits(s, e) <=> Waits(r, e)
  BY <1>6 DEF Waits, SameBlocks
<1>13. ASSUME NEW y \in Request, CarriesOn(r, e, y), NEW z \in Request,
              z.op = y.op, z.cb = y.cb, z.block = y.block,
              z.transfer = y.transfer
       PROVE  CarriesOn(s, e, z)
  BY <1>6, <1>13 DEF CarriesOn, SameBlocks
<1>14. \E l \in Seq(Request) : Polling(s, l) /\ Continues(s, e, l)
  <2>1. CASE Resting(r) /\ r.PreparingCover
    <3>1. PICK y \in Request : /\ y.cb = "PrepareCover"
                               /\ y.op = "PrepareCoverRegister" /\ r.low = <<y>>
      BY <2>1 DEF Resting
    <3>2. s.low = <<x>> /\ x.cb = "PrepareCover"
          /\ x.op = "PrepareCoverRegister" /\ <<x>> \in Seq(Request)
      BY <1>3, <1>6, <1>10, <3>1, OneLong
    <3>3. Polling(s, <<x>>)
      BY <1>3, <1>6, <2>1, <3>2 DEF Polling, SameCover
    <3>4. Continues(s, e, <<x>>)
      BY <1>6, <1>12, <2>1, <3>2 DEF Continues, SameControl, Resting
    <3> QED
      BY <3>2, <3>3, <3>4
  <2>2. ASSUME Working1(r), NEW y \in Request, CarriesOn(r, e, y),
               r.storing = NULL, ~r.ResetAlarm,
               \/ r.low = <<y>>
               \/ \E c \in Request :
                    /\ c.cb = NULL /\ c.op = "ClearCoverInterrupt"
                    /\ r.low = <<c, y>>
        PROVE  Polling(s, <<>>) /\ Continues(s, e, <<>>)
    <3>1. OneStep(s, e, <<>>)
      <4>1. CASE r.low = <<y>>
        <5>1. s.low = Append(<<>>, x) /\ CarriesOn(s, e, x)
          BY <1>3, <1>6, <1>10, <1>13, <2>2, <4>1, OneLong
        <5> QED
          BY <1>3, <5>1 DEF OneStep
      <4>2. ASSUME NEW c \in Request, c.cb = NULL,
                   c.op = "ClearCoverInterrupt", r.low = <<c, y>>
            PROVE  OneStep(s, e, <<>>)
        <5>1. s.low = Append(Append(<<>>, x), y) /\ x.cb = NULL
              /\ x.op = "ClearCoverInterrupt"
          BY <1>3, <1>6, <1>11, <4>2, OneLong, TwoLong
        <5>2. CarriesOn(s, e, y)
          BY <1>13, <2>2
        <5> QED
          BY <1>3, <5>1, <5>2 DEF OneStep
      <4> QED
        BY <2>2, <4>1, <4>2
    <3>2. ~s.PreparingCover /\ e # NULL /\ ~Waits(s, e)
      BY <1>6, <1>12, <2>2 DEF Working1, SameCover
    <3>3. s.storing = NULL /\ ~s.ResetAlarm
      BY <1>6, <2>2 DEF SameControl
    <3> QED
      BY <3>1, <3>2, <3>3 DEF Polling, Continues
  <2>3. <<>> \in Seq(Request)
    OBVIOUS
  <2> QED
    BY <2>1, <2>2, <2>3, HeadCases
<1>15. CancelsWork(s)
  BY <1>6, <1>7, <1>12 DEF DriverInv, CancelsWork, SameControl
<1>16. DriverInv(s)
  BY <1>6, <1>7, <1>8, <1>9, <1>14, <1>15 DEF DriverInv
<1> QED
  BY <1>6, <1>8, <1>16

\* DriverInv is about these fields.
LEMMA DriverAlike ==
  ASSUME NEW r, DriverInv(r), NEW s \in Driver, s.low = r.low,
         SameBlocks(r, s), SameCover(r, s),
         s.executing = r.executing, s.Canceling = r.Canceling,
         s.ResetAlarm = r.ResetAlarm, s.storing = r.storing, s.down = r.down
  PROVE  DriverInv(s)
<1> DEFINE e == r.executing
<1>1. Blocks(r, e) /\ Unfinished(r) /\ Unanswered(r) /\ CancelsWork(r)
  BY DEF DriverInv
<1>2. Blocks(s, e)
  BY <1>1, BlocksAlike
<1>3. Unfinished(s) /\ Unanswered(s)
  BY <1>1 DEF Unfinished, Unanswered, SameBlocks
<1>4. Waits(s, e) <=> Waits(r, e)
  BY DEF Waits, SameBlocks
<1>5. CancelsWork(s)
  BY <1>1, <1>4 DEF CancelsWork
<1>6. ASSUME r.down = NULL
      PROVE  /\ Cover(s, e)
             /\ \E l \in Seq(Request) : Polling(s, l) /\ Continues(s, e, l)
  <2>1. Cover(r, e)
    BY <1>6 DEF DriverInv
  <2>2. PICK l \in Seq(Request) : Polling(r, l) /\ Continues(r, e, l)
    BY <1>6 DEF DriverInv
  <2>3. Polling(s, l)
    BY <2>2 DEF Polling, SameCover
  <2>4. OneStep(r, e, l) => OneStep(s, e, l)
    BY DEF OneStep, CarriesOn, SameBlocks
  <2>5. Continues(s, e, l)
    BY <1>4, <2>2, <2>4 DEF Continues
  <2> QED
    BY <2>1, <2>3, <2>5, CoverAlike
<1> QED
  BY <1>2, <1>3, <1>5, <1>6 DEF DriverInv

\* A thread that looks at the state goes to sleep.
LEMMA SleepEffect ==
  ASSUME NEW r, DriverInv(r), NEW t \in {"read", "cancel"} \X Block,
         NEW s, s = [r EXCEPT !.sleeping = @ \cup {t}]
  PROVE  DriverInv(s) /\ SameCommands(r, s) /\ s.low = r.low
<1>1. r \in Driver
  BY DEF DriverInv
<1>2. s \in Driver
  BY <1>1, ZenonT(60) DEF Driver
<1>3. SameBlocks(r, s)
  BY <1>1 DEF Driver, SameBlocks
<1>4. SameCover(r, s)
  BY <1>1 DEF Driver, SameCover
<1>5. SameControl(r, s) /\ s.low = r.low
  BY <1>1 DEF Driver, SameControl
<1>6. SameCommands(r, s)
  BY <1>3, <1>5, PolledCommands
<1>7. DriverInv(s)
  BY <1>2, <1>3, <1>4, <1>5, DriverAlike DEF SameControl
<1> QED
  BY <1>5, <1>6, <1>7

-----------------------------------------------------------------------------
(* Cancellation. *)

\* The driver works on what it worked on.
SameWork(r, s) ==
    /\ s.executing = r.executing /\ s.low = r.low
    /\ s.WaitingForCoverOpen = r.WaitingForCoverOpen
    /\ s.WaitingForCoverClose = r.WaitingForCoverClose
    /\ s.PreparingCover = r.PreparingCover /\ s.CoverAlarm = r.CoverAlarm
    /\ s.ResumeFromHere = r.ResumeFromHere /\ s.MotorState = r.MotorState
    /\ s.ResetAlarm = r.ResetAlarm /\ s.storing = r.storing
    /\ s.down = r.down
    /\ r.executing # NULL =>
         /\ s.state[r.executing] = r.state[r.executing]
         /\ s.length[r.executing] = r.length[r.executing]
         /\ s.transferTotal[r.executing] = r.transferTotal[r.executing]

\* The blocks change, but for that of the command that is executed.
LEMMA WorkAlike ==
  ASSUME NEW r, DriverInv(r), NEW s \in Driver, SameWork(r, s),
         Others(s, r.executing), CancelsWork(s)
  PROVE  DriverInv(s)
<1> DEFINE e == r.executing
<1>1. Blocks(r, e) /\ Unfinished(r) /\ Unanswered(r)
  BY DEF DriverInv
<1>2. s.executing = e /\ Blocks(s, e)
  BY <1>1 DEF Blocks, SameWork
<1>3. Unfinished(s) /\ Unanswered(s)
  BY <1>1 DEF Unfinished, Unanswered, SameWork
<1>4. Waits(s, e) <=> Waits(r, e)
  BY DEF Waits, SameWork
<1>5. ASSUME r.down = NULL
      PROVE  /\ Cover(s, e)
             /\ \E l \in Seq(Request) : Polling(s, l) /\ Continues(s, e, l)
  <2>1. Cover(r, e)
    BY <1>5 DEF DriverInv
  <2>2. PICK l \in Seq(Request) : Polling(r, l) /\ Continues(r, e, l)
    BY <1>5 DEF DriverInv
  <2>3. Polling(s, l)
    BY <2>2 DEF Polling, SameWork
  <2>4. OneStep(r, e, l) /\ e # NULL => OneStep(s, e, l)
    BY DEF OneStep, CarriesOn, SameWork
  <2>5. Continues(s, e, l)
    BY <1>4, <2>2, <2>4 DEF Continues, SameWork
  <2>6. Cover(s, e)
    <3>1. Waits(s, e) => s.state[e] = r.state[e]
      BY DEF Waits, SameWork
    <3> QED
      BY <1>4, <2>1, <3>1 DEF Cover, SameWork
  <2> QED
    BY <2>3, <2>5, <2>6
<1> QED
  BY <1>2, <1>3, <1>5 DEF DriverInv, SameWork

\* A command that was dropped from the queue or answered is not at work.
LEMMA CommandCases ==
  ASSUME NEW r, DriverInv(r), r.down = NULL, NEW b \in Block,
         r.answer[b] # "dropped" \/ b = r.executing
  PROVE  /\ r.state[b] = "WAITING" <=> b \in Queued(r)
         /\ r.state[b] \in Working <=> b = r.executing
         /\ r.state[b] \in Working \cup {"WAITING", "IDLE", "CANCELED"}
         /\ r.answer[b] = "due" => b \in Queued(r) \cup {r.executing}
<1>1. /\ r \in Driver /\ Others(r, r.executing)
      /\ r.executing # NULL => r.state[r.executing] \in Working
  BY DEF DriverInv, Blocks
<1>2. r.state[b] \in States
  BY <1>1 DEF Driver
<1>3. "WAITING" \notin Working
  BY DEF Working, CoverWaits
<1>4. States = Working \cup {"WAITING", "IDLE", "CANCELED"}
  BY DEF States, Working, CoverWaits
<1>5. b # NULL
  BY Names
<1>6. r.state[b] \in Working <=> b = r.executing
  BY <1>1, <1>5 DEF Others
<1>7. r.state[b] = "WAITING" <=> b \in Queued(r)
  <2>1. CASE b = r.executing
    BY <1>1, <1>3, <1>5, <2>1 DEF Others
  <2>2. CASE b # r.executing
    BY <1>1, <2>2 DEF Others
  <2> QED
    BY <2>1, <2>2
<1>8. r.answer[b] = "due" => b \in Queued(r) \cup {r.executing}
  BY <1>1 DEF Others
<1> QED
  BY <1>2, <1>4, <1>6, <1>7, <1>8

\* A cancellation is refused only when another one is under way: a command that
\* waits for the cover waits for it to be opened or to be closed.
LEMMA RefusedCanceling ==
  ASSUME NEW r, DriverInv(r), r.down = NULL, NEW b \in Block,
         r.answer[b] # "dropped" \/ b = r.executing, Refused(r, b)
  PROVE  b = r.executing /\ r.Canceling
<1>1. b = r.executing
  BY CommandCases DEF Refused, Working
<1>2. r.state[b] \in CoverWaits => r.CoverAlarm
  BY <1>1, Names DEF DriverInv, Cover, Waits
<1>3. r.CoverAlarm => r.WaitingForCoverOpen \/ r.WaitingForCoverClose
  BY DEF DriverInv, Cover
<1> QED
  BY <1>1, <1>2, <1>3 DEF Refused

\* What a cancellation comes to: nothing but a callback, ...
Called(r, s) ==
    /\ s.executing = r.executing /\ Queued(s) = Queued(r)
    /\ s.answer = r.answer /\ s.length = r.length
    /\ s.transferTotal = r.transferTotal
    /\ s.Canceling = r.Canceling /\ s.Breaking = r.Breaking
    /\ s.Prepared \in {r.Prepared, "yes"}
    /\ s.ResumeFromHere = r.ResumeFromHere /\ s.CoverAlarm = r.CoverAlarm
    /\ s.low = r.low

\* ... the end of a command that waited, ...
Withdrawn(r, s, b) ==
    /\ b \in Queued(r) /\ Queued(s) = Queued(r) \ {b}
    /\ s.executing = r.executing
    /\ s.answer[b] = "canceled"
    /\ \A x \in Block : x # b => s.answer[x] = r.answer[x]
    /\ s.length = r.length /\ s.transferTotal = r.transferTotal
    /\ s.Canceling = r.Canceling /\ s.Breaking = r.Breaking
    /\ s.Prepared \in {r.Prepared, "yes"}
    /\ s.low = r.low

\* ... a request to the driver, which works on the command, ...
Told(r, s, b) ==
    /\ b = r.executing /\ ~r.Canceling
    /\ s.executing = r.executing /\ Queued(s) = Queued(r)
    /\ s.answer = r.answer /\ s.length = r.length
    /\ s.transferTotal = r.transferTotal
    /\ s.Canceling /\ s.Prepared = r.Prepared
    /\ s.low = r.low

\* ... or the end of the command that waited for the cover.
Abandoned(r, s, b) ==
    /\ b = r.executing /\ ~r.Canceling
    /\ Ended(r, s, "canceled") /\ r.low = <<>> /\ NewRequests(s)

\* The callback alone is called.
LEMMA CalledEffect ==
  ASSUME NEW r, DriverInv(r), NEW cb, NEW s, s = r \/ s = CallCancelCallback(r, cb)
  PROVE  DriverInv(s) /\ Called(r, s)
<1>1. CASE s = r
  BY <1>1 DEF Called
<1>2. CASE s = CallCancelCallback(r, cb)
  <2>1. r \in Driver
    BY DEF DriverInv
  <2>2. /\ s \in Driver /\ SameBlocks(r, s) /\ SameCover(r, s)
        /\ SameElse(r, s) /\ s.executing = r.executing
        /\ s.Prepared \in {r.Prepared, "yes"} /\ Queued(s) = Queued(r)
    BY <1>2, <2>1, CallbackEffect
  <2>3. DriverInv(s)
    BY <2>2, DriverAlike DEF SameElse
  <2> QED
    BY <2>2, <2>3 DEF Called, SameBlocks, SameCover, SameElse
<1> QED
  BY <1>1, <1>2

\* The command is taken out of its queue and answered.
LEMMA WithdrawEffect ==
  ASSUME NEW r, DriverInv(r), r.down = NULL, NEW b \in Queued(r), NEW cb,
         NEW s, s = CancelWaiting(r, b, cb)
  PROVE  DriverInv(s) /\ Withdrawn(r, s, b)
<1> DEFINE e == r.executing
           d == Dequeue(r, b)
           a == Answer(d, b, "CANCELED", "canceled")
<1>1. r \in Driver /\ Others(r, e)
  BY DEF DriverInv, Blocks
<1>2. b \in Block /\ b # e /\ r.answer[b] = "due" /\ r.callback[b] # NULL
  BY <1>1, QueuedMembers, MembersAreBlocks DEF Others
<1>3. /\ Queues(d.WaitingQueue) /\ Queued(d) = Queued(r) \ {b}
      /\ d \in Driver
  <2> DEFINE m == [p \in Prio |-> RemoveFirst(r.WaitingQueue[p], b)]
  <2>1. Queues(m) /\ Members(m) = Members(r.WaitingQueue) \ {b}
    BY <1>1, DequeueQueue DEF Others
  <2>2. d = [r EXCEPT !.WaitingQueue = m]
    BY DEF Dequeue
  <2>3. m \in [Prio -> Seq(Block)]
    BY <2>1 DEF Queues
  <2> HIDE DEF m, d
  <2>4. d \in Driver
    BY <1>1, <2>2, <2>3 DEF Driver
  <2>5. d.WaitingQueue = m
    BY <1>1, <2>2 DEF Driver
  <2> QED
    BY <2>1, <2>4, <2>5, QueuedMembers
<1>4. /\ SameCover(r, d) /\ SameElse(r, d) /\ d.executing = e
      /\ d.answer = r.answer /\ d.Prepared = r.Prepared /\ d.state = r.state
  <2>1. SameCover(r, d) /\ d.executing = e
    BY <1>1 DEF Driver, Dequeue, SameCover
  <2>2. SameElse(r, d)
    BY <1>1 DEF Driver, Dequeue, SameElse
  <2> QED
    BY <1>1, <2>1, <2>2 DEF Driver, Dequeue
<1>5. s = CallCancelCallback(a, cb)
  BY DEF CancelWaiting
<1> HIDE DEF d
<1>6. /\ a \in Driver /\ SameElse(d, a)
      /\ a.state[b] = "CANCELED"
      /\ \A x \in Block : x # b => a.state[x] = d.state[x]
      /\ a.answer[b] = "canceled"
      /\ \A x \in Block : x # b => a.answer[x] = d.answer[x]
      /\ a.WaitingQueue = d.WaitingQueue /\ a.executing = d.executing
      /\ a.ResumeFromHere = d.ResumeFromHere
      /\ a.MotorState = d.MotorState /\ a.Prepared = d.Prepared
  <2>1. d.answer[b] = "due" /\ d.callback[b] # NULL /\ "CANCELED" \in States
    BY <1>2, <1>4 DEF SameElse, States
  <2> HIDE DEF a
  <2>2. a = Answer(d, b, "CANCELED", "canceled")
    BY DEF a
  <2> QED
    BY <1>2, <1>3, <2>1, <2>2, AnswerEffect
<1> HIDE DEF a
<1>7. Queued(a) = Queued(r) \ {b} /\ Queues(a.WaitingQueue)
  BY <1>3, <1>6, QueuedMembers
<1>8. SameElse(r, a) /\ a.executing = e /\ a.Prepared = r.Prepared
  BY <1>4, <1>6 DEF SameElse
<1>9. Others(a, e)
  <2>1. e \in Block \cup {NULL} /\ e \notin Queued(a)
    BY <1>1, <1>7 DEF Others
  <2>2. ASSUME NEW x \in Queued(a)
        PROVE  /\ a.state[x] = "WAITING" /\ a.answer[x] = "due"
               /\ a.callback[x] # NULL /\ a.transferTotal[x] = 0
    <3>1. x \in Block /\ x # b /\ x \in Queued(r)
      BY <1>1, <1>7, QueuedMembers, MembersAreBlocks DEF Others
    <3> QED
      BY <1>1, <1>4, <1>6, <1>8, <3>1 DEF Others, SameElse
  <2>3. ASSUME NEW x \in Block, x # e
        PROVE  /\ a.state[x] \notin Working
               /\ a.state[x] = "WAITING"
                    => x \in Queued(a) \/ a.answer[x] = "dropped"
               /\ a.answer[x] = "due" => x \in Queued(a)
    <3>1. CASE x = b
      BY <1>6, <3>1 DEF Working, CoverWaits
    <3>2. CASE x # b
      BY <1>1, <1>4, <1>6, <1>7, <2>3, <3>2 DEF Others
    <3> QED
      BY <3>1, <3>2
  <2>4. ASSUME e # NULL
        PROVE  /\ \/ a.answer[e] = "due" /\ a.callback[e] # NULL
                  \/ a.answer[e] = "dropped" /\ a.callback[e] = NULL
               /\ e \notin InquiryBlock => a.transferTotal[e] <= a.length[e]
    BY <1>1, <1>2, <1>4, <1>6, <1>8, <2>1, <2>4 DEF Others, SameElse
  <2> QED
    BY <1>7, <2>1, <2>2, <2>3, <2>4 DEF Others
<1>10. e # NULL => a.state[e] = r.state[e]
  BY <1>1, <1>2, <1>4, <1>6 DEF Driver
<1>11. DriverInv(a)
  <2>1. SameWork(r, a)
    BY <1>4, <1>6, <1>8, <1>10 DEF SameWork, SameElse, SameCover
  <2>2. CancelsWork(a)
    BY <1>8, <1>10 DEF DriverInv, CancelsWork, Waits, SameElse
  <2> QED
    BY <1>6, <1>9, <2>1, <2>2, WorkAlike
<1>12. DriverInv(s) /\ Called(a, s)
  BY <1>5, <1>11, CalledEffect
<1> QED
  BY <1>2, <1>4, <1>6, <1>7, <1>8, <1>12 DEF Called, Withdrawn, SameElse

\* One of the fields of a cancellation is set.
LEMMA CancelSet ==
  ASSUME NEW r \in Driver, NEW v \in BOOLEAN,
         NEW cb \in {"async", "sync", "reset", NULL}, NEW s,
         \/ s = [r EXCEPT !.Canceling = v]
         \/ s = [r EXCEPT !.CancelCallback = cb]
         \/ s = [r EXCEPT !.Breaking = v]
  PROVE  s \in Driver
<1>1. CASE s = [r EXCEPT !.Canceling = v]
  BY <1>1, ZenonT(60) DEF Driver
<1>2. CASE s = [r EXCEPT !.CancelCallback = cb]
  BY <1>2, ZenonT(60) DEF Driver
<1>3. CASE s = [r EXCEPT !.Breaking = v]
  BY <1>3 DEF Driver
<1> QED
  BY <1>1, <1>2, <1>3

\* The driver is told to cancel its command.
LEMMA ToldEffect ==
  ASSUME NEW r, DriverInv(r), r.down = NULL, NEW b, b = r.executing, b # NULL,
         ~Waits(r, b), ~r.Canceling, NEW cb \in {"async", "sync", "reset"},
         NEW s, s = CancelLater(r, b, cb)
  PROVE  DriverInv(s) /\ Told(r, s, b)
<1>1. r \in Driver /\ Others(r, b)
  BY DEF DriverInv, Blocks
<1> DEFINE v == r.Breaking \/ (r.state[b] = "BUSY" /\ b \notin InquiryBlock)
<1>2. s = [r EXCEPT !.Canceling = TRUE, !.CancelCallback = cb, !.Breaking = v]
  BY DEF CancelLater
<1>3. v \in BOOLEAN
  BY <1>1 DEF Driver
<1> HIDE DEF v
<1>4. s \in Driver
  <2> DEFINE c == [r EXCEPT !.Canceling = TRUE]
             k == [c EXCEPT !.CancelCallback = cb]
  <2>1. c \in Driver
    BY <1>1, CancelSet
  <2>2. s = [k EXCEPT !.Breaking = v]
    BY <1>2
  <2> HIDE DEF c
  <2>3. k \in Driver
    BY <2>1, CancelSet
  <2> HIDE DEF k
  <2> QED
    BY <1>3, <2>2, <2>3, CancelSet
<1>5. SameBlocks(r, s)
  BY <1>1, <1>2 DEF Driver, SameBlocks
<1>6. s.Canceling /\ s.executing = b /\ s.Prepared = r.Prepared
  BY <1>1, <1>2 DEF Driver
<1>7. SameWork(r, s)
  BY <1>1, <1>2 DEF Driver, SameWork
<1>8. Others(s, b) /\ Queued(s) = Queued(r)
  BY <1>1, <1>5, OthersAlike, BlocksAlike
<1>9. CancelsWork(s)
  BY <1>5, <1>6 DEF CancelsWork, Waits, SameBlocks
<1>10. DriverInv(s)
  BY <1>4, <1>7, <1>8, <1>9, WorkAlike
<1> QED
  BY <1>5, <1>6, <1>7, <1>8, <1>10 DEF Told, SameBlocks, SameWork

\* More is to be read of the command that is taken next.
LEMMA EndedUnfinished ==
  ASSUME NEW r, NEW s, NEW l, NEW result, Left(s, l), Ended(r, s, result),
         Others(r, r.executing)
  PROVE  Unfinished(s)
<1> DEFINE e == s.executing
<1>1. ASSUME e # NULL PROVE s.length[e] = 0 \/ s.transferTotal[e] < s.length[e]
  <2>1. s.transferTotal[e] = 0
    BY <1>1 DEF Ended, Others
  <2>2. s.length[e] \in Nat
    BY <1>1 DEF Left, Driver
  <2> QED
    BY <2>1, <2>2
<1> QED
  BY <1>1 DEF Unfinished

\* The command that waited for the cover ends, and the next one is taken.
LEMMA AbandonEffect ==
  ASSUME NEW r, DriverInv(r), r.down = NULL, NEW b, b = r.executing,
         Waits(r, b), ~r.PreparingCover, Queued(r) \cap InquiryBlock = {},
         ContextMax >= 3, NEW cb, NEW s, s = CancelInCoverWait(r, b, cb)
  PROVE  DriverInv(s) /\ Abandoned(r, s, b)
<1> DEFINE alarm == r.CoverAlarm /\ ~r.WaitingForCoverOpen
           left == [r EXCEPT !.CoverAlarm = alarm,
                             !.WaitingForCoverOpen = FALSE,
                             !.ResumeFromHere = r.state[b]]
           a == Answer(left, b, "CANCELED", "canceled")
<1>1. /\ r \in Driver /\ Others(r, b) /\ Cover(r, b) /\ b # NULL
      /\ r.state[b] \in CoverWaits /\ ~r.Canceling
  BY DEF DriverInv, Blocks, Waits, CancelsWork
<1>2. r.low = <<>> /\ r.storing = NULL /\ ~r.ResetAlarm
  BY DriverCases DEF Working1, Resting
<1>3. s = stateReady(CallCancelCallback(a, cb))
  BY DEF CancelInCoverWait
<1>4. alarm \in BOOLEAN /\ r.state[b] \in Points
  BY <1>1 DEF Driver, Points
<1>5. alarm <=> r.WaitingForCoverClose
  BY <1>1 DEF Cover
<1> HIDE DEF alarm
<1>6. left \in Driver
  BY <1>1, <1>4 DEF Driver
<1>7. SameBlocks(r, left)
  BY <1>1 DEF Driver, SameBlocks
<1>8. SameControl(r, left) /\ left.low = <<>>
  BY <1>1, <1>2 DEF Driver, SameControl
<1>9. /\ left.CoverAlarm = alarm /\ left.WaitingForCoverOpen = FALSE
      /\ left.WaitingForCoverClose = r.WaitingForCoverClose
      /\ left.PreparingCover = r.PreparingCover
      /\ left.ResumeFromHere = r.state[b] /\ left.MotorState = r.MotorState
  BY <1>1 DEF Driver
<1> HIDE DEF left
<1>10. Others(left, b) /\ Queued(left) = Queued(r)
  BY <1>1, <1>7, OthersAlike, BlocksAlike
<1>11. Cover(left, NULL)
  <2>1. r.WaitingForCoverClose => r.state[b] \in Resumable
    BY <1>1 DEF Cover
  <2>2. r.state[b] # "NONE"
    BY <1>1 DEF CoverWaits
  <2>3. ~Waits(left, NULL)
    BY DEF Waits
  <2> QED
    BY <1>5, <1>9, <2>1, <2>2, <2>3 DEF Cover
<1>12. Ending(left, <<>>)
  <2>1. <<>> \in Seq(Request) /\ Len(<<>>) <= 1
    OBVIOUS
  <2>2. /\ left.down = NULL /\ ~left.Canceling /\ left.executing = b
        /\ left.storing = NULL /\ ~left.ResetAlarm
    BY <1>1, <1>2, <1>8 DEF SameControl
  <2> QED
    BY <1>1, <1>6, <1>8, <1>10, <1>11, <2>1, <2>2 DEF Ending
<1>13. Left(s, <<>>) /\ Plain(s, <<>>) /\ Ended(left, s, "canceled")
  <2>1. left.executing = b /\ ~left.Canceling
    BY <1>1, <1>8 DEF SameControl
  <2> DEFINE c == CallCancelCallback(a, cb)
  <2>2. \E k : c = CallCancelCallback(a, k)
    OBVIOUS
  <2>3. a = Answer(left, left.executing, "CANCELED", "canceled")
    BY <2>1
  <2>4. s = stateReady(c)
    BY <1>3
  <2> HIDE DEF a, c
  <2> QED
    BY <1>12, <2>1, <2>2, <2>3, <2>4, EndEffect
<1>14. Ended(r, s, "canceled")
  BY <1>7, <1>8, <1>9, <1>10, <1>13 DEF Ended, SameBlocks, SameControl
<1>15. Unfinished(s)
  BY <1>1, <1>13, <1>14, EndedUnfinished
<1>16. DriverInv(s)
  <2>1. Polling(s, <<>>)
    BY <1>14 DEF Ended, Polling
  <2> QED
    BY <1>13, <1>15, <2>1, LeftDriver
<1>17. NewRequests(s)
  <2>1. s.low \in Seq(Request)
    BY <1>13 DEF Left, Driver
  <2> QED
    BY <1>13, <2>1 DEF Left, Fresh, Plain, NewRequests
<1> QED
  BY <1>1, <1>2, <1>14, <1>16, <1>17 DEF Abandoned

\* CancelAsync.
LEMMA CancelEffect ==
  ASSUME NEW r, DriverInv(r), r.down = NULL, NEW b \in Block,
         r.answer[b] # "dropped" \/ b = r.executing,
         ~(r.PreparingCover /\ r.state[b] \in CoverWaits),
         Queued(r) \cap InquiryBlock = {}, ContextMax >= 3,
         NEW cb \in {"async", "sync", "reset"},
         NEW s, s = CancelAsync(r, b, cb)
  PROVE  /\ DriverInv(s)
         /\ \/ /\ Called(r, s)
               /\ r.answer[b] = "due" => b = r.executing /\ r.Canceling
               /\ Refused(r, b) \/ r.state[b] \in {"IDLE", "CANCELED"}
            \/ Withdrawn(r, s, b) \/ Told(r, s, b) \/ Abandoned(r, s, b)
<1>1. /\ r.state[b] = "WAITING" <=> b \in Queued(r)
      /\ r.state[b] \in Working <=> b = r.executing
      /\ r.state[b] \in Working \cup {"WAITING", "IDLE", "CANCELED"}
      /\ r.answer[b] = "due" => b \in Queued(r) \cup {r.executing}
  BY CommandCases
<1>2. CASE Refused(r, b)
  <2>0. r.state[b] \notin {"IDLE", "CANCELED", "WAITING"}
    BY <1>2 DEF Refused, CoverWaits
  <2>1. s = r
    BY <1>2, <2>0 DEF CancelAsync
  <2>2. b = r.executing /\ r.Canceling
    BY <1>2, RefusedCanceling
  <2> QED
    BY <1>2, <2>1, <2>2, CalledEffect
<1>3. CASE r.state[b] \in {"IDLE", "CANCELED"}
  <2>1. ~Refused(r, b) /\ r.state[b] \notin Working \cup {"WAITING"}
    BY <1>3 DEF Refused, CoverWaits, Working
  <2>2. s = CallCancelCallback(r, cb)
    BY <1>3, <2>1 DEF CancelAsync, Working
  <2>3. r.answer[b] # "due"
    BY <1>1, <2>1
  <2> QED
    BY <1>3, <2>2, <2>3, CalledEffect
<1>4. CASE r.state[b] = "WAITING"
  <2>1. s = CancelWaiting(r, b, cb)
    BY <1>4 DEF CancelAsync, Refused, CoverWaits
  <2> QED
    BY <1>1, <1>4, <2>1, WithdrawEffect
<1>5. CASE ~Refused(r, b) /\ r.state[b] \in {"BUSY", "COVER_CLOSED"}
  <2>1. s = CancelLater(r, b, cb)
    BY <1>5 DEF CancelAsync, CoverWaits
  <2>2. b = r.executing /\ b # NULL /\ ~r.Canceling /\ ~Waits(r, b)
    BY <1>1, <1>5, Names DEF Working, Refused, Waits, CoverWaits
  <2> QED
    BY <2>1, <2>2, ToldEffect
<1>6. CASE ~Refused(r, b) /\ r.state[b] \in CoverWaits
  <2>1. s = CancelInCoverWait(r, b, cb)
    BY <1>6 DEF CancelAsync, CoverWaits
  <2>2. b = r.executing /\ Waits(r, b) /\ ~r.PreparingCover
    BY <1>1, <1>6, Names DEF Working, Waits
  <2> QED
    BY <2>1, <2>2, AbandonEffect
<1> QED
  BY <1>1, <1>2, <1>3, <1>4, <1>5, <1>6 DEF Working

-----------------------------------------------------------------------------
(* __DVDPrepareResetAsync and issueCommand. *)

\* One of the fields of a command is set.
LEMMA CommandSet ==
  ASSUME NEW r \in Driver, NEW s,
         \/ \E v \in [Block -> Nat] : s = [r EXCEPT !.length = v]
         \/ \E v \in [Block -> Nat] : s = [r EXCEPT !.transferTotal = v]
         \/ \E v \in [Block -> {"async", "sync", NULL}] :
              s = [r EXCEPT !.callback = v]
         \/ \E v \in [Block -> {"none", "due", "good", "canceled", "dropped"}] :
              s = [r EXCEPT !.answer = v]
         \/ \E v \in [Block -> States] : s = [r EXCEPT !.state = v]
         \/ \E v \in [Prio -> Seq(Block)] : s = [r EXCEPT !.WaitingQueue = v]
         \/ \E v \in {"no", "wanted", "yes"} : s = [r EXCEPT !.Prepared = v]
  PROVE  s \in Driver
<1>1. ASSUME NEW v \in [Block -> Nat], s = [r EXCEPT !.length = v]
      PROVE  s \in Driver
  BY <1>1, ZenonT(60) DEF Driver
<1>2. ASSUME NEW v \in [Block -> Nat], s = [r EXCEPT !.transferTotal = v]
      PROVE  s \in Driver
  BY <1>2, ZenonT(60) DEF Driver
<1>3. ASSUME NEW v \in [Block -> {"async", "sync", NULL}],
             s = [r EXCEPT !.callback = v]
      PROVE  s \in Driver
  BY <1>3, ZenonT(60) DEF Driver
<1>4. ASSUME NEW v \in [Block -> {"none", "due", "good", "canceled", "dropped"}],
             s = [r EXCEPT !.answer = v]
      PROVE  s \in Driver
  BY <1>4, ZenonT(60) DEF Driver
<1>5. ASSUME NEW v \in [Block -> States], s = [r EXCEPT !.state = v]
      PROVE  s \in Driver
  BY <1>5, ZenonT(60) DEF Driver
<1>6. ASSUME NEW v \in [Prio -> Seq(Block)], s = [r EXCEPT !.WaitingQueue = v]
      PROVE  s \in Driver
  BY <1>6, ZenonT(60) DEF Driver
<1>7. ASSUME NEW v \in {"no", "wanted", "yes"}, s = [r EXCEPT !.Prepared = v]
      PROVE  s \in Driver
  BY <1>7, ZenonT(60) DEF Driver
<1> QED
  BY <1>1, <1>2, <1>3, <1>4, <1>5, <1>6, <1>7

\* The block is in a queue.
Pushed(r, s, b, n) ==
    /\ DriverInv(s) /\ SameWork(r, s) /\ Queued(s) = Queued(r) \cup {b}
    /\ b \notin Queued(r) /\ b # r.executing
    /\ s.length = [r.length EXCEPT ![b] = n]
    /\ s.transferTotal = [r.transferTotal EXCEPT ![b] = 0]
    /\ s.answer = [r.answer EXCEPT ![b] = "due"]
    /\ s.Canceling = r.Canceling /\ s.Breaking = r.Breaking
    /\ s.Prepared = r.Prepared

\* A command is put into a queue.
LEMMA PushEffect ==
  ASSUME NEW r, DriverInv(r), NEW b \in Block, r.answer[b] \notin {"due", "dropped"},
         NEW n \in Nat, NEW p \in Prio, NEW cb \in {"async", "sync"},
         NEW s, s = [r EXCEPT !.length[b] = n, !.transferTotal[b] = 0,
                              !.callback[b] = cb, !.answer[b] = "due",
                              !.state[b] = "WAITING",
                              !.WaitingQueue[p] = Append(@, b)]
  PROVE  Pushed(r, s, b, n)
<1> DEFINE e == r.executing
           L == [r.length EXCEPT ![b] = n]
           T == [r.transferTotal EXCEPT ![b] = 0]
           C == [r.callback EXCEPT ![b] = cb]
           A == [r.answer EXCEPT ![b] = "due"]
           S == [r.state EXCEPT ![b] = "WAITING"]
           W == [r.WaitingQueue EXCEPT ![p] = Append(@, b)]
           r1 == [r EXCEPT !.length = L]
           r2 == [r1 EXCEPT !.transferTotal = T]
           r3 == [r2 EXCEPT !.callback = C]
           r4 == [r3 EXCEPT !.answer = A]
           r5 == [r4 EXCEPT !.state = S]
<1>1. r \in Driver /\ Others(r, e)
  BY DEF DriverInv, Blocks
<1>2. b # e /\ b \notin Queued(r)
  BY <1>1, Names DEF Others
<1>3. Queues(W) /\ Members(W) = Queued(r) \cup {b}
  BY <1>1, <1>2, PushQueue, QueuedMembers DEF Others
<1>4. /\ L \in [Block -> Nat] /\ T \in [Block -> Nat]
      /\ C \in [Block -> {"async", "sync", NULL}]
      /\ A \in [Block -> {"none", "due", "good", "canceled", "dropped"}]
      /\ S \in [Block -> States] /\ W \in [Prio -> Seq(Block)]
  <2>1. /\ r.length \in [Block -> Nat] /\ r.transferTotal \in [Block -> Nat]
        /\ r.callback \in [Block -> {"async", "sync", NULL}]
        /\ r.answer \in [Block -> {"none", "due", "good", "canceled", "dropped"}]
        /\ r.state \in [Block -> States]
    BY <1>1 DEF Driver
  <2>2. "WAITING" \in States
    BY DEF States
  <2> QED
    BY <1>3, <2>1, <2>2 DEF Queues
<1>5. s = [r EXCEPT !.length = L, !.transferTotal = T, !.callback = C,
                    !.answer = A, !.state = S, !.WaitingQueue = W]
  OBVIOUS
<1>6. /\ \A x \in Block : x # b => /\ L[x] = r.length[x]
                                   /\ T[x] = r.transferTotal[x]
                                   /\ C[x] = r.callback[x]
                                   /\ A[x] = r.answer[x] /\ S[x] = r.state[x]
      /\ T[b] = 0 /\ C[b] = cb /\ A[b] = "due" /\ S[b] = "WAITING"
  BY <1>1 DEF Driver
<1> HIDE DEF L, T, C, A, S, W
<1>7. s \in Driver
  <2>1. s = [r5 EXCEPT !.WaitingQueue = W]
    BY <1>5
  <2>2. r1 \in Driver
    BY <1>1, <1>4, CommandSet
  <2> HIDE DEF r1
  <2>3. r2 \in Driver
    BY <1>4, <2>2, CommandSet
  <2> HIDE DEF r2
  <2>4. r3 \in Driver
    BY <1>4, <2>3, CommandSet
  <2> HIDE DEF r3
  <2>5. r4 \in Driver
    BY <1>4, <2>4, CommandSet
  <2> HIDE DEF r4
  <2>6. r5 \in Driver
    BY <1>4, <2>5, CommandSet
  <2> HIDE DEF r5
  <2> QED
    BY <1>4, <2>1, <2>6, CommandSet
<1>8. /\ s.length = L /\ s.transferTotal = T /\ s.callback = C
      /\ s.answer = A /\ s.state = S /\ s.WaitingQueue = W
  BY <1>1, <1>5 DEF Driver
<1>9. /\ s.executing = e /\ s.low = r.low
      /\ s.WaitingForCoverOpen = r.WaitingForCoverOpen
      /\ s.WaitingForCoverClose = r.WaitingForCoverClose
      /\ s.PreparingCover = r.PreparingCover /\ s.CoverAlarm = r.CoverAlarm
      /\ s.ResumeFromHere = r.ResumeFromHere /\ s.MotorState = r.MotorState
      /\ s.ResetAlarm = r.ResetAlarm /\ s.storing = r.storing
      /\ s.down = r.down
  BY <1>1, <1>5 DEF Driver
<1>10. s.Canceling = r.Canceling /\ s.Breaking = r.Breaking
       /\ s.Prepared = r.Prepared
  BY <1>1, <1>5 DEF Driver
<1>11. e # NULL => e \in Block
  BY <1>1 DEF Driver
<1>12. SameWork(r, s)
  BY <1>2, <1>6, <1>8, <1>9, <1>11 DEF SameWork
<1>13. Queued(s) = Queued(r) \cup {b}
  BY <1>3, <1>8, QueuedMembers
<1>14. Others(s, e)
  <2>1. Queues(s.WaitingQueue) /\ e \in Block \cup {NULL} /\ e \notin Queued(s)
    BY <1>1, <1>2, <1>3, <1>8, <1>13 DEF Others
  <2>2. ASSUME NEW x \in Queued(s)
        PROVE  /\ s.state[x] = "WAITING" /\ s.answer[x] = "due"
               /\ s.callback[x] # NULL /\ s.transferTotal[x] = 0
    <3>1. CASE x = b
      BY <1>6, <1>8, <3>1, Names
    <3>2. CASE x # b
      <4>1. x \in Queued(r) /\ x \in Block
        BY <1>1, <1>13, <3>2, QueuedMembers, MembersAreBlocks DEF Others
      <4> QED
        BY <1>1, <1>6, <1>8, <3>2, <4>1 DEF Others
    <3> QED
      BY <3>1, <3>2
  <2>3. ASSUME NEW x \in Block, x # e
        PROVE  /\ s.state[x] \notin Working
               /\ s.state[x] = "WAITING"
                    => x \in Queued(s) \/ s.answer[x] = "dropped"
               /\ s.answer[x] = "due" => x \in Queued(s)
    <3>1. CASE x = b
      BY <1>6, <1>8, <1>13, <3>1 DEF Working, CoverWaits
    <3>2. CASE x # b
      BY <1>1, <1>6, <1>8, <1>13, <2>3, <3>2 DEF Others
    <3> QED
      BY <3>1, <3>2
  <2>4. ASSUME e # NULL
        PROVE  /\ \/ s.answer[e] = "due" /\ s.callback[e] # NULL
                  \/ s.answer[e] = "dropped" /\ s.callback[e] = NULL
               /\ e \notin InquiryBlock => s.transferTotal[e] <= s.length[e]
    BY <1>1, <1>2, <1>6, <1>8, <1>11, <2>4 DEF Others
  <2> QED
    BY <2>1, <2>2, <2>3, <2>4 DEF Others
<1>15. CancelsWork(s)
  BY <1>9, <1>10, <1>12 DEF DriverInv, CancelsWork, Waits, SameWork
<1>16. DriverInv(s)
  BY <1>7, <1>12, <1>14, <1>15, WorkAlike
<1> QED
  BY <1>2, <1>8, <1>10, <1>12, <1>13, <1>16 DEF Pushed, L, T, A

\* The requests that were there are there, or there are new ones.
Adds(r, s) ==
    \A i \in DOMAIN s.low :
      \/ i \in DOMAIN r.low /\ s.low[i] = r.low[i]
      \/ /\ s.low[i].reply = NULL
         /\ s.low[i].op \notin {"UnencryptedRead", "OpenPartition"}

\* A driver that was left has sent requests of its own after those of l.
LEMMA LeftAdds ==
  ASSUME NEW r, NEW s, NEW l, Left(s, l), Plain(s, l), l = r.low
  PROVE  Adds(r, s)
<1>1. l \in Seq(Request) /\ s.low \in Seq(Request)
  BY DEF Left, Driver
<1> DEFINE e == s.executing
<1>2. s.low = l \/ OneStep(s, e, l)
  BY DEF Left, Continues
<1>3. ASSUME NEW x \in Request
      PROVE  /\ Append(l, x) \in Seq(Request)
             /\ \A i \in DOMAIN l : Append(l, x)[i] = l[i]
             /\ Len(Append(l, x)) = Len(l) + 1
  BY <1>1, AppendProperties
<1>4. ASSUME NEW i \in DOMAIN l PROVE s.low[i] = l[i]
  <2>1. CASE s.low = l
    BY <2>1
  <2>2. ASSUME NEW q \in Request, s.low = Append(l, q)
        PROVE  s.low[i] = l[i]
    BY <1>3, <2>2
  <2>3. ASSUME NEW c \in Request, NEW q \in Request,
               s.low = Append(Append(l, c), q)
        PROVE  s.low[i] = l[i]
    <3> DEFINE m == Append(l, c)
    <3>1. /\ m \in Seq(Request) /\ m[i] = l[i] /\ Len(m) = Len(l) + 1
      BY <1>3
    <3> HIDE DEF m
    <3>2. i \in DOMAIN m
      BY <1>1, <3>1
    <3>3. Append(m, q)[i] = m[i]
      BY <3>1, <3>2, AppendProperties
    <3> QED
      BY <2>3, <3>1, <3>3 DEF m
  <2> QED
    BY <1>2, <2>1, <2>2, <2>3 DEF OneStep
<1>5. ASSUME NEW i \in DOMAIN s.low, i \notin DOMAIN l
      PROVE  /\ s.low[i].reply = NULL
             /\ s.low[i].op \notin {"UnencryptedRead", "OpenPartition"}
  <2>1. i > Len(l)
    BY <1>1, <1>5
  <2> QED
    BY <2>1 DEF Left, Fresh, Plain
<1> QED
  BY <1>4, <1>5 DEF Adds

\* A command is issued.
Issued(r, s, b, n) ==
    /\ b \notin Queued(r) /\ b # r.executing
    /\ s.length = [r.length EXCEPT ![b] = n]
    /\ s.transferTotal = [r.transferTotal EXCEPT ![b] = 0]
    /\ s.Canceling = r.Canceling /\ s.Breaking = r.Breaking
    /\ s.Prepared = r.Prepared
    /\ \/ /\ r.executing = NULL /\ s.executing \in Queued(r) \cup {b, NULL}
          /\ Queued(s) \subseteq Queued(r) \cup {b}
          /\ Queued(s) # Queued(r) \cup {b}
       \/ /\ r.executing # NULL /\ s.executing = r.executing
          /\ Queued(s) = Queued(r) \cup {b} /\ s.low = r.low
    /\ \A x \in Block :
         \/ s.answer[x] = IF x = b THEN "due" ELSE r.answer[x]
         \/ /\ x \in Queued(r) \cup {b} /\ x \notin InquiryBlock
            /\ s.length[x] = 0 /\ s.answer[x] = "good"
    /\ Adds(r, s)

\* issueCommand.
LEMMA IssueEffect ==
  ASSUME NEW r, DriverInv(r), r.down = NULL, NEW b \in Block, NEW n \in Nat,
         (Queued(r) \cup {b}) \cap InquiryBlock = {} \/ r.ResumeFromHere = "NONE",
         ContextMax >= 3, NEW push, Pushed(r, push, b, n),
         NEW s, s = IF r.executing = NULL THEN stateReady(push) ELSE push
  PROVE  DriverInv(s) /\ Issued(r, s, b, n)
<1>1. /\ DriverInv(push) /\ SameWork(r, push)
      /\ Queued(push) = Queued(r) \cup {b}
      /\ b \notin Queued(r) /\ b # r.executing
      /\ push.length = [r.length EXCEPT ![b] = n]
      /\ push.transferTotal = [r.transferTotal EXCEPT ![b] = 0]
      /\ push.answer = [r.answer EXCEPT ![b] = "due"]
      /\ push.Canceling = r.Canceling /\ push.Breaking = r.Breaking
      /\ push.Prepared = r.Prepared
  BY DEF Pushed
<1>2. \A x \in Block : push.answer[x] = IF x = b THEN "due" ELSE r.answer[x]
  <2>1. DOMAIN r.answer = Block
    BY DEF DriverInv, Driver
  <2> QED
    BY <1>1, <2>1
<1>3. CASE r.executing # NULL
  <2>1. s = push
    BY <1>3
  <2>2. s.executing = r.executing /\ s.low = r.low
    BY <1>1, <2>1 DEF SameWork
  <2>3. Adds(r, s)
    BY <2>2 DEF Adds
  <2> HIDE <2>1
  <2> QED
    BY <1>1, <1>2, <1>3, <2>1, <2>2, <2>3 DEF Issued
<1>4. CASE r.executing = NULL
  <2> DEFINE l == r.low
  <2>1. s = stateReady(push)
    BY <1>4
  <2>2. /\ push \in Driver /\ Others(push, NULL) /\ Cover(push, NULL)
        /\ push.executing = NULL /\ push.down = NULL /\ ~push.Canceling
        /\ push.low = l /\ push.PreparingCover = r.PreparingCover
        /\ push.ResumeFromHere = r.ResumeFromHere
    BY <1>1, <1>4 DEF DriverInv, Blocks, SameWork, CancelsWork
  <2>3. Resting(r)
    BY <1>4, DriverCases DEF Working1
  <2>4. /\ push.storing = NULL /\ ~push.ResetAlarm /\ Polling(r, l)
    BY <1>1, <2>3 DEF Resting, SameWork, Polling
  <2>5. l \in Seq(Request) /\ Len(l) <= 1
    <3>1. CASE l = <<>>
      BY <3>1
    <3>2. ASSUME NEW q \in Request, l = <<q>>
          PROVE  l \in Seq(Request) /\ Len(l) <= 1
      <4>1. <<q>> \in Seq(Request) /\ Len(<<q>>) = 1
        BY OneLong
      <4> QED
        BY <3>2, <4>1
    <3> QED
      BY <2>4, <3>1, <3>2 DEF Polling
  <2> HIDE DEF l
  <2>6. MayTake(push, l)
    BY <1>1, <2>2, <2>4, <2>5 DEF MayTake
  <2>7. /\ Left(s, l) /\ Plain(s, l)
        /\ Serves(push, s) /\ s.executing \in Queued(push) \cup {NULL}
        /\ Queued(push) # {} => Queued(s) # Queued(push)
    BY <2>1, <2>6, ReadyEffect
  <2> HIDE <2>1
  <2>8. Unfinished(s)
    <3>1. ASSUME NEW e, e = s.executing, e # NULL
          PROVE  s.length[e] = 0 \/ s.transferTotal[e] < s.length[e]
      <4>1. s.transferTotal[e] = 0
        <5>1. e \in Queued(push) /\ s.transferTotal = push.transferTotal
          BY <2>7, <3>1 DEF Serves
        <5>2. push.transferTotal[e] = 0
          BY <2>2, <5>1 DEF Others
        <5> QED
          BY <5>1, <5>2
      <4>2. s.length[e] \in Nat
        BY <2>7, <3>1 DEF Left, Driver
      <4> QED
        BY <4>1, <4>2
    <3> QED
      BY <3>1 DEF Unfinished
  <2>9. Polling(s, l)
    BY <2>2, <2>4, <2>7 DEF Polling, Serves
  <2>10. DriverInv(s)
    BY <2>7, <2>8, <2>9, LeftDriver
  <2>11. Adds(r, s)
    BY <2>7, LeftAdds DEF l
  <2>12. /\ s.length = [r.length EXCEPT ![b] = n]
         /\ s.transferTotal = [r.transferTotal EXCEPT ![b] = 0]
         /\ s.Canceling = r.Canceling /\ s.Breaking = r.Breaking
         /\ s.Prepared = r.Prepared
    BY <1>1, <2>7 DEF Serves
  <2>13. /\ s.executing \in Queued(r) \cup {b, NULL}
         /\ Queued(s) \subseteq Queued(r) \cup {b}
         /\ Queued(s) # Queued(r) \cup {b}
    BY <1>1, <2>7 DEF Serves
  <2>14. ASSUME NEW x \in Block
         PROVE  \/ s.answer[x] = IF x = b THEN "due" ELSE r.answer[x]
                \/ /\ x \in Queued(r) \cup {b} /\ x \notin InquiryBlock
                   /\ s.length[x] = 0 /\ s.answer[x] = "good"
    <3>1. CASE s.answer[x] = push.answer[x]
      BY <1>2, <3>1
    <3>2. CASE s.answer[x] # push.answer[x]
      <4>1. /\ x \in Queued(push) /\ x \notin InquiryBlock
            /\ push.length[x] = 0 /\ s.answer[x] = "good"
            /\ s.length = push.length
        BY <2>7, <3>2 DEF Serves
      <4> QED
        BY <1>1, <4>1
    <3> QED
      BY <3>1, <3>2
  <2> QED
    BY <1>1, <1>4, <2>10, <2>11, <2>12, <2>13, <2>14 DEF Issued
<1> QED
  BY <1>3, <1>4

\* The commands that wait are dropped, and that of the driver if it is not being
\* canceled.
Dropping(r) == Queued(r) \cup IF r.Canceling THEN {} ELSE {r.executing}

Cleared(r, s) ==
    /\ s \in Driver /\ SameWork(r, s) /\ s.state = r.state
    /\ s.length = r.length /\ s.transferTotal = r.transferTotal
    /\ s.Canceling = r.Canceling /\ s.Breaking = r.Breaking
    /\ s.Prepared = "wanted"
    /\ s.WaitingQueue = [p \in Prio |-> <<>>]
    /\ \A b \in Block : s.answer[b] = IF b \in Dropping(r) THEN "dropped"
                                      ELSE r.answer[b]
    /\ \A b \in Block : s.callback[b] = IF b = r.executing /\ ~r.Canceling
                                        THEN NULL ELSE r.callback[b]

\* The driver goes on with its command, and nothing waits.
LEMMA ClearedDriver ==
  ASSUME NEW r, DriverInv(r), NEW s, Cleared(r, s)
  PROVE  DriverInv(s) /\ Queued(s) = {} /\ s.executing = r.executing
<1> DEFINE e == r.executing
<1>1. /\ r \in Driver /\ Others(r, e) /\ CancelsWork(r)
  BY DEF DriverInv, Blocks
<1>2. Queues(s.WaitingQueue) /\ Queued(s) = {}
  BY NoQueue, QueuedMembers DEF Cleared
<1>3. e \in Block \cup {NULL} /\ e \notin Queued(r)
  BY <1>1 DEF Others
<1>4. Others(s, e)
  <2>1. ASSUME NEW x \in Block, x # e
        PROVE  /\ s.state[x] \notin Working
               /\ s.state[x] = "WAITING" => s.answer[x] = "dropped"
               /\ s.answer[x] # "due"
    <3>1. CASE x \in Queued(r)
      <4>1. s.answer[x] = "dropped" /\ s.state[x] = r.state[x]
        BY <3>1 DEF Cleared, Dropping
      <4> QED
        BY <1>1, <2>1, <4>1 DEF Others
    <3>2. CASE x \notin Queued(r)
      <4>1. s.answer[x] = r.answer[x] /\ s.state[x] = r.state[x]
        BY <2>1, <3>2 DEF Cleared, Dropping
      <4> QED
        BY <1>1, <2>1, <3>2, <4>1 DEF Others
    <3> QED
      BY <3>1, <3>2
  <2>2. ASSUME e # NULL
        PROVE  /\ \/ s.answer[e] = "due" /\ s.callback[e] # NULL
                  \/ s.answer[e] = "dropped" /\ s.callback[e] = NULL
               /\ e \notin InquiryBlock => s.transferTotal[e] <= s.length[e]
    <3>1. e \in Block
      BY <1>3, <2>2
    <3>2. s.length = r.length /\ s.transferTotal = r.transferTotal
      BY DEF Cleared
    <3>3. CASE r.Canceling
      <4>1. s.answer[e] = r.answer[e] /\ s.callback[e] = r.callback[e]
        BY <1>3, <3>1, <3>3 DEF Cleared, Dropping
      <4> QED
        BY <1>1, <2>2, <3>2, <4>1 DEF Others
    <3>4. CASE ~r.Canceling
      <4>1. s.answer[e] = "dropped" /\ s.callback[e] = NULL
        BY <3>1, <3>4 DEF Cleared, Dropping
      <4> QED
        BY <1>1, <2>2, <3>2, <4>1 DEF Others
    <3> QED
      BY <3>3, <3>4
  <2> QED
    BY <1>2, <1>3, <2>1, <2>2 DEF Others
<1>5. CancelsWork(s) /\ s.executing = e
  BY <1>1 DEF Cleared, CancelsWork, SameWork, Waits
<1> QED
  BY <1>2, <1>4, <1>5, WorkAlike DEF Cleared

\* The reset is prepared.
ResetBegun(r, s) ==
    /\ s.Prepared # "no" /\ Queued(s) = {}
    /\ s.executing = r.executing \/ (s.executing = NULL /\ r.low = <<>>)
    /\ s.length = r.length /\ s.transferTotal = r.transferTotal
    /\ \A b \in Block : s.answer[b] # r.answer[b]
         => /\ r.answer[b] = "due" /\ s.answer[b] = "dropped"
            /\ ~(r.Canceling /\ b = r.executing)
    /\ s.Canceling => \/ r.Canceling
                      \/ /\ s.executing # NULL /\ s.answer[s.executing] = "dropped"
    /\ r.Canceling => s.Canceling /\ s.executing = r.executing
    /\ s.low = r.low \/ (r.low = <<>> /\ NewRequests(s))
    /\ r.executing = NULL => /\ s.ResumeFromHere = r.ResumeFromHere
                             /\ s.CoverAlarm = r.CoverAlarm

\* What is dropped was due.
LEMMA DroppedDue ==
  ASSUME NEW r, DriverInv(r), NEW s, Cleared(r, s), NEW b \in Block,
         s.answer[b] # r.answer[b]
  PROVE  /\ r.answer[b] = "due" /\ s.answer[b] = "dropped"
         /\ ~(r.Canceling /\ b = r.executing)
<1>1. Others(r, r.executing) /\ b \in Dropping(r) /\ s.answer[b] = "dropped"
  BY DEF DriverInv, Blocks, Cleared
<1>2. CASE b \in Queued(r)
  BY <1>1, <1>2 DEF Others
<1>3. CASE b = r.executing /\ ~r.Canceling
  <2>1. b # NULL
    BY Names
  <2>2. r.answer[b] = "due" \/ r.answer[b] = "dropped"
    BY <1>1, <1>3, <2>1 DEF Others
  <2> QED
    BY <1>1, <1>3, <2>2
<1> QED
  BY <1>1, <1>2, <1>3 DEF Dropping

\* __DVDPrepareResetAsync.
LEMMA PrepareEffect ==
  ASSUME NEW r, DriverInv(r), r.down = NULL,
         r.executing # NULL
           => ~(r.PreparingCover /\ r.state[r.executing] \in CoverWaits),
         ContextMax >= 3, NEW s, s = __DVDPrepareResetAsync(r)
  PROVE  DriverInv(s) /\ ResetBegun(r, s)
<1> DEFINE e == r.executing
           none == [p \in Prio |-> <<>>]
           dropped == Queued(r) \cup IF r.Canceling THEN {} ELSE {e}
           A == [x \in Block |-> IF x \in dropped THEN "dropped" ELSE r.answer[x]]
           c1 == [r EXCEPT !.WaitingQueue = none]
           c2 == [c1 EXCEPT !.answer = A]
           c3 == [c2 EXCEPT !.Prepared = "wanted"]
           cleared == [r EXCEPT !.WaitingQueue = none, !.answer = A,
                                !.Prepared = "wanted"]
<1>1. /\ r \in Driver /\ Others(r, e) /\ CancelsWork(r)
  BY DEF DriverInv, Blocks
<1>2. none \in [Prio -> Seq(Block)]
  OBVIOUS
<1>3. /\ A \in [Block -> {"none", "due", "good", "canceled", "dropped"}]
      /\ \A b \in Block : A[b] = IF b \in Dropping(r) THEN "dropped"
                                 ELSE r.answer[b]
  BY <1>1 DEF Driver, Dropping
<1>4. s = CASE r.Canceling -> [cleared EXCEPT !.CancelCallback = "reset"]
            [] ~r.Canceling /\ e = NULL -> CallCancelCallback(cleared, "reset")
            [] ~r.Canceling /\ e # NULL ->
                 CancelAsync([cleared EXCEPT !.callback[e] = NULL], e, "reset")
  BY DEF __DVDPrepareResetAsync
<1> HIDE DEF none, A
<1>5. cleared \in Driver
  <2>1. cleared = c3
    OBVIOUS
  <2>2. c1 \in Driver
    BY <1>1, <1>2, CommandSet
  <2> HIDE DEF c1
  <2>3. c2 \in Driver
    BY <1>3, <2>2, CommandSet
  <2> HIDE DEF c2
  <2>4. c3 \in Driver
    BY <2>3, CommandSet
  <2> QED
    BY <2>1, <2>4
<1>6. /\ SameWork(r, cleared) /\ cleared.state = r.state
      /\ cleared.length = r.length /\ cleared.transferTotal = r.transferTotal
      /\ cleared.Canceling = r.Canceling /\ cleared.Breaking = r.Breaking
      /\ cleared.Prepared = "wanted" /\ cleared.callback = r.callback
      /\ cleared.WaitingQueue = none /\ cleared.answer = A
  <2>1. SameWork(r, cleared)
    BY <1>1 DEF Driver, SameWork
  <2> QED
    BY <1>1, <2>1 DEF Driver
<1> HIDE DEF cleared, c1, c2, c3
<1>7. ASSUME r.Canceling \/ e = NULL PROVE Cleared(r, cleared)
  <2>1. \A b \in Block : b = e /\ ~r.Canceling => FALSE
    BY <1>7, Names
  <2> QED
    BY <1>3, <1>5, <1>6, <2>1 DEF Cleared, none
<1>8. CASE r.Canceling
  <2>1. s = [cleared EXCEPT !.CancelCallback = "reset"]
    BY <1>4, <1>8
  <2>2. DriverInv(cleared) /\ Queued(cleared) = {} /\ cleared.executing = e
    BY <1>7, <1>8, ClearedDriver
  <2>3. /\ s \in Driver /\ SameBlocks(cleared, s) /\ SameCover(cleared, s)
        /\ s.low = cleared.low /\ s.executing = e
        /\ s.Canceling = cleared.Canceling /\ s.ResetAlarm = cleared.ResetAlarm
        /\ s.storing = cleared.storing /\ s.down = cleared.down
        /\ s.Prepared = cleared.Prepared
    <3>1. s \in Driver
      BY <1>5, <2>1, CancelSet
    <3>2. SameBlocks(cleared, s)
      BY <1>5, <2>1 DEF Driver, SameBlocks
    <3>3. SameCover(cleared, s)
      BY <1>5, <2>1 DEF Driver, SameCover
    <3>4. /\ s.low = cleared.low /\ s.executing = cleared.executing
          /\ s.Canceling = cleared.Canceling
          /\ s.ResetAlarm = cleared.ResetAlarm
          /\ s.storing = cleared.storing /\ s.down = cleared.down
          /\ s.Prepared = cleared.Prepared
      BY <1>5, <2>1 DEF Driver
    <3> QED
      BY <2>2, <3>1, <3>2, <3>3, <3>4
  <2> HIDE <2>1
  <2>4. DriverInv(s)
    BY <2>2, <2>3, DriverAlike
  <2>5. Queued(s) = {}
    BY <2>2, <2>3, BlocksAlike
  <2>6. \A b \in Block : s.answer[b] # r.answer[b]
          => /\ r.answer[b] = "due" /\ s.answer[b] = "dropped"
             /\ ~(r.Canceling /\ b = r.executing)
    BY <1>7, <1>8, <2>3, DroppedDue DEF SameBlocks
  <2> QED
    BY <1>6, <1>8, <2>3, <2>4, <2>5, <2>6
       DEF ResetBegun, SameBlocks, SameWork, SameCover
<1>9. CASE ~r.Canceling /\ e = NULL
  <2>1. s = CallCancelCallback(cleared, "reset")
    BY <1>4, <1>9
  <2>2. DriverInv(cleared) /\ Queued(cleared) = {} /\ cleared.executing = e
    BY <1>7, <1>9, ClearedDriver
  <2>3. DriverInv(s) /\ Called(cleared, s)
    BY <2>1, <2>2, CalledEffect
  <2>4. \A b \in Block : s.answer[b] # r.answer[b]
          => /\ r.answer[b] = "due" /\ s.answer[b] = "dropped"
             /\ ~(r.Canceling /\ b = r.executing)
    BY <1>7, <1>9, <2>3, DroppedDue DEF Called
  <2> QED
    BY <1>6, <1>9, <2>2, <2>3, <2>4 DEF ResetBegun, Called, SameWork
<1>10. CASE ~r.Canceling /\ e # NULL
  <2> DEFINE C == [cleared.callback EXCEPT ![e] = NULL]
             c == [cleared EXCEPT !.callback = C]
  <2>1. s = CancelAsync(c, e, "reset")
    BY <1>4, <1>10
  <2>2. e \in Block
    BY <1>1, <1>10 DEF Driver
  <2>3. /\ C \in [Block -> {"async", "sync", NULL}]
        /\ \A b \in Block : C[b] = IF b = e /\ ~r.Canceling
                                   THEN NULL ELSE r.callback[b]
    <3>1. cleared.callback \in [Block -> {"async", "sync", NULL}]
      BY <1>5 DEF Driver
    <3> QED
      BY <1>6, <1>10, <3>1
  <2> HIDE DEF C
  <2>4. c \in Driver
    BY <1>5, <2>3, CommandSet
  <2>5. /\ SameWork(cleared, c) /\ c.state = cleared.state
        /\ c.length = cleared.length
        /\ c.transferTotal = cleared.transferTotal
        /\ c.Canceling = cleared.Canceling /\ c.Breaking = cleared.Breaking
        /\ c.Prepared = cleared.Prepared
        /\ c.callback = C
        /\ c.WaitingQueue = cleared.WaitingQueue /\ c.answer = cleared.answer
    <3>1. SameWork(cleared, c)
      BY <1>5 DEF Driver, SameWork
    <3> QED
      BY <1>5, <3>1 DEF Driver
  <2> HIDE DEF c
  <2>6. SameWork(r, c)
    BY <1>6, <2>5 DEF SameWork
  <2>7. Cleared(r, c)
    BY <1>3, <1>6, <2>3, <2>4, <2>5, <2>6 DEF Cleared, none
  <2>8. DriverInv(c) /\ Queued(c) = {} /\ c.executing = e
    BY <2>7, ClearedDriver
  <2>9. /\ c.down = NULL /\ ~(c.PreparingCover /\ c.state[e] \in CoverWaits)
        /\ Queued(c) \cap InquiryBlock = {} /\ ~c.Canceling
    BY <1>6, <1>10, <2>5, <2>6, <2>8 DEF SameWork
  <2>10. /\ DriverInv(s)
         /\ \/ Called(c, s) \/ Withdrawn(c, s, e) \/ Told(c, s, e)
            \/ Abandoned(c, s, e)
    BY <2>1, <2>2, <2>8, <2>9, CancelEffect
  <2>11. c.answer[e] = "dropped"
    BY <1>10, <2>2, <2>7 DEF Cleared, Dropping
  <2>12. s.answer = c.answer \/ \A b \in Block : s.answer[b] = c.answer[b]
    BY <2>8, <2>10, <2>11 DEF Called, Withdrawn, Told, Abandoned, Ended
  <2>13. \A b \in Block : s.answer[b] # r.answer[b]
           => /\ r.answer[b] = "due" /\ s.answer[b] = "dropped"
              /\ ~(r.Canceling /\ b = r.executing)
    BY <2>7, <2>12, DroppedDue
  <2>14. /\ Queued(s) = {} /\ s.executing \in {e, NULL}
         /\ s.length = r.length /\ s.transferTotal = r.transferTotal
         /\ s.Prepared # "no"
    BY <1>6, <2>5, <2>8, <2>10
       DEF Called, Withdrawn, Told, Abandoned, Ended
  <2>15. s.low = r.low \/ (r.low = <<>> /\ NewRequests(s))
    BY <2>6, <2>8, <2>10
       DEF Called, Withdrawn, Told, Abandoned, SameWork
  <2>16. s.Canceling => s.executing # NULL /\ s.answer[s.executing] = "dropped"
    <3>1. s.Canceling => s.executing # NULL
      BY <2>10 DEF DriverInv, CancelsWork
    <3> QED
      BY <2>2, <2>11, <2>12, <2>14, <3>1
  <2>17. s.executing = e \/ (s.executing = NULL /\ r.low = <<>>)
    BY <2>6, <2>8, <2>10
       DEF Called, Withdrawn, Told, Abandoned, Ended, SameWork
  <2> QED
    BY <1>10, <2>10, <2>13, <2>14, <2>15, <2>16, <2>17 DEF ResetBegun
<1> QED
  BY <1>8, <1>9, <1>10

-----------------------------------------------------------------------------
(* What the history and the drive have to do with the commands. *)

\* The read at the head was carried out.
ReadDone(r) ==
    /\ r.low # <<>> /\ Head(r.low).op = "Read"
    /\ Head(r.low).reply # NULL /\ Head(r.low).reply.int = "TC"

\* D has the transfers that were counted, and one more if it was carried out.
DataOf(r, D, done) ==
    /\ DOMAIN D = Block
    /\ \A b \in Queued(r) : D[b] = {}
    /\ r.executing # NULL /\ r.executing \notin InquiryBlock
         => D[r.executing] = 1 .. (IF done THEN r.transferTotal[r.executing] + 1
                                   ELSE r.transferTotal[r.executing])

\* A is the set of commands whose cancellation was asked for.
AskedOf(r, A) ==
    /\ A \subseteq Block
    /\ \A b \in A : r.answer[b] = "due" => b = r.executing /\ r.Canceling
    /\ r.Canceling /\ r.answer[r.executing] = "due" => r.executing \in A

\* Nothing is read from a disc as if it were the game's.
Suspicious(r) ==
    \A i \in DOMAIN r.low :
      /\ r.low[i].op \notin {"UnencryptedRead", "OpenPartition"}
      /\ r.low[i].cb = "CoverClosed" /\ r.low[i].reply # NULL
           => r.low[i].reply.int # "TC" \/ r.low[i].reply.value # GameDisc

InquiryInv ==
    /\ Queued(dvd) \cap InquiryBlock = {}
    /\ issued \in Nat
    /\ issued = 0 => /\ dvd.executing = NULL /\ Queued(dvd) = {}
                     /\ dvd.ResumeFromHere = "NONE" /\ ~dvd.CoverAlarm

DiscInv ==
    /\ disc \in Disc \cup {NULL} /\ sense \in Faults \cup {NULL}
    /\ cvrint \in BOOLEAN
    /\ phase = "open" => disc = GameDisc
    /\ phase = "identified" => disc = GameDisc \/ Suspicious(dvd)

\* The driver, its commands, its history and the drive.
DVDInv ==
    /\ DriverInv(dvd) /\ InquiryInv /\ AskedOf(dvd, asked)
    /\ DataOf(dvd, data, ReadDone(dvd)) /\ DiscInv
    /\ waiting \subseteq {"read", "cancel"} \X Block

\* Requests that were not answered are not those of a finished read.
LEMMA NewNotDone ==
  ASSUME NEW s, s.low \in Seq(Request),
         \A i \in DOMAIN s.low : s.low[i].reply = NULL
  PROVE  ~ReadDone(s)
<1>1. ASSUME s.low # <<>> PROVE 1 \in DOMAIN s.low /\ Head(s.low) = s.low[1]
  BY <1>1
<1> QED
  BY <1>1 DEF ReadDone

\* A read that was carried out is that of the command that is executed.
LEMMA DoneExecutes ==
  ASSUME NEW r, DriverInv(r), r.down = NULL, ReadDone(r)
  PROVE  r.executing # NULL /\ CarriesOn(r, r.executing, Head(r.low))
BY HeadFits DEF ReadDone

\* The commands keep their data.
LEMMA DataKept ==
  ASSUME NEW r, DriverInv(r), NEW s, NEW D, NEW done, NEW after,
         DataOf(r, D, done), s.transferTotal = r.transferTotal,
         Queued(s) \subseteq Queued(r),
         \/ s.executing = r.executing /\ (after <=> done)
         \/ s.executing \in Queued(r) \cup {NULL} /\ ~after
  PROVE  DataOf(s, D, after)
<1>1. \A b \in Queued(r) : r.transferTotal[b] = 0 /\ D[b] = {}
  BY DEF DriverInv, Blocks, Others, DataOf
<1>2. CASE s.executing = r.executing /\ (after <=> done)
  BY <1>2 DEF DataOf
<1>3. CASE s.executing \in Queued(r) \cup {NULL} /\ ~after
  <2>1. ASSUME s.executing # NULL
        PROVE  D[s.executing] = 1 .. s.transferTotal[s.executing]
    <3>1. D[s.executing] = {} /\ s.transferTotal[s.executing] = 0
      BY <1>1, <1>3, <2>1
    <3>2. 1 .. 0 = {}
      OBVIOUS
    <3> QED
      BY <3>1, <3>2
  <2> QED
    BY <1>3, <2>1 DEF DataOf
<1> QED
  BY <1>2, <1>3

\* The requests stay, or there are new ones.
LowKept(r, s) == s.low = r.low \/ (r.low = <<>> /\ NewRequests(s))

\* Then the finished read is the same, and the requests were added.
LEMMA LowKeptDone ==
  ASSUME NEW r, NEW s, s.low \in Seq(Request), LowKept(r, s)
  PROVE  (ReadDone(s) <=> ReadDone(r)) /\ Adds(r, s)
<1>1. CASE s.low = r.low
  BY <1>1 DEF ReadDone, Adds
<1>2. CASE r.low = <<>> /\ NewRequests(s)
  BY <1>2, NewNotDone DEF ReadDone, Adds, NewRequests
<1> QED
  BY <1>1, <1>2 DEF LowKept

\* New requests do not ask to read.
LEMMA AddsSuspicious ==
  ASSUME NEW r, NEW s, Suspicious(r), Adds(r, s)
  PROVE  Suspicious(s)
BY DEF Suspicious, Adds

\* Cancellations that were asked for are under way.
LEMMA AskedOnward ==
  ASSUME NEW r, NEW s, NEW A, AskedOf(r, A), Onward(r, s)
  PROVE  AskedOf(s, A)
<1>1. CASE SameCommands(r, s)
  BY <1>1 DEF AskedOf, SameCommands
<1>2. ASSUME NEW result, Ended(r, s, result) PROVE AskedOf(s, A)
  <2>1. ASSUME NEW b \in A, s.answer[b] = "due" PROVE FALSE
    <3>1. b \in Block /\ r.answer[b] = "due"
      BY <1>2, <2>1 DEF AskedOf, Ended
    <3>2. b = r.executing
      BY <3>1 DEF AskedOf
    <3> QED
      BY <1>2, <2>1, <3>2 DEF Ended
  <2>2. ~s.Canceling
    BY <1>2 DEF Ended
  <2> QED
    BY <2>1, <2>2 DEF AskedOf
<1> QED
  BY <1>1, <1>2 DEF Onward

\* Before the first command nothing goes on.
LEMMA NothingIssued ==
  ASSUME NEW r, DriverInv(r), r.down = NULL, r.executing = NULL, ~r.CoverAlarm
  PROVE  r.low = <<>> /\ r.storing = NULL /\ ~r.ResetAlarm
<1>1. ~r.PreparingCover
  BY DEF DriverInv, Cover
<1> QED
  BY <1>1, DriverCases DEF Working1, Resting

-----------------------------------------------------------------------------
(* The steps of the specification. *)

\* Initially nothing is executed.
LEMMA InitInv == Init => DVDInv
<1> SUFFICES ASSUME Init PROVE DVDInv
  OBVIOUS
<1>1. /\ dvd.state = [b \in Block |-> "IDLE"]
      /\ dvd.length = [b \in Block |-> 0]
      /\ dvd.transferTotal = [b \in Block |-> 0]
      /\ dvd.callback = [b \in Block |-> "async"]
      /\ dvd.answer = [b \in Block |-> "none"]
      /\ dvd.WaitingQueue = [p \in Prio |-> <<>>]
      /\ dvd.executing = NULL /\ ~dvd.Canceling /\ dvd.ResumeFromHere = "NONE"
      /\ dvd.MotorState = "WORKING"
      /\ ~dvd.WaitingForCoverOpen /\ ~dvd.WaitingForCoverClose
      /\ ~dvd.PreparingCover /\ ~dvd.CoverAlarm
      /\ ~dvd.ResetAlarm /\ dvd.storing = NULL /\ dvd.low = <<>>
      /\ dvd.down = NULL
  BY DEF Init
<1>2. dvd \in Driver
  <2>1. /\ "IDLE" \in States /\ "NONE" \in Points /\ NULL \in AnyValue
        /\ <<>> \in Seq(Request) /\ <<>> \in Seq(Block)
    BY DEF States, Points, AnyValue
  <2> QED
    BY <2>1 DEF Init, Driver
<1>3. Queues(dvd.WaitingQueue) /\ Queued(dvd) = {}
  BY <1>1, NoQueue, QueuedMembers
<1>4. \A b \in Block : dvd.state[b] = "IDLE" /\ dvd.answer[b] = "none"
  BY <1>1
<1>5. Blocks(dvd, NULL)
  BY <1>3, <1>4 DEF Blocks, Others, Working, CoverWaits
<1>6. Cover(dvd, NULL)
  BY <1>1 DEF Cover, Waits
<1>7. Polling(dvd, <<>>) /\ Continues(dvd, NULL, <<>>) /\ <<>> \in Seq(Request)
  BY <1>1 DEF Polling, Continues
<1>8. Unfinished(dvd) /\ Unanswered(dvd) /\ CancelsWork(dvd)
  BY <1>1 DEF Unfinished, Unanswered, CancelsWork
<1>9. DriverInv(dvd)
  BY <1>1, <1>2, <1>5, <1>6, <1>7, <1>8 DEF DriverInv
<1>10. InquiryInv
  BY <1>1, <1>3 DEF Init, InquiryInv
<1>11. AskedOf(dvd, asked)
  BY <1>1 DEF Init, AskedOf
<1>12. DataOf(dvd, data, ReadDone(dvd))
  BY <1>1, <1>3 DEF Init, DataOf
<1>13. DiscInv
  BY DriveAssumption DEF Init, DriveInit, DiscInv
<1>14. waiting = {}
  BY DEF Init
<1> QED
  BY <1>9, <1>10, <1>11, <1>12, <1>13, <1>14 DEF DVDInv

\* A step after which the commands are those of before.
LEMMA QuietStep ==
  ASSUME DVDInv, dvd.down = NULL, DriverInv(dvd'), SameCommands(dvd, dvd'),
         LowKept(dvd, dvd'), UNCHANGED <<issued, asked, data, driveVars>>,
         \/ issued # 0
         \/ /\ dvd'.ResumeFromHere = dvd.ResumeFromHere
            /\ dvd'.CoverAlarm = dvd.CoverAlarm,
         waiting' \subseteq {"read", "cancel"} \X Block
  PROVE  DVDInv'
<1>1. dvd'.low \in Seq(Request)
  BY DEF DriverInv, Driver
<1>2. (ReadDone(dvd') <=> ReadDone(dvd)) /\ Adds(dvd, dvd')
  BY <1>1, LowKeptDone
<1>3. InquiryInv'
  BY DEF DVDInv, InquiryInv, SameCommands
<1>4. AskedOf(dvd', asked')
  BY AskedOnward DEF DVDInv, Onward
<1>5. DataOf(dvd', data', ReadDone(dvd'))
  BY <1>2, DataKept DEF DVDInv, SameCommands
<1>6. DiscInv'
  BY <1>2, AddsSuspicious DEF DVDInv, DiscInv, driveVars
<1> QED
  BY <1>3, <1>4, <1>5, <1>6 DEF DVDInv

\* A thread looks at the state of its command.
LEMMA LookStep ==
  ASSUME DVDInv, NEW t \in waiting, Look(t)
  PROVE  DVDInv'
<1>1. t \in {"read", "cancel"} \X Block /\ dvd.down = NULL
  BY DEF DVDInv, Look, Up
<1>2. CASE waiting' = waiting \ {t} /\ UNCHANGED dvd
  <2>1. SameCommands(dvd, dvd') /\ LowKept(dvd, dvd') /\ DriverInv(dvd')
    BY <1>2 DEF SameCommands, LowKept, DVDInv
  <2> QED
    BY <1>1, <1>2, <2>1, QuietStep DEF Look, DVDInv
<1>3. CASE /\ dvd' = [dvd EXCEPT !.sleeping = @ \cup {t}]
           /\ UNCHANGED waiting
  <2>1. DriverInv(dvd') /\ SameCommands(dvd, dvd') /\ dvd'.low = dvd.low
    BY <1>1, <1>3, SleepEffect DEF DVDInv
  <2>2. /\ dvd'.ResumeFromHere = dvd.ResumeFromHere
        /\ dvd'.CoverAlarm = dvd.CoverAlarm
    BY <1>3 DEF DVDInv, DriverInv, Driver
  <2> QED
    BY <1>1, <1>3, <2>1, <2>2, QuietStep DEF Look, DVDInv, LowKept
<1> QED
  BY <1>2, <1>3 DEF Look

\* Nothing was issued, so that no error code is stored and no alarm is set.
LEMMA IssuedBefore ==
  ASSUME DVDInv, dvd.down = NULL,
         dvd.storing # NULL \/ dvd.ResetAlarm \/ dvd.CoverAlarm \/ dvd.low # <<>>
  PROVE  issued # 0
BY NothingIssued DEF DVDInv, InquiryInv

\* The error code was stored.
LEMMA StoredStep ==
  ASSUME DVDInv, ErrorCodeStored, ContextMax >= 3
  PROVE  DVDInv' /\ SameCommands(dvd, dvd')
<1>1. dvd.down = NULL /\ dvd.storing # NULL /\ DriverInv(dvd)
  BY DEF ErrorCodeStored, Up, DVDInv
<1>2. DriverInv(dvd') /\ SameCommands(dvd, dvd') /\ NewRequests(dvd')
  BY <1>1, StoredEffect DEF ErrorCodeStored
<1>3. dvd.low = <<>> /\ issued # 0
  BY <1>1, DriverCases, IssuedBefore DEF Working1, Resting
<1>4. UNCHANGED <<issued, asked, data, driveVars, waiting>>
  BY DEF ErrorCodeStored, clientUnchanged
<1> QED
  BY <1>1, <1>2, <1>3, <1>4, QuietStep DEF LowKept, DVDInv

\* The alarm after a reset.
LEMMA ResetAlarmStep ==
  ASSUME DVDInv, ResetAlarmFires, ContextMax >= 3
  PROVE  DVDInv' /\ SameCommands(dvd, dvd')
<1>1. dvd.down = NULL /\ dvd.ResetAlarm /\ DriverInv(dvd)
  BY DEF ResetAlarmFires, Up, DVDInv
<1>2. DriverInv(dvd') /\ SameCommands(dvd, dvd') /\ NewRequests(dvd')
  BY <1>1, ResetAlarmEffect DEF ResetAlarmFires
<1>3. dvd.low = <<>> /\ issued # 0
  BY <1>1, DriverCases, IssuedBefore DEF Working1, Resting
<1>4. UNCHANGED <<issued, asked, data, driveVars, waiting>>
  BY DEF ResetAlarmFires, clientUnchanged
<1> QED
  BY <1>1, <1>2, <1>3, <1>4, QuietStep DEF LowKept, DVDInv

\* The alarm of the cover.
LEMMA CoverAlarmStep ==
  ASSUME DVDInv, CoverAlarmHandler, ContextMax >= 3
  PROVE  DVDInv' /\ SameCommands(dvd, dvd')
<1>1. dvd.down = NULL /\ dvd.CoverAlarm /\ ~dvd.PreparingCover /\ DriverInv(dvd)
  BY DEF CoverAlarmHandler, Up, DVDInv
<1>2. DriverInv(dvd') /\ SameCommands(dvd, dvd') /\ NewRequests(dvd')
  BY <1>1, CoverAlarmEffect DEF CoverAlarmHandler
<1>3. dvd.low = <<>> /\ issued # 0
  <2>1. dvd.executing = NULL \/ Waits(dvd, dvd.executing)
    BY <1>1 DEF DriverInv, Cover
  <2> QED
    BY <1>1, <2>1, DriverCases, IssuedBefore DEF Working1, Resting
<1>4. UNCHANGED <<issued, asked, data, driveVars, waiting>>
  BY DEF CoverAlarmHandler, clientUnchanged
<1> QED
  BY <1>1, <1>2, <1>3, <1>4, QuietStep DEF LowKept, DVDInv

\* The user changes the disc.
LEMMA SwapStep ==
  ASSUME DVDInv, UserSwaps
  PROVE  DVDInv'
<1>1. UNCHANGED <<dvd, waiting, issued, asked, data>>
  BY DEF UserSwaps, clientUnchanged
<1>2. DiscInv'
  BY DriveAssumption DEF DVDInv, UserSwaps, Swap, DiscInv
<1>3. InquiryInv'
  BY <1>1 DEF DVDInv, InquiryInv
<1> QED
  BY <1>1, <1>2, <1>3 DEF DVDInv

\* What the drive says of a request that it carried out.
LEMMA DriveReplies ==
  ASSUME DiscInv, NEW op, NEW a, a \in Replies(op), Drive(op, a)
  PROVE  /\ a \in AnyReply /\ disc' = disc
         /\ sense' \in Faults \cup {NULL} /\ cvrint' \in BOOLEAN
         /\ phase' \in {phase, PhaseAfter(op)}
         /\ phase' # phase => a \in Answered(op)
         /\ a.int = "TC" => a \in Answered(op) /\ phase \in Ready(op)
<1>1. a \in AnyReply
  BY RepliesAreReplies DEF DiscInv
<1>2. CASE Carries(op, a)
  BY <1>1, <1>2 DEF Carries, DiscInv
<1>3. CASE Refuses(op, a)
  BY <1>1, <1>3 DEF Refuses, Reply, DiscInv, driveVars
<1>4. CASE Fails(op, a)
  <2>1. PICK e \in Faults :
          IF e \in {"TIME", "SERR"}
          THEN a = Reply(e, NULL) /\ UNCHANGED sense
          ELSE a = Reply("DE", NULL) /\ sense' = e
    BY <1>4 DEF Fails
  <2>2. a.int # "TC"
    BY <2>1 DEF Reply
  <2>3. sense' \in Faults \cup {NULL}
    BY <2>1 DEF DiscInv
  <2> QED
    BY <1>1, <1>4, <2>2, <2>3 DEF Fails, DiscInv
<1> QED
  BY <1>2, <1>3, <1>4 DEF Drive

\* An identified disc is the game's, or nothing is read from it.
LEMMA DiscAnswered ==
  ASSUME DVDInv, dvd.down = NULL, dvd.low # <<>>, NEW q, q = Head(dvd.low),
         NEW a, a \in Replies(q.op), Drive(q.op, a), DriverInv(dvd'),
         dvd'.low = [dvd.low EXCEPT ![1] = [q EXCEPT !.reply = a]]
  PROVE  DiscInv'
<1> DEFINE x == [q EXCEPT !.reply = a]
<1>1. /\ a \in AnyReply /\ disc' = disc
      /\ sense' \in Faults \cup {NULL} /\ cvrint' \in BOOLEAN
      /\ phase' \in {phase, PhaseAfter(q.op)}
      /\ phase' # phase => a \in Answered(q.op)
      /\ a.int = "TC" => a \in Answered(q.op) /\ phase \in Ready(q.op)
  BY DriveReplies DEF DVDInv
<1>2. /\ q \in Request
      /\ q.cb \in StepCallbacks
           => dvd.executing # NULL /\ CarriesOn(dvd, dvd.executing, q)
      /\ q.cb \notin StepCallbacks
           => q.op \in {"ClearCoverInterrupt", "PrepareCoverRegister"}
  BY HeadFits DEF DVDInv
<1>3. /\ x \in Request /\ x.reply = a /\ x.op = q.op /\ x.cb = q.cb
  BY <1>1, <1>2, AnsweredRequest
<1>4. q.cb = "CoverClosed" => q.op = "ReadDiskID"
  BY <1>2 DEF CarriesOn, Fits, StepCallbacks
<1>5. q.op = "ReadDiskID" /\ a \in Answered(q.op) => a.value = disc
  BY DEF Answered, Reply
<1>6. dvd.low \in Seq(Request) /\ 1 \in DOMAIN dvd.low /\ q = dvd.low[1]
  BY DEF DVDInv, DriverInv, Driver
<1> HIDE DEF x
<1>7. \A i \in DOMAIN dvd'.low :
        i \in DOMAIN dvd.low /\ dvd'.low[i] = IF i = 1 THEN x ELSE dvd.low[i]
  BY <1>6 DEF x
<1>8. CASE phase' = "open"
  <2>1. phase = "open" \/ (q.op = "OpenPartition" /\ phase \in Ready(q.op)
                             /\ phase' # phase)
    <3>1. CASE phase' = phase
      BY <1>8, <3>1
    <3>2. CASE phase' # phase
      <4>1. phase' = PhaseAfter(q.op) /\ q.op = "OpenPartition"
        BY <1>1, <1>8, <3>2 DEF PhaseAfter
      <4>2. Carries(q.op, a)
        BY <3>2 DEF Drive, Refuses, Fails, driveVars
      <4> QED
        BY <3>2, <4>1, <4>2 DEF Carries
    <3> QED
      BY <3>1, <3>2
  <2>2. CASE phase = "open"
    BY <1>1, <1>8, <2>2 DEF DVDInv, DiscInv
  <2>3. CASE q.op = "OpenPartition" /\ phase \in Ready(q.op)
    <3>1. phase \in {"identified", "open"}
      BY <2>3 DEF Ready
    <3>2. disc = GameDisc
      BY <1>6, <2>3, <3>1 DEF DVDInv, DiscInv, Suspicious
    <3> QED
      BY <1>1, <1>8, <3>2 DEF DVDInv, DiscInv
  <2> QED
    BY <2>1, <2>2, <2>3
<1>9. CASE phase' = "identified" /\ disc # GameDisc
  <2>1. Suspicious(dvd) \/ q.op = "ReadDiskID"
    <3>1. CASE phase' = phase
      BY <1>9, <3>1 DEF DVDInv, DiscInv
    <3>2. CASE phase' # phase
      BY <1>1, <1>9, <3>2 DEF PhaseAfter
    <3> QED
      BY <3>1, <3>2
  <2>2. ASSUME NEW i \in DOMAIN dvd.low, i # 1
        PROVE  /\ dvd.low[i].op \notin {"UnencryptedRead", "OpenPartition"}
               /\ dvd.low[i].cb = "CoverClosed" /\ dvd.low[i].reply # NULL
                    => FALSE
    <3>1. dvd.low[i].reply = NULL
      BY <1>6, <2>2 DEF DVDInv, DriverInv, Unanswered
    <3>2. CASE Suspicious(dvd)
      BY <2>2, <3>1, <3>2 DEF Suspicious
    <3>3. CASE q.op = "ReadDiskID"
      <4>1. q.cb \in StepCallbacks
        BY <1>2, <3>3
      <4>2. dvd.low = <<q>>
        BY <4>1, HeadAlone DEF DVDInv
      <4>3. DOMAIN <<q>> = {1}
        OBVIOUS
      <4> QED
        BY <2>2, <4>2, <4>3
    <3> QED
      BY <2>1, <3>2, <3>3
  <2>3. q.op \notin {"UnencryptedRead", "OpenPartition"}
    BY <1>6, <2>1 DEF Suspicious
  <2>4. x.cb = "CoverClosed" => x.reply.int # "TC" \/ x.reply.value # GameDisc
    BY <1>1, <1>3, <1>4, <1>5, <1>9
  <2>5. Suspicious(dvd')
    BY <1>3, <1>7, <2>2, <2>3, <2>4 DEF Suspicious
  <2> QED
    BY <1>1, <1>9, <2>5 DEF DVDInv, DiscInv
<1> QED
  BY <1>1, <1>8, <1>9 DEF DVDInv, DiscInv

\* The drive answers a request.
LEMMA DriveStep ==
  ASSUME DVDInv, DriveAnswers
  PROVE  DVDInv' /\ SameCommands(dvd, dvd')
<1> DEFINE q == Head(dvd.low)
           e == dvd.executing
<1>1. dvd.down = NULL /\ dvd.low # <<>> /\ q.reply = NULL /\ DriverInv(dvd)
  BY DEF DriveAnswers, Up, DVDInv
<1>2. PICK a \in Replies(q.op) :
        /\ Drive(q.op, a)
        /\ dvd' = [dvd EXCEPT !.low[1].reply = a]
        /\ data' = IF q.op = "Read" /\ a.int = "TC" /\ disc = GameDisc
                   THEN [data EXCEPT ![q.block] = @ \cup {q.transfer}]
                   ELSE data
  BY DEF DriveAnswers
<1>3. /\ a \in AnyReply /\ disc' = disc
      /\ a.int = "TC" => a \in Answered(q.op) /\ phase \in Ready(q.op)
  BY <1>2, DriveReplies DEF DVDInv
<1>4. /\ DriverInv(dvd') /\ SameCommands(dvd, dvd')
      /\ dvd'.low = [dvd.low EXCEPT ![1] = [q EXCEPT !.reply = a]]
  <2> DEFINE x == [q EXCEPT !.reply = a]
             m == [dvd.low EXCEPT ![1] = x]
  <2>1. q = dvd.low[1] /\ dvd.low \in Seq(Request)
    BY <1>1 DEF DriverInv, Driver
  <2>2. dvd' = [dvd EXCEPT !.low = m]
    BY <1>2, <2>1
  <2>3. q = Head(dvd.low) /\ a \in AnyReply
    BY <1>3
  <2>4. x = [q EXCEPT !.reply = a] /\ m = [dvd.low EXCEPT ![1] = x]
    OBVIOUS
  <2>6. q \in Request
    BY <2>1, <1>1
  <2> HIDE DEF q, x, m
  <2>7. x \in Request /\ AlikeRequest(x, q)
    BY <2>3, <2>4, <2>6, AnsweredRequest DEF AlikeRequest
  <2>8. m \in Seq(Request) /\ Replaces(m, dvd.low, x)
    BY <1>1, <2>1, <2>4, <2>7, ReplacedRequest
  <2>5. DriverInv(dvd') /\ SameCommands(dvd, dvd') /\ dvd'.low = m
    BY <1>1, <2>2, <2>3, <2>7, <2>8, DriveAnswerEffect
  <2> QED
    BY <2>5 DEF m, x
<1>5. issued # 0 /\ UNCHANGED <<waiting, issued, asked>>
  BY <1>1, IssuedBefore DEF DriveAnswers, clientUnchanged
<1>6. DiscInv'
  BY <1>1, <1>2, <1>4, DiscAnswered
<1>7. InquiryInv'
  BY <1>4, <1>5 DEF DVDInv, InquiryInv, SameCommands
<1>8. AskedOf(dvd', asked')
  BY <1>4, <1>5, AskedOnward DEF DVDInv, Onward
<1>9. /\ q \in Request
      /\ q.cb \in StepCallbacks
           => e # NULL /\ CarriesOn(dvd, e, q)
      /\ q.cb \notin StepCallbacks
           => q.op \in {"ClearCoverInterrupt", "PrepareCoverRegister"}
  BY <1>1, HeadFits
<1>10. /\ dvd'.low # <<>> /\ Head(dvd'.low).op = q.op
       /\ Head(dvd'.low).reply = a
  <2> DEFINE x == [q EXCEPT !.reply = a]
  <2>1. x.reply = a /\ x.op = q.op
    BY <1>3, <1>9, AnsweredRequest
  <2>2. dvd.low \in Seq(Request) /\ 1 \in DOMAIN dvd.low
    BY <1>1 DEF DriverInv, Driver
  <2>3. dvd'.low \in Seq(Request)
    BY <1>4 DEF DriverInv, Driver
  <2> HIDE DEF x
  <2>4. dvd'.low = [dvd.low EXCEPT ![1] = x]
    BY <1>4 DEF x
  <2>5. DOMAIN dvd'.low = DOMAIN dvd.low /\ dvd'.low[1] = x
    BY <2>2, <2>4
  <2>6. dvd'.low # <<>> /\ Head(dvd'.low) = dvd'.low[1]
    BY <2>2, <2>3, <2>5
  <2> QED
    BY <2>1, <2>5, <2>6
<1>11. DataOf(dvd', data', ReadDone(dvd'))
  <2>1. ~ReadDone(dvd) /\ a # NULL
    BY <1>1, <1>3, ReplyAssumption DEF ReadDone
  <2>2. ReadDone(dvd') <=> q.op = "Read" /\ a.int = "TC"
    BY <1>10, <2>1 DEF ReadDone
  <2>3. CASE q.op = "Read" /\ a.int = "TC"
    <3>1. e # NULL /\ e \notin InquiryBlock /\ q.block = e
          /\ q.transfer = dvd.transferTotal[e] + 1
      BY <1>9, <2>3 DEF CarriesOn
    <3>2. e \in Block /\ dvd.transferTotal[e] \in Nat
      BY <1>1, <3>1 DEF DriverInv, Driver
    <3>3. disc = GameDisc
      BY <1>3, <2>3 DEF Ready, DVDInv, DiscInv
    <3>4. data' = [data EXCEPT ![e] = @ \cup {dvd.transferTotal[e] + 1}]
      BY <1>2, <2>3, <3>1, <3>3
    <3>5. data[e] = 1 .. dvd.transferTotal[e] /\ DOMAIN data = Block
      BY <2>1, <3>1 DEF DVDInv, DataOf
    <3>6. data'[e] = 1 .. (dvd.transferTotal[e] + 1)
      <4>1. data'[e] = (1 .. dvd.transferTotal[e])
                         \cup {dvd.transferTotal[e] + 1}
        BY <3>2, <3>4, <3>5
      <4> QED
        BY <3>2, <4>1
    <3>7. \A b \in Queued(dvd) : b # e /\ b \in Block /\ data[b] = {}
      BY <1>1, QueuedMembers, MembersAreBlocks
         DEF DVDInv, DataOf, DriverInv, Blocks, Others
    <3>8. \A b \in Queued(dvd) : data'[b] = {}
      BY <3>4, <3>5, <3>7
    <3>9. DOMAIN data' = Block
      BY <3>4, <3>5
    <3> QED
      BY <1>4, <2>2, <2>3, <3>6, <3>8, <3>9 DEF DataOf, SameCommands
  <2>4. CASE ~(q.op = "Read" /\ a.int = "TC")
    <3>1. data' = data
      BY <1>2, <2>4
    <3> QED
      BY <1>1, <1>4, <2>1, <2>2, <2>4, <3>1, DataKept DEF DVDInv, SameCommands
  <2> QED
    BY <2>3, <2>4
<1> QED
  BY <1>4, <1>5, <1>6, <1>7, <1>8, <1>11 DEF DVDInv

\* What Counted leaves alone, and what it counts.
LEMMA CountedEffect ==
  ASSUME NEW r, DriverInv(r), r.down = NULL, r.low # <<>>,
         NEW q, q = Head(r.low), NEW n, n = Counted(r, q)
  PROVE  /\ n.executing = r.executing /\ Queued(n) = Queued(r)
         /\ n.answer = r.answer /\ n.length = r.length
         /\ n.Canceling = r.Canceling /\ n.Breaking = r.Breaking
         /\ n.Prepared = r.Prepared
         /\ \A b \in Block :
              n.transferTotal[b]
                = IF b = r.executing /\ q.cb = "Busy" /\ q.reply.int = "TC"
                  THEN r.transferTotal[b] + 1 ELSE r.transferTotal[b]
<1>1. CASE q.cb = "Busy" /\ q.reply.int = "TC"
  <2>1. n = [r EXCEPT !.transferTotal[r.executing] = @ + 1]
    BY <1>1 DEF Counted, Counts
  <2>2. r \in Driver
    BY DEF DriverInv
  <2>3. /\ n.executing = r.executing /\ n.WaitingQueue = r.WaitingQueue
        /\ n.answer = r.answer /\ n.length = r.length
        /\ n.Canceling = r.Canceling /\ n.Breaking = r.Breaking
        /\ n.Prepared = r.Prepared
        /\ n.transferTotal = [r.transferTotal EXCEPT ![r.executing] = @ + 1]
    BY <2>1, <2>2 DEF Driver
  <2>4. r.transferTotal \in [Block -> Nat]
    BY <2>2 DEF Driver
  <2>5. \A b \in Block :
          n.transferTotal[b] = IF b = r.executing THEN r.transferTotal[b] + 1
                               ELSE r.transferTotal[b]
    BY <2>3, <2>4
  <2> QED
    BY <1>1, <2>3, <2>5 DEF Queued
<1>2. CASE ~(q.cb = "Busy" /\ q.reply.int = "TC")
  BY <1>2 DEF Counted
<1> QED
  BY <1>1, <1>2

\* The transfer that was carried out is counted.
LEMMA CountedData ==
  ASSUME NEW r, DriverInv(r), r.down = NULL, r.low # <<>>,
         NEW q, q = Head(r.low), q.reply # NULL, NEW n, n = Counted(r, q),
         NEW D, DataOf(r, D, ReadDone(r))
  PROVE  DataOf(n, D, FALSE) /\ \A b \in Queued(n) : n.transferTotal[b] = 0
<1> DEFINE e == r.executing
<1>1. /\ n.executing = e /\ Queued(n) = Queued(r)
      /\ \A b \in Block :
           n.transferTotal[b] = IF b = e /\ q.cb = "Busy" /\ q.reply.int = "TC"
                                THEN r.transferTotal[b] + 1
                                ELSE r.transferTotal[b]
  BY CountedEffect
<1>2. \A b \in Queued(r) : b \in Block /\ b # e /\ r.transferTotal[b] = 0
  BY QueuedMembers, MembersAreBlocks DEF DriverInv, Blocks, Others
<1>3. \A b \in Queued(n) : n.transferTotal[b] = 0
  BY <1>1, <1>2
<1>4. ASSUME e # NULL, e \notin InquiryBlock
      PROVE  D[e] = 1 .. n.transferTotal[e]
  <2>1. e \in Block
    BY <1>4 DEF DriverInv, Driver
  <2>2. D[e] = 1 .. (IF ReadDone(r) THEN r.transferTotal[e] + 1
                     ELSE r.transferTotal[e])
    BY <1>4 DEF DataOf
  <2>3. ReadDone(r) <=> q.op = "Read" /\ q.reply.int = "TC"
    BY DEF ReadDone
  <2>4. q.op = "Read" => q.cb = "Busy"
    BY HeadFits DEF CarriesOn, Fits
  <2>5. q.cb = "Busy" => q.op = "Read"
    BY <1>4, HeadFits DEF CarriesOn, StepCallbacks
  <2>6. ReadDone(r) <=> q.cb = "Busy" /\ q.reply.int = "TC"
    BY <2>3, <2>4, <2>5
  <2> QED
    BY <1>1, <2>1, <2>2, <2>6
<1> QED
  BY <1>1, <1>3, <1>4 DEF DataOf

\* Commands that go on or end keep their data.
LEMMA OnwardData ==
  ASSUME NEW r, NEW s, NEW D, DataOf(r, D, FALSE), Onward(r, s),
         \A b \in Queued(r) : r.transferTotal[b] = 0
  PROVE  DataOf(s, D, FALSE)
<1>1. CASE SameCommands(r, s)
  BY <1>1 DEF SameCommands, DataOf
<1>2. ASSUME NEW result, Ended(r, s, result) PROVE DataOf(s, D, FALSE)
  <2>1. /\ s.transferTotal = r.transferTotal /\ Queued(s) \subseteq Queued(r)
        /\ s.executing \in Queued(r) \cup {NULL}
    BY <1>2 DEF Ended
  <2>2. ASSUME s.executing # NULL
        PROVE  D[s.executing] = 1 .. s.transferTotal[s.executing]
    <3>1. D[s.executing] = {} /\ s.transferTotal[s.executing] = 0
      BY <2>1, <2>2 DEF DataOf
    <3>2. 1 .. 0 = {}
      OBVIOUS
    <3> QED
      BY <3>1, <3>2
  <2> QED
    BY <2>1, <2>2 DEF DataOf
<1> QED
  BY <1>1, <1>2 DEF Onward

\* Of a disc that is not the game's nothing more than its ID is read.
LEMMA StaysSuspicious ==
  ASSUME NEW r, DriverInv(r), r.down = NULL, r.low # <<>>,
         NEW q, q = Head(r.low), q.reply # NULL, Suspicious(r),
         NEW s, Requests(r, q, s)
  PROVE  Suspicious(s)
<1>1. 1 \in DOMAIN r.low /\ q = r.low[1]
  BY DEF DriverInv, Driver
<1>2. /\ q.op # "UnencryptedRead"
      /\ q.cb = "CoverClosed" => q.reply.int # "TC" \/ q.reply.value # GameDisc
  BY <1>1 DEF Suspicious
<1>3. q.cb \in {"ReadingTOC", "ReadingPartitionInfo"}
        => q.op = "UnencryptedRead"
  BY HeadFits DEF CarriesOn, Fits, StepCallbacks
<1>4. ~Identifies(q)
  BY <1>2, <1>3 DEF Identifies
<1> QED
  BY <1>4 DEF Requests, Suspicious

\* A request ends, and its callback is called.
LEMMA RequestStep ==
  ASSUME DVDInv, RequestEnds, ContextMax >= 3
  PROVE  /\ DVDInv'
         /\ \E n : /\ n = Counted(dvd, Head(dvd.low)) /\ Onward(n, dvd')
                   /\ DataOf(n, data, FALSE) /\ ~ReadDone(dvd')
<1> DEFINE q == Head(dvd.low)
           n == Counted(dvd, q)
<1>1. /\ dvd.down = NULL /\ dvd.low # <<>> /\ q.reply # NULL
      /\ DriverInv(dvd) /\ dvd' = Deliver(dvd)
      /\ UNCHANGED <<waiting, issued, asked, data, driveVars>>
  BY DEF RequestEnds, Up, clientUnchanged, DVDInv
<1>2. q = Head(dvd.low) /\ n = Counted(dvd, q)
  OBVIOUS
<1> HIDE DEF q, n
<1>3. DriverInv(dvd') /\ Onward(n, dvd') /\ Requests(dvd, q, dvd')
  <2>1. Queued(dvd) \cap InquiryBlock = {}
    BY DEF DVDInv, InquiryInv
  <2> QED
    BY <1>1, <1>2, <2>1, DeliverEffect
<1>4. /\ n.executing = dvd.executing /\ Queued(n) = Queued(dvd)
      /\ n.answer = dvd.answer /\ n.Canceling = dvd.Canceling
  BY <1>1, <1>2, CountedEffect
<1>5. DataOf(n, data, FALSE) /\ \A b \in Queued(n) : n.transferTotal[b] = 0
  BY <1>1, <1>2, CountedData DEF DVDInv
<1>6. dvd'.low \in Seq(Request) /\ ~ReadDone(dvd')
  <2>1. dvd'.low \in Seq(Request)
    BY <1>3 DEF DriverInv, Driver
  <2> QED
    BY <1>3, <2>1, NewNotDone DEF Requests
<1>7. DataOf(dvd', data', ReadDone(dvd'))
  <2>1. DataOf(dvd', data, FALSE)
    BY <1>3, <1>5, OnwardData
  <2> QED
    BY <1>1, <1>6, <2>1 DEF DataOf
<1>8. AskedOf(dvd', asked')
  <2>1. AskedOf(n, asked)
    BY <1>4 DEF DVDInv, AskedOf
  <2> QED
    BY <1>1, <1>3, <2>1, AskedOnward
<1>9. issued # 0
  BY <1>1, IssuedBefore
<1>10. InquiryInv'
  <2>1. Queued(dvd') \subseteq Queued(dvd)
    BY <1>3, <1>4 DEF Onward, Ended, SameCommands
  <2> QED
    BY <1>1, <1>9, <2>1 DEF DVDInv, InquiryInv
<1>11. DiscInv'
  <2>1. Suspicious(dvd) => Suspicious(dvd')
    BY <1>1, <1>2, <1>3, StaysSuspicious
  <2> QED
    BY <1>1, <2>1 DEF DVDInv, DiscInv, driveVars
<1>12. DVDInv'
  BY <1>1, <1>3, <1>7, <1>8, <1>10, <1>11 DEF DVDInv
<1> QED
  BY <1>2, <1>3, <1>5, <1>6, <1>12

\* New requests are not those of a finished read.
LEMMA AddsDone ==
  ASSUME NEW r, NEW s, r.low \in Seq(Request), s.low \in Seq(Request),
         Adds(r, s), ReadDone(s)
  PROVE  ReadDone(r)
<1>1. 1 \in DOMAIN s.low /\ Head(s.low) = s.low[1]
  BY DEF ReadDone
<1>2. 1 \in DOMAIN r.low /\ s.low[1] = r.low[1]
  BY <1>1 DEF Adds, ReadDone
<1>3. r.low # <<>> /\ Head(r.low) = r.low[1]
  BY <1>2
<1> QED
  BY <1>1, <1>2, <1>3 DEF ReadDone

\* A command that is issued has no data.
LEMMA IssuedData ==
  ASSUME NEW r, DriverInv(r), r.down = NULL, NEW s, DriverInv(s),
         NEW b \in Block, NEW n, Issued(r, s, b, n),
         NEW D, DataOf(r, D, ReadDone(r)), NEW F, F = [D EXCEPT ![b] = {}]
  PROVE  DataOf(s, F, ReadDone(s))
<1>1. DOMAIN F = Block /\ \A x \in Block : F[x] = IF x = b THEN {} ELSE D[x]
  BY DEF DataOf
<1>2. \A x \in Queued(r) : x \in Block /\ r.transferTotal[x] = 0 /\ D[x] = {}
  BY QueuedMembers, MembersAreBlocks DEF DriverInv, Blocks, Others, DataOf
<1>3. r.transferTotal \in [Block -> Nat]
  BY DEF DriverInv, Driver
<1>4. \A x \in Block : s.transferTotal[x] = IF x = b THEN 0
                                            ELSE r.transferTotal[x]
  BY <1>3 DEF Issued
<1>5. \A x \in Queued(r) \cup {b} : F[x] = {} /\ s.transferTotal[x] = 0
  BY <1>1, <1>2, <1>4
<1>6. \A x \in Queued(s) : F[x] = {}
  BY <1>5 DEF Issued
<1>7. ASSUME s.executing # NULL, s.executing \notin InquiryBlock
      PROVE  F[s.executing] = 1 .. (IF ReadDone(s)
                                    THEN s.transferTotal[s.executing] + 1
                                    ELSE s.transferTotal[s.executing])
  <2>1. CASE r.executing = NULL
    <3>1. s.executing \in Queued(r) \cup {b}
      BY <1>7, <2>1 DEF Issued
    <3>2. ~ReadDone(r)
      BY <2>1, DoneExecutes
    <3>3. ~ReadDone(s)
      BY <3>2, AddsDone DEF Issued, DriverInv, Driver
    <3>4. F[s.executing] = {} /\ s.transferTotal[s.executing] = 0
      BY <1>5, <3>1
    <3>5. 1 .. 0 = {}
      OBVIOUS
    <3> QED
      BY <3>3, <3>4, <3>5
  <2>2. CASE r.executing # NULL
    <3>1. s.executing = r.executing /\ s.low = r.low /\ s.executing # b
      BY <2>2 DEF Issued
    <3>2. r.executing \in Block
      BY <2>2 DEF DriverInv, Driver
    <3>3. ReadDone(s) <=> ReadDone(r)
      BY <3>1 DEF ReadDone
    <3>4. F[s.executing] = D[r.executing]
          /\ s.transferTotal[s.executing] = r.transferTotal[r.executing]
      BY <1>1, <1>4, <3>1, <3>2
    <3> QED
      BY <1>7, <2>2, <3>1, <3>3, <3>4 DEF DataOf
  <2> QED
    BY <2>1, <2>2
<1> QED
  BY <1>1, <1>6, <1>7 DEF DataOf

\* Nobody asked yet for the cancellation of a command that is issued.
LEMMA IssuedAsked ==
  ASSUME NEW r, DriverInv(r), NEW s, NEW b \in Block, NEW n,
         Issued(r, s, b, n), NEW A, AskedOf(r, A)
  PROVE  AskedOf(s, A \ {b})
<1>1. r.Canceling => r.executing # NULL /\ r.executing \in Block
  BY DEF DriverInv, CancelsWork, Driver
<1>2. ASSUME NEW a \in A \ {b}, s.answer[a] = "due"
      PROVE  a = s.executing /\ s.Canceling
  <2>1. a \in Block
    BY <1>2 DEF AskedOf
  <2>2. r.answer[a] = "due"
    BY <1>2, <2>1 DEF Issued
  <2>3. a = r.executing /\ r.Canceling
    BY <1>2, <2>2 DEF AskedOf
  <2> QED
    BY <1>1, <2>3 DEF Issued
<1>3. ASSUME s.Canceling, s.answer[s.executing] = "due"
      PROVE  s.executing \in A \ {b}
  <2>1. r.Canceling
    BY <1>3 DEF Issued
  <2>2. s.executing = r.executing /\ r.executing # b /\ r.executing \in Block
    BY <1>1, <2>1 DEF Issued
  <2>3. r.answer[r.executing] = "due"
    BY <1>3, <2>2 DEF Issued
  <2> QED
    BY <2>1, <2>2, <2>3 DEF AskedOf
<1>4. A \ {b} \subseteq Block
  BY DEF AskedOf
<1> QED
  BY <1>2, <1>3, <1>4 DEF AskedOf

\* A command is issued.
LEMMA IssueStep ==
  ASSUME DVDInv, NEW b \in Block, NEW n \in Nat, NEW p \in Prio,
         NEW cb \in {"async", "sync"}, issueCommand(b, n, p, cb),
         b \notin InquiryBlock \/ issued = 0, UNCHANGED driveVars,
         waiting' \subseteq {"read", "cancel"} \X Block, ContextMax >= 3
  PROVE  DVDInv' /\ Issued(dvd, dvd', b, n)
<1> DEFINE push == [dvd EXCEPT !.length[b] = n, !.transferTotal[b] = 0,
                               !.callback[b] = cb, !.answer[b] = "due",
                               !.state[b] = "WAITING",
                               !.WaitingQueue[p] = Append(@, b)]
<1>1. /\ dvd.down = NULL /\ DriverInv(dvd)
      /\ dvd.answer[b] \notin {"due", "dropped"}
      /\ dvd' = IF dvd.executing = NULL THEN stateReady(push) ELSE push
      /\ issued' = issued + 1 /\ asked' = asked \ {b}
      /\ data' = [data EXCEPT ![b] = {}]
  BY DEF issueCommand, Up, Free, DVDInv
<1>2. Pushed(dvd, push, b, n)
  BY <1>1, PushEffect
<1> HIDE DEF push
<1>3. /\ Queued(dvd) \cap InquiryBlock = {} /\ issued \in Nat
      /\ issued = 0 => /\ dvd.executing = NULL /\ Queued(dvd) = {}
                       /\ dvd.ResumeFromHere = "NONE"
  BY DEF DVDInv, InquiryInv
<1>4. \/ (Queued(dvd) \cup {b}) \cap InquiryBlock = {}
      \/ dvd.ResumeFromHere = "NONE"
  BY <1>3
<1>5. DriverInv(dvd') /\ Issued(dvd, dvd', b, n)
  BY <1>1, <1>2, <1>4, IssueEffect
<1>6. InquiryInv'
  <2>1. CASE b \notin InquiryBlock
    <3>1. Queued(dvd') \subseteq Queued(dvd) \cup {b}
      BY <1>5 DEF Issued
    <3> QED
      BY <1>1, <1>3, <2>1, <3>1 DEF InquiryInv
  <2>2. CASE issued = 0
    <3>1. Queued(dvd') = {}
      BY <1>3, <1>5, <2>2 DEF Issued
    <3> QED
      BY <1>1, <1>3, <3>1 DEF InquiryInv
  <2> QED
    BY <2>1, <2>2
<1>7. AskedOf(dvd', asked')
  BY <1>1, <1>5, IssuedAsked DEF DVDInv
<1>8. DataOf(dvd', data', ReadDone(dvd'))
  BY <1>1, <1>5, IssuedData DEF DVDInv
<1>9. DiscInv'
  <2>1. Suspicious(dvd) => Suspicious(dvd')
    BY <1>5, AddsSuspicious DEF Issued
  <2> QED
    BY <2>1 DEF DVDInv, DiscInv, driveVars
<1> QED
  BY <1>5, <1>6, <1>7, <1>8, <1>9 DEF DVDInv

\* A priority is a small number.
LEMMA LastPrio == Max(Prio) \in Prio
<1>1. Prio \subseteq 0 .. 3 /\ Prio # {}
  BY DVDAssumption
<1>2. \E x \in Prio : \A y \in Prio : x >= y
  <2>1. CASE 3 \in Prio
    BY <1>1, <2>1
  <2>2. CASE 3 \notin Prio /\ 2 \in Prio
    BY <1>1, <2>2
  <2>3. CASE 3 \notin Prio /\ 2 \notin Prio /\ 1 \in Prio
    BY <1>1, <2>3
  <2>4. CASE 3 \notin Prio /\ 2 \notin Prio /\ 1 \notin Prio
    <3>1. \A y \in Prio : y = 0
      BY <1>1, <2>4
    <3>2. PICK x \in Prio : TRUE
      BY <1>1
    <3>3. \A y \in Prio : x >= y
      BY <3>1
    <3> QED
      BY <3>3
  <2> QED
    BY <2>1, <2>2, <2>3, <2>4
<1> QED
  BY <1>2 DEF Max

\* The three calls that issue commands.
LEMMA CallSteps ==
  ASSUME DVDInv, NEW b \in Block, ContextMax >= 3,
         DVDReadPrio(b) \/ DVDReadAsyncPrio(b) \/ DVDInquiryAsync(b)
  PROVE  DVDInv' /\ \E n \in Nat : Issued(dvd, dvd', b, n)
<1>1. waiting \subseteq {"read", "cancel"} \X Block
  BY DEF DVDInv
<1>2. Lengths[b] \subseteq Nat /\ SyncBlock \subseteq Block \ InquiryBlock
  BY DVDAssumption
<1>3. CASE DVDReadPrio(b)
  <2>1. PICK n \in Lengths[b], p \in Prio : issueCommand(b, n, p, "sync")
    BY <1>3 DEF DVDReadPrio
  <2>2. /\ b \in SyncBlock /\ waiting' = waiting \cup {Reader(b)}
        /\ UNCHANGED driveVars
    BY <1>3 DEF DVDReadPrio
  <2>3. waiting' \subseteq {"read", "cancel"} \X Block
    BY <1>1, <2>2 DEF Reader
  <2>4. n \in Nat /\ b \notin InquiryBlock
    BY <1>2, <2>2
  <2> QED
    BY <2>1, <2>2, <2>3, <2>4, IssueStep
<1>4. CASE DVDReadAsyncPrio(b)
  <2>1. PICK n \in Lengths[b], p \in Prio : issueCommand(b, n, p, "async")
    BY <1>4 DEF DVDReadAsyncPrio
  <2>2. b \notin InquiryBlock /\ UNCHANGED <<waiting, driveVars>>
    BY <1>4 DEF DVDReadAsyncPrio
  <2> QED
    BY <1>1, <1>2, <2>1, <2>2, IssueStep
<1>5. CASE DVDInquiryAsync(b)
  <2>1. /\ issued = 0 /\ issueCommand(b, 1, Max(Prio), "async")
        /\ UNCHANGED <<waiting, driveVars>>
    BY <1>5 DEF DVDInquiryAsync
  <2>2. Max(Prio) \in Prio
    BY LastPrio
  <2> QED
    BY <1>1, <2>1, <2>2, IssueStep
<1> QED
  BY <1>3, <1>4, <1>5

\* The outcomes of a cancellation.
Canceled(r, s, b) ==
    \/ Called(r, s) /\ (r.answer[b] = "due" => b = r.executing /\ r.Canceling)
    \/ Withdrawn(r, s, b) \/ Told(r, s, b) \/ Abandoned(r, s, b)

\* The requests and the data after it.
LEMMA CanceledKeeps ==
  ASSUME NEW r, DriverInv(r), NEW s, DriverInv(s), NEW b \in Block,
         Canceled(r, s, b), NEW D, DataOf(r, D, ReadDone(r))
  PROVE  /\ DataOf(s, D, ReadDone(s)) /\ (Suspicious(r) => Suspicious(s))
         /\ Queued(s) \subseteq Queued(r)
<1>1. r.low \in Seq(Request) /\ s.low \in Seq(Request)
  BY DEF DriverInv, Driver
<1>2. CASE Called(r, s) \/ Withdrawn(r, s, b) \/ Told(r, s, b)
  <2>1. /\ s.low = r.low /\ s.executing = r.executing
        /\ Queued(s) \subseteq Queued(r) /\ s.transferTotal = r.transferTotal
    BY <1>2 DEF Called, Withdrawn, Told
  <2>2. (ReadDone(s) <=> ReadDone(r)) /\ (Suspicious(r) => Suspicious(s))
    BY <2>1 DEF ReadDone, Suspicious
  <2> QED
    BY <2>1, <2>2, DataKept
<1>3. CASE Abandoned(r, s, b)
  <2>1. /\ s.executing \in Queued(r) \cup {NULL}
        /\ Queued(s) \subseteq Queued(r) /\ s.transferTotal = r.transferTotal
        /\ LowKept(r, s)
    BY <1>3 DEF Abandoned, Ended, LowKept
  <2>2. (ReadDone(s) <=> ReadDone(r)) /\ Adds(r, s)
    BY <1>1, <2>1, LowKeptDone
  <2>3. ~ReadDone(r)
    BY <1>3 DEF Abandoned, ReadDone
  <2> QED
    BY <2>1, <2>2, <2>3, DataKept, AddsSuspicious
<1> QED
  BY <1>2, <1>3 DEF Canceled

\* Its command is one whose cancellation was asked for.
LEMMA CanceledAsked ==
  ASSUME NEW r, DriverInv(r), NEW s, NEW b \in Block, Canceled(r, s, b),
         NEW A, AskedOf(r, A),
         NEW B, B = IF r.answer[b] = "due" THEN A \cup {b} ELSE A
  PROVE  AskedOf(s, B)
<1>1. r.Canceling => r.executing # NULL /\ r.executing \in Block
  BY DEF DriverInv, CancelsWork, Driver
<1>2. r.executing \notin Queued(r)
  BY DEF DriverInv, Blocks, Others
<1>3. B \subseteq Block
  BY DEF AskedOf
<1>4. CASE Called(r, s) /\ (r.answer[b] = "due"
                              => b = r.executing /\ r.Canceling)
  BY <1>3, <1>4 DEF Called, AskedOf
<1>5. CASE Withdrawn(r, s, b)
  <2>1. ASSUME NEW a \in B, s.answer[a] = "due"
        PROVE  a = s.executing /\ s.Canceling
    <3>1. a # b
      BY <1>5, <2>1 DEF Withdrawn
    <3>2. r.answer[a] = "due" /\ a \in A
      BY <1>3, <1>5, <2>1, <3>1 DEF Withdrawn
    <3> QED
      BY <1>5, <3>2 DEF Withdrawn, AskedOf
  <2>2. ASSUME s.Canceling, s.answer[s.executing] = "due"
        PROVE  s.executing \in B
    <3>1. r.Canceling /\ s.executing = r.executing /\ s.executing # b
      BY <1>2, <1>5, <2>2 DEF Withdrawn
    <3>2. r.answer[r.executing] = "due"
      BY <1>1, <1>5, <2>2, <3>1 DEF Withdrawn
    <3> QED
      BY <3>1, <3>2 DEF AskedOf
  <2> QED
    BY <1>3, <2>1, <2>2 DEF AskedOf
<1>6. CASE Told(r, s, b)
  BY <1>3, <1>6 DEF Told, AskedOf
<1>7. CASE Abandoned(r, s, b)
  <2>1. ASSUME NEW a \in B, s.answer[a] = "due" PROVE FALSE
    <3>1. a # r.executing /\ ~r.Canceling
      BY <1>7, <2>1 DEF Abandoned, Ended
    <3>2. a \in A
      BY <1>7, <3>1 DEF Abandoned
    <3>3. r.answer[a] = "due"
      BY <1>3, <1>7, <2>1 DEF Abandoned, Ended
    <3> QED
      BY <3>1, <3>2, <3>3 DEF AskedOf
  <2>2. ~s.Canceling
    BY <1>7 DEF Abandoned, Ended
  <2> QED
    BY <1>3, <2>1, <2>2 DEF AskedOf
<1> QED
  BY <1>4, <1>5, <1>6, <1>7 DEF Canceled

\* A cancellation is asked for.
LEMMA CancelStep ==
  ASSUME DVDInv, NEW b \in Block, NEW cb \in {"async", "sync"},
         DVDCancelAsync(b, cb), waiting' \subseteq {"read", "cancel"} \X Block,
         ~PollCancel, ContextMax >= 3
  PROVE  DVDInv' /\ Canceled(dvd, dvd', b)
<1>1. /\ dvd.down = NULL /\ DriverInv(dvd) /\ dvd' = CancelAsync(dvd, b, cb)
      /\ asked' = (IF dvd.answer[b] = "due" THEN asked \cup {b} ELSE asked)
      /\ UNCHANGED <<issued, data, driveVars>>
  BY DEF DVDCancelAsync, Up, DVDInv
<1>2. /\ dvd.answer[b] # "dropped"
      /\ ~(dvd.PreparingCover /\ dvd.state[b] \in CoverWaits)
  BY DVDAssumption DEF DVDCancelAsync, MayCancel
<1>3. Queued(dvd) \cap InquiryBlock = {}
  BY DEF DVDInv, InquiryInv
<1>4. DriverInv(dvd') /\ Canceled(dvd, dvd', b)
  BY <1>1, <1>2, <1>3, CancelEffect DEF Canceled
<1>5. /\ DataOf(dvd', data', ReadDone(dvd'))
      /\ Suspicious(dvd) => Suspicious(dvd')
      /\ Queued(dvd') \subseteq Queued(dvd)
  BY <1>1, <1>4, CanceledKeeps DEF DVDInv
<1>6. AskedOf(dvd', asked')
  BY <1>1, <1>4, CanceledAsked DEF DVDInv
<1>7. InquiryInv'
  <2>1. CASE issued = 0
    <3>1. dvd.executing = NULL /\ Queued(dvd) = {} /\ b # NULL
      BY <2>1, DVDAssumption DEF DVDInv, InquiryInv
    <3>2. Called(dvd, dvd')
      BY <1>4, <3>1 DEF Canceled, Withdrawn, Told, Abandoned
    <3> QED
      BY <1>1, <3>2 DEF Called, DVDInv, InquiryInv
  <2>2. CASE issued # 0
    BY <1>1, <1>5, <2>2 DEF DVDInv, InquiryInv
  <2> QED
    BY <2>1, <2>2
<1>8. DiscInv'
  BY <1>1, <1>5 DEF DVDInv, DiscInv, driveVars
<1> QED
  BY <1>4, <1>5, <1>6, <1>7, <1>8 DEF DVDInv

\* The two calls that cancel commands.
LEMMA CancelSteps ==
  ASSUME DVDInv, NEW b \in Block, CancelWithoutWait(b) \/ DVDCancel(b),
         ~PollCancel, ContextMax >= 3
  PROVE  /\ DVDInv' /\ Canceled(dvd, dvd', b)
         /\ dvd.answer[b] = "due" => b \in asked'
<1>1. waiting \subseteq {"read", "cancel"} \X Block
  BY DEF DVDInv
<1>2. PICK cb \in {"async", "sync"} : DVDCancelAsync(b, cb)
  BY DEF CancelWithoutWait, DVDCancel
<1>3. waiting' \subseteq {"read", "cancel"} \X Block
  BY <1>1 DEF CancelWithoutWait, DVDCancel, Canceller
<1>4. dvd.answer[b] = "due" => b \in asked'
  BY <1>2 DEF DVDCancelAsync
<1> QED
  BY <1>2, <1>3, <1>4, CancelStep

\* The driver is prepared for a reset.
LEMMA PrepareStep ==
  ASSUME DVDInv, __DVDPrepareReset, ~PollCancel, ContextMax >= 3
  PROVE  DVDInv' /\ ResetBegun(dvd, dvd')
<1>1. /\ dvd.down = NULL /\ DriverInv(dvd)
      /\ dvd' = __DVDPrepareResetAsync(dvd)
      /\ UNCHANGED <<waiting, issued, asked, data, driveVars>>
  BY DEF __DVDPrepareReset, Up, clientUnchanged, DVDInv
<1>2. dvd.executing # NULL
        => ~(dvd.PreparingCover /\ dvd.state[dvd.executing] \in CoverWaits)
  BY DEF __DVDPrepareReset, MayCancel
<1>3. DriverInv(dvd') /\ ResetBegun(dvd, dvd')
  BY <1>1, <1>2, PrepareEffect
<1>4. LowKept(dvd, dvd') /\ dvd'.low \in Seq(Request)
  BY <1>3 DEF ResetBegun, LowKept, DriverInv, Driver
<1>5. (ReadDone(dvd') <=> ReadDone(dvd)) /\ Adds(dvd, dvd')
  BY <1>4, LowKeptDone
<1>6. DataOf(dvd', data', ReadDone(dvd'))
  <2>1. dvd'.executing # dvd.executing => ~ReadDone(dvd')
    <3>1. ASSUME dvd'.executing # dvd.executing, ReadDone(dvd) PROVE FALSE
      <4>1. dvd.low = <<>>
        BY <1>3, <3>1 DEF ResetBegun
      <4> QED
        BY <3>1, <4>1 DEF ReadDone
    <3> QED
      BY <1>5, <3>1
  <2> QED
    BY <1>1, <1>3, <1>5, <2>1, DataKept DEF DVDInv, ResetBegun
<1>7. AskedOf(dvd', asked')
  <2>1. ASSUME NEW a \in asked, dvd'.answer[a] = "due"
        PROVE  a = dvd'.executing /\ dvd'.Canceling
    <3>1. a \in Block /\ dvd.answer[a] = "due"
      BY <1>3, <2>1 DEF DVDInv, AskedOf, ResetBegun
    <3>2. a = dvd.executing /\ dvd.Canceling
      BY <3>1 DEF DVDInv, AskedOf
    <3> QED
      BY <1>3, <3>2 DEF ResetBegun
  <2>2. ASSUME dvd'.Canceling, dvd'.answer[dvd'.executing] = "due"
        PROVE  dvd'.executing \in asked
    <3>1. dvd.Canceling /\ dvd'.executing = dvd.executing
      BY <1>3, <2>2 DEF ResetBegun
    <3>2. dvd.executing \in Block
      BY <1>1, <3>1 DEF DriverInv, CancelsWork, Driver
    <3>3. dvd.answer[dvd.executing] = "due"
      BY <1>3, <2>2, <3>1, <3>2 DEF ResetBegun
    <3> QED
      BY <3>1, <3>3 DEF DVDInv, AskedOf
  <2> QED
    BY <1>1, <2>1, <2>2 DEF DVDInv, AskedOf
<1>8. InquiryInv'
  <2>1. CASE issued = 0
    <3>1. dvd.executing = NULL
      BY <2>1 DEF DVDInv, InquiryInv
    <3> QED
      BY <1>1, <1>3, <3>1 DEF ResetBegun, DVDInv, InquiryInv
  <2>2. CASE issued # 0
    BY <1>1, <1>3, <2>2 DEF ResetBegun, DVDInv, InquiryInv
  <2> QED
    BY <2>1, <2>2
<1>9. DiscInv'
  BY <1>1, <1>5, AddsSuspicious DEF DVDInv, DiscInv, driveVars
<1> QED
  BY <1>1, <1>3, <1>6, <1>7, <1>8, <1>9 DEF DVDInv

\* Every step keeps the invariant.
LEMMA NextInv ==
  ASSUME DVDInv, [Next]_vars, ~PollCancel, ContextMax >= 3
  PROVE  DVDInv'
<1>1. CASE UNCHANGED vars
  <2>1. UNCHANGED <<dvd, waiting, issued, asked, data, disc, phase, cvrint,
                    sense, faults, swaps>>
    BY <1>1 DEF vars, driveVars
  <2>2. InquiryInv' /\ DiscInv'
    BY <2>1 DEF DVDInv, InquiryInv, DiscInv
  <2> QED
    BY <2>1, <2>2 DEF DVDInv
<1>2. ASSUME NEW b \in Block,
             DVDReadPrio(b) \/ DVDReadAsyncPrio(b) \/ DVDInquiryAsync(b)
      PROVE  DVDInv'
  BY <1>2, CallSteps
<1>3. ASSUME NEW b \in Block, CancelWithoutWait(b) \/ DVDCancel(b)
      PROVE  DVDInv'
  BY <1>3, CancelSteps
<1>4. ASSUME NEW t \in waiting, Look(t) PROVE DVDInv'
  BY <1>4, LookStep
<1>5. CASE __DVDPrepareReset
  BY <1>5, PrepareStep
<1>6. CASE DriveAnswers
  BY <1>6, DriveStep
<1>7. CASE RequestEnds
  BY <1>7, RequestStep
<1>8. CASE ErrorCodeStored
  BY <1>8, StoredStep
<1>9. CASE ResetAlarmFires
  BY <1>9, ResetAlarmStep
<1>10. CASE CoverAlarmHandler
  BY <1>10, CoverAlarmStep
<1>11. CASE UserSwaps
  BY <1>11, SwapStep
<1> QED
  BY <1>1, <1>2, <1>3, <1>4, <1>5, <1>6, <1>7, <1>8, <1>9, <1>10, <1>11
     DEF Next

\* In every state the driver, its commands, its requests and the history of both
\* fit together.  ContextMax is 4 in the code.
THEOREM DriverInvariant ==
  ASSUME ~PollCancel, ContextMax >= 3
  PROVE  Spec => []DVDInv
<1>1. Init => DVDInv
  BY InitInv
<1>2. DVDInv /\ [Next]_vars => DVDInv'
  BY NextInv
<1> QED
  BY <1>1, <1>2, PTL DEF Spec

\* What is executed has one continuation.
LEMMA OneContinuation ==
  ASSUME DVDInv
  PROVE  OneCommandOutstanding
<1> DEFINE count(c) == IF c THEN 1 ELSE 0
           e == dvd.executing
<1> SUFFICES ASSUME Up
             PROVE  Cardinality(Steps) + count(dvd.storing # NULL)
                      + count(dvd.ResetAlarm)
                      + count(InCoverWait /\ dvd.CoverAlarm)
                    = count(e # NULL)
  BY DEF OneCommandOutstanding
<1>1. DriverInv(dvd) /\ dvd.down = NULL
  BY DEF Up, DVDInv
<1>2. InCoverWait <=> Waits(dvd, e)
  BY DEF InCoverWait, Waits
<1>3. \A q \in Request : CarriesOn(dvd, e, q)
        => q.cb \notin {NULL, "PrepareCover"}
  BY Names DEF CarriesOn, StepCallbacks
<1>4. ASSUME dvd.low = <<>> PROVE Cardinality(Steps) = 0
  <2>1. Steps = {}
    BY <1>4 DEF Steps
  <2> QED
    BY <2>1, FS_EmptySet
<1>5. ASSUME NEW q \in Request, dvd.low = <<q>>
      PROVE  Cardinality(Steps) = IF q.cb \in {NULL, "PrepareCover"} THEN 0
                                  ELSE 1
  <2>1. DOMAIN <<q>> = {1} /\ <<q>>[1] = q
    OBVIOUS
  <2>2. Steps = IF q.cb \in {NULL, "PrepareCover"} THEN {} ELSE {1}
    BY <1>5, <2>1 DEF Steps
  <2> QED
    BY <2>2, FS_EmptySet, FS_Singleton
<1>6. ASSUME NEW c \in Request, NEW q \in Request, dvd.low = <<c, q>>,
             c.cb = NULL, q.cb \notin {NULL, "PrepareCover"}
      PROVE  Cardinality(Steps) = 1
  <2>1. DOMAIN <<c, q>> = {1, 2} /\ <<c, q>>[1] = c /\ <<c, q>>[2] = q
    OBVIOUS
  <2>2. Steps = {2}
    BY <1>6, <2>1 DEF Steps
  <2> QED
    BY <2>2, FS_Singleton
<1>7. CASE Working1(dvd)
  <2>1. count(e # NULL) = 1 /\ count(InCoverWait /\ dvd.CoverAlarm) = 0
    BY <1>2, <1>7 DEF Working1
  <2>2. CASE dvd.low = <<>> /\ dvd.storing # NULL /\ ~dvd.ResetAlarm
    BY <1>4, <2>1, <2>2
  <2>3. CASE dvd.low = <<>> /\ dvd.storing = NULL /\ dvd.ResetAlarm
    BY <1>4, <2>1, <2>3
  <2>4. ASSUME dvd.storing = NULL, ~dvd.ResetAlarm, NEW q \in Request,
               CarriesOn(dvd, e, q),
               \/ dvd.low = <<q>>
               \/ \E c \in Request :
                    /\ c.cb = NULL /\ c.op = "ClearCoverInterrupt"
                    /\ dvd.low = <<c, q>>
        PROVE  /\ Cardinality(Steps) = 1 /\ count(dvd.storing # NULL) = 0
               /\ count(dvd.ResetAlarm) = 0
    BY <1>3, <1>5, <1>6, <2>4
  <2> HIDE DEF count
  <2> QED
    BY <1>7, <2>1, <2>2, <2>3, <2>4 DEF Working1
<1>8. CASE Resting(dvd)
  <2>1. /\ count(dvd.storing # NULL) = 0 /\ count(dvd.ResetAlarm) = 0
        /\ e = NULL \/ Waits(dvd, e)
    BY <1>8 DEF Resting
  <2>2. Cardinality(Steps) = 0
    BY <1>4, <1>5, <1>8 DEF Resting
  <2>3. count(InCoverWait /\ dvd.CoverAlarm) = count(e # NULL)
    <3>1. Waits(dvd, e) => dvd.CoverAlarm /\ e # NULL
      BY <1>1 DEF DriverInv, Cover, Waits
    <3>2. e = NULL => ~Waits(dvd, e)
      BY DEF Waits
    <3> QED
      BY <1>2, <2>1, <3>1, <3>2
  <2>4. count(e # NULL) \in {0, 1}
    OBVIOUS
  <2> HIDE DEF count
  <2> QED
    BY <2>1, <2>2, <2>3, <2>4
<1> QED
  BY <1>1, <1>7, <1>8, DriverCases

\* Blocks say truly that they wait.
LEMMA QueuesTold ==
  ASSUME DVDInv
  PROVE  WaitingExact
<1>1. DriverInv(dvd)
  BY DEF DVDInv
<1>2. Blocks(dvd, dvd.executing)
  BY <1>1 DEF DriverInv
<1>3. ASSUME NEW b \in Block, dvd.answer[b] # "dropped",
             dvd.state[b] = "WAITING"
      PROVE  b \in Queued(dvd)
  <2>1. b # dvd.executing
    BY <1>2, <1>3, DVDAssumption DEF Blocks, Working, CoverWaits
  <2> QED
    BY <1>2, <1>3, <2>1 DEF Blocks, Others
<1> QED
  BY <1>2, <1>3 DEF Blocks, Others, WaitingExact

\* The driver as a whole stays exact: its blocks, its queues and the one thing
\* it does fit together, and no callback meets what it cannot handle, for any
\* number of commands, priorities and lengths, discs and failures.
THEOREM DriverStaysExact ==
  ASSUME ~PollCancel, ContextMax >= 3
  PROVE  Spec => []DriverExact
<1>1. DVDInv => DriverExact
  <2> SUFFICES ASSUME DVDInv PROVE DriverExact
    OBVIOUS
  <2>1. dvd \in Driver
    BY DEF DVDInv, DriverInv
  <2>2. TypeOK
    BY <2>1 DEF Driver, TypeOK
  <2>3. NoFault
    BY <2>1, NullAssumption DEF Driver, NoFault
  <2> QED
    BY <2>2, <2>3, OneContinuation, QueuesTold DEF DriverExact
<1> QED
  BY <1>1, DriverInvariant, PTL

-----------------------------------------------------------------------------
(* The abstract service. *)

\* The commands are answered or dropped as the service allows: a step that
\* changes no answer, sets no break and ends no reset.
LEMMA QuietService ==
  ASSUME dvd'.answer = dvd.answer, dvd'.Breaking => dvd.Breaking,
         Resetting => Resetting'
  PROVE  Service!Step
<1>1. Service!Changed = {}
  BY DEF Service!Changed
<1>2. Service!Uncalled = {}
  BY <1>1 DEF Service!Uncalled
<1> QED
  BY <1>1, <1>2 DEF Service!Step

\* A command ends, and after it the ones that read nothing.
LEMMA EndedService ==
  ASSUME NEW n, n.answer = dvd.answer, n.length = dvd.length,
         n.Breaking = dvd.Breaking, n.Prepared = dvd.Prepared,
         n.executing \in Block, NEW result \in {"good", "canceled"},
         Ended(n, dvd', result), \A b \in Queued(n) : data'[b] = {},
         result = "good" => \/ n.executing \in InquiryBlock
                            \/ data'[n.executing] = 1 .. n.length[n.executing],
         result = "canceled" =>
           \/ dvd.answer[n.executing] = "due" => n.executing \in asked'
           \/ dvd.Breaking /\ ~dvd'.Breaking
  PROVE  Service!Step
<1> DEFINE e == n.executing
           complete == {b \in Block :
                          b \in InquiryBlock \/ data'[b] = 1 .. dvd'.length[b]}
<1>1. \A b \in Block : dvd'.answer[b] # dvd.answer[b]
        => /\ dvd.answer[b] = "due"
           /\ \/ b = e /\ dvd'.answer[b] = result
              \/ b \in Queued(n) /\ n.length[b] = 0 /\ dvd'.answer[b] = "good"
  BY DEF Ended
<1>2. dvd'.length = n.length /\ 1 .. 0 = {}
  BY DEF Ended
<1>3. \A b \in Block : dvd'.answer[b] # dvd.answer[b]
        => /\ dvd.answer[b] = "due"
           /\ \/ dvd'.answer[b] = "good" /\ b \in complete
              \/ b = e /\ dvd'.answer[b] = "canceled" /\ result = "canceled"
  BY <1>1, <1>2
<1>4. Service!Uncalled \subseteq {e}
  BY <1>3 DEF Service!Uncalled, Service!Changed
<1>5. Service!Uncalled # {} => dvd.Breaking /\ ~dvd'.Breaking
  <2>1. ASSUME e \in Service!Uncalled PROVE dvd.Breaking /\ ~dvd'.Breaking
    BY <1>3, <2>1 DEF Service!Uncalled, Service!Changed
  <2> QED
    BY <1>4, <2>1
<1>6. Service!Uncalled # {} => Service!Uncalled = {e}
  BY <1>4
<1>7. /\ Resetting => Resetting'
      /\ dvd'.Breaking => dvd.Breaking
  BY DEF Ended, Resetting
<1>8. \A b \in Service!Changed :
        /\ \/ dvd'.answer[b] = "good" /\ b \in complete
           \/ dvd.answer[b] = "due" /\ dvd'.answer[b] = "canceled"
        /\ dvd.answer[b] # "dropped"
  BY <1>3 DEF Service!Changed
<1>9. \A b \in Service!Changed :
        \/ /\ dvd'.answer[b] = "good"
           /\ b \in {c \in Block : c \in InquiryBlock
                                   \/ data'[c] = 1 .. dvd'.length[c]}
        \/ dvd.answer[b] = "due" /\ dvd'.answer[b] = "canceled"
  BY <1>8
<1>10. \A b \in Service!Changed : dvd.answer[b] # "dropped"
  BY <1>8
<1>11. Service!Uncalled # {} => \E b \in Block : Service!Uncalled = {b}
  BY <1>6
<1> HIDE DEF e, complete
<1> QED
  BY <1>5, <1>7, <1>9, <1>10, <1>11 DEF Service!Step

\* A request ends.
LEMMA RequestService ==
  ASSUME DVDInv, RequestEnds, ContextMax >= 3
  PROVE  Service!Step
<1> DEFINE q == Head(dvd.low)
<1>1. /\ dvd.down = NULL /\ dvd.low # <<>> /\ q.reply # NULL
      /\ DriverInv(dvd) /\ UNCHANGED <<asked, data>>
  BY DEF RequestEnds, Up, clientUnchanged, DVDInv
<1>2. PICK n : /\ n = Counted(dvd, q) /\ Onward(n, dvd')
               /\ DataOf(n, data, FALSE)
  BY RequestStep
<1>3. /\ n.executing = dvd.executing /\ n.answer = dvd.answer
      /\ n.length = dvd.length /\ n.Canceling = dvd.Canceling
      /\ n.Breaking = dvd.Breaking /\ n.Prepared = dvd.Prepared
  BY <1>1, <1>2, CountedEffect
<1> DEFINE e == n.executing
<1>4. CASE SameCommands(n, dvd')
  BY <1>3, <1>4, QuietService DEF SameCommands, Resetting
<1>5. ASSUME e # NULL
      PROVE  e \in Block /\ \A b \in Queued(n) : data'[b] = {}
  BY <1>1, <1>2, <1>3, <1>5 DEF DataOf, DriverInv, Driver
<1>6. CASE /\ e # NULL /\ Ended(n, dvd', "good")
           /\ e \in InquiryBlock \/ n.transferTotal[e] = n.length[e]
  <2>1. e \in InquiryBlock \/ data'[e] = 1 .. n.length[e]
    BY <1>1, <1>2, <1>6 DEF DataOf
  <2> QED
    BY <1>3, <1>5, <1>6, <2>1, EndedService
<1>7. CASE /\ e # NULL /\ Ended(n, dvd', "canceled")
           /\ n.Canceling \/ (n.Breaking /\ ~dvd'.Breaking)
  <2>1. \/ dvd.answer[e] = "due" => e \in asked'
        \/ dvd.Breaking /\ ~dvd'.Breaking
    BY <1>1, <1>3, <1>7 DEF DVDInv, AskedOf
  <2> QED
    BY <1>3, <1>5, <1>7, <2>1, EndedService
<1> QED
  BY <1>2, <1>4, <1>6, <1>7 DEF Onward

\* A command is issued: it is due, or it reads nothing and has ended already.
LEMMA IssueService ==
  ASSUME DVDInv, NEW b \in Block, NEW n, Issued(dvd, dvd', b, n),
         dvd.answer[b] \notin {"due", "dropped"},
         data' = [data EXCEPT ![b] = {}]
  PROVE  Service!Step
<1>1. \A x \in Queued(dvd) : dvd.answer[x] = "due" /\ data[x] = {}
  BY DEF DVDInv, DriverInv, Blocks, Others, DataOf
<1>2. DOMAIN data = Block /\ 1 .. 0 = {}
  BY DEF DVDInv, DataOf
<1>3. \A x \in Block : dvd'.answer[x] # dvd.answer[x]
        => \/ dvd.answer[x] \notin {"due", "dropped"} /\ dvd'.answer[x] = "due"
           \/ /\ dvd.answer[x] # "dropped" /\ dvd'.answer[x] = "good"
              /\ data'[x] = 1 .. dvd'.length[x]
  BY <1>1, <1>2 DEF Issued
<1>4. Service!Uncalled = {}
  BY <1>3 DEF Service!Uncalled, Service!Changed
<1>5. dvd'.Breaking = dvd.Breaking /\ Resetting' = Resetting
  BY DEF Issued, Resetting
<1>6. \A x \in Service!Changed : x \in Block /\ dvd'.answer[x] # dvd.answer[x]
  BY DEF Service!Changed
<1> QED
  BY <1>3, <1>4, <1>5, <1>6 DEF Service!Step

\* The calls that issue.
LEMMA CallService ==
  ASSUME DVDInv, NEW b \in Block, ContextMax >= 3,
         DVDReadPrio(b) \/ DVDReadAsyncPrio(b) \/ DVDInquiryAsync(b)
  PROVE  Service!Step
<1>1. PICK n \in Nat : Issued(dvd, dvd', b, n)
  BY CallSteps
<1>2. /\ dvd.answer[b] \notin {"due", "dropped"}
      /\ data' = [data EXCEPT ![b] = {}]
  BY DEF DVDReadPrio, DVDReadAsyncPrio, DVDInquiryAsync, issueCommand, Free
<1> QED
  BY <1>1, <1>2, IssueService

\* The calls that cancel: what is cancelled, or is told to be, was asked for.
LEMMA CancelService ==
  ASSUME DVDInv, NEW b \in Block, CancelWithoutWait(b) \/ DVDCancel(b),
         ~PollCancel, ContextMax >= 3
  PROVE  Service!Step
<1>1. /\ Canceled(dvd, dvd', b) /\ (dvd.answer[b] = "due" => b \in asked')
      /\ DriverInv(dvd) /\ AskedOf(dvd, asked)
  BY CancelSteps DEF DVDInv
<1>2. dvd.answer[b] # "dropped" /\ data' = data
  BY DVDAssumption
     DEF CancelWithoutWait, DVDCancel, DVDCancelAsync, MayCancel
<1>3. CASE Called(dvd, dvd')
  BY <1>3, QuietService DEF Called, Resetting
<1>4. CASE Withdrawn(dvd, dvd', b)
  <2>1. dvd.answer[b] = "due"
    BY <1>1, <1>4 DEF Withdrawn, DriverInv, Blocks, Others
  <2>2. Service!Changed \subseteq {b} /\ dvd'.answer[b] = "canceled"
    BY <1>4 DEF Withdrawn, Service!Changed
  <2>3. Service!Uncalled = {}
    BY <1>1, <2>1, <2>2 DEF Service!Uncalled
  <2>4. dvd'.Breaking = dvd.Breaking /\ (Resetting => Resetting')
    BY <1>4 DEF Withdrawn, Resetting
  <2> QED
    BY <2>1, <2>2, <2>3, <2>4 DEF Service!Step
<1>5. CASE Told(dvd, dvd', b)
  <2>1. dvd.answer[b] = "due"
    BY <1>1, <1>2, <1>5, DVDAssumption DEF Told, DriverInv, Blocks, Others
  <2>2. b \in asked' \ asked
    BY <1>1, <1>5, <2>1 DEF Told, AskedOf
  <2>3. Service!Changed = {}
    BY <1>5 DEF Told, Service!Changed
  <2>4. Service!Uncalled = {}
    BY <2>3 DEF Service!Uncalled
  <2>5. Resetting' = Resetting
    BY <1>5 DEF Told, Resetting
  <2> QED
    BY <2>1, <2>2, <2>3, <2>4, <2>5 DEF Service!Step
<1>6. CASE Abandoned(dvd, dvd', b)
  <2>1. dvd.executing = b /\ Ended(dvd, dvd', "canceled")
    BY <1>6 DEF Abandoned
  <2>2. \A x \in Queued(dvd) : data'[x] = {}
    BY <1>2 DEF DVDInv, DataOf
  <2> QED
    BY <1>1, <2>1, <2>2, EndedService
<1> QED
  BY <1>1, <1>3, <1>4, <1>5, <1>6 DEF Canceled

\* The preparation of a reset: only here commands are dropped.
LEMMA PrepareService ==
  ASSUME DVDInv, __DVDPrepareReset, ~PollCancel, ContextMax >= 3
  PROVE  Service!Step
<1>1. ResetBegun(dvd, dvd')
  BY PrepareStep
<1>2. Resetting'
  BY <1>1 DEF ResetBegun, Resetting
<1>3. \A b \in Service!Changed :
        dvd.answer[b] = "due" /\ dvd'.answer[b] = "dropped"
  BY <1>1 DEF ResetBegun, Service!Changed
<1>4. Service!Uncalled = {}
  BY <1>3 DEF Service!Uncalled
<1> QED
  BY <1>2, <1>3, <1>4 DEF Service!Step

\* The driver answers every command once: with its data, all of it read from
\* the game's disc, or cancelled because that was asked for.  A break that was
\* left over may cancel one other command.
THEOREM DriverImplementsService ==
  ASSUME ~PollCancel, ContextMax >= 3
  PROVE  Spec => ImplementsDVDService
<1>1. Init => Service!Init
  BY DEF Init, Service!Init, Resetting
<1>2. DVDInv /\ [Next]_vars => [Service!Step]_Service!vars
  <2> SUFFICES ASSUME DVDInv, [Next]_vars
               PROVE  Service!Step \/ UNCHANGED Service!vars
    OBVIOUS
  <2>1. CASE UNCHANGED vars
    BY <2>1 DEF vars, Service!vars, Resetting
  <2>2. ASSUME NEW b \in Block,
               DVDReadPrio(b) \/ DVDReadAsyncPrio(b) \/ DVDInquiryAsync(b)
        PROVE  Service!Step
    BY <2>2, CallService
  <2>3. ASSUME NEW b \in Block, CancelWithoutWait(b) \/ DVDCancel(b)
        PROVE  Service!Step
    BY <2>3, CancelService
  <2>4. ASSUME NEW t \in waiting, Look(t) PROVE Service!Step
    <3>1. dvd \in Driver
      BY DEF DVDInv, DriverInv
    <3>2. /\ dvd'.answer = dvd.answer /\ dvd'.Breaking = dvd.Breaking
          /\ dvd'.Prepared = dvd.Prepared
      BY <2>4, <3>1 DEF Look, Driver
    <3> QED
      BY <3>2, QuietService DEF Resetting
  <2>5. CASE __DVDPrepareReset
    BY <2>5, PrepareService
  <2>6. CASE DriveAnswers
    BY <2>6, DriveStep, QuietService DEF SameCommands, Resetting
  <2>7. CASE RequestEnds
    BY <2>7, RequestService
  <2>8. CASE ErrorCodeStored
    BY <2>8, StoredStep, QuietService DEF SameCommands, Resetting
  <2>9. CASE ResetAlarmFires
    BY <2>9, ResetAlarmStep, QuietService DEF SameCommands, Resetting
  <2>10. CASE CoverAlarmHandler
    BY <2>10, CoverAlarmStep, QuietService DEF SameCommands, Resetting
  <2>11. CASE UserSwaps
    BY <2>11, QuietService DEF UserSwaps, Resetting
  <2> QED
    BY <2>1, <2>2, <2>3, <2>4, <2>5, <2>6, <2>7, <2>8, <2>9, <2>10, <2>11
       DEF Next
<1> QED
  BY <1>1, <1>2, DriverInvariant, PTL
     DEF Spec, ImplementsDVDService, Service!Spec
=============================================================================
