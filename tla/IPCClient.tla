----------------------------- MODULE IPCClient -----------------------------
(***************************************************************************)
(* revolution/IPC/ipcclt.c: the requests of the program wait in a ring and *)
(* go, one at a time, through a mailbox to the IOS on the other processor, *)
(* which acknowledges each one and answers it later, in any order.         *)
(*                                                                         *)
(* The interrupt handlers and the part of a call from                      *)
(* OSDisableInterrupts on are single steps; the IOS runs beside them.  A   *)
(* callback is several steps within the reply handler, in which further    *)
(* asynchronous requests are made.                                         *)
(***************************************************************************)
EXTENDS Integers, FiniteSets

CONSTANTS
    Req,        \* the IPCRequestEx blocks that the heap has room for
    AsyncReq,   \* the blocks the program makes asynchronous requests with,
    SyncReq,    \* synchronous ones,
    RebootReq,  \* and those that relaunch the IOS
    Capacity,   \* IPC_QUEUE_CAPACITY (16)
    Width,      \* the number of values of an u32 counter (2^32)
    MaxQueued,  \* bound: the number of requests made
    NULL

ASSUME IPCAssumption ==
    /\ NULL \notin Req
    /\ AsyncReq \cup SyncReq \cup RebootReq \subseteq Req
    /\ Capacity \in Nat \ {0} /\ Width \in Nat /\ Capacity < Width
    /\ MaxQueued \in Nat

VARIABLES
    c,         \* __responses, __mailboxAck, __relnchFl and __relnchRpc
    use,       \* what a block is allocated for, or "free"
    woken,     \* the synchronous requests whose caller was woken
    callback,  \* the request whose callback runs in the reply handler, or NULL
    PPCMSG,    \* the request in the mailbox to the IOS, or NULL
    ackFlag,   \* Y2: the IOS took a request, or has started after a relaunch
    ios,       \* the requests the IOS works on
    ARMMSG,    \* the request the IOS answers, or NULL
    ready      \* X2: the IOS may answer

vars == <<c, use, woken, callback, PPCMSG, ackFlag, ios, ARMMSG, ready>>
hardware == <<ackFlag, ios, ARMMSG, ready>>

Init ==
    /\ c = [queue |-> [i \in 0 .. Capacity - 1 |-> NULL],
            front |-> 0, back |-> 0, sent |-> 0, queued |-> 0,
            mailboxAck |-> 1, relnchFl |-> FALSE, relnchRpc |-> NULL,
            reboot |-> {}]
    /\ use = [r \in Req |-> "free"] /\ woken = {} /\ callback = NULL
    /\ PPCMSG = NULL /\ ackFlag = FALSE
    /\ ios = {} /\ ARMMSG = NULL /\ ready = TRUE

-----------------------------------------------------------------------------
(* The ring.  Its tests compare two counters that wrap around.              *)

\* Mutant: one request too many is let in.
FullOneLate(s) == s.queued < s.sent \/ s.queued - s.sent > Capacity

\* The test of __ipcQueueRequest: a negative difference counts as full ...
Full(s) == s.queued < s.sent \/ s.queued - s.sent >= Capacity

\* ... and in __ipcSendRequest as empty.
NothingWaits(s) == s.queued < s.sent \/ s.queued = s.sent

QueueRequest(s, r) ==
    [s EXCEPT !.queue[s.back] = r,
              !.back = (@ + 1) % Capacity,
              !.queued = (@ + 1) % Width]

First(s) == s.queue[s.front]

TakeFirst(s) ==
    [s EXCEPT !.front = (@ + 1) % Capacity,
              !.sent = (@ + 1) % Width,
              !.mailboxAck = @ - 1]

\* Mutant: a reboot request takes one credit like any other.
SendRequestOneCredit(s) ==
    IF First(s) \in s.reboot
    THEN [TakeFirst(s) EXCEPT !.relnchFl = TRUE, !.relnchRpc = First(s)]
    ELSE TakeFirst(s)

\* A reboot request takes two credits: that of its own acknowledgement and
\* that of the new IOS.
SendRequest(s) ==
    IF First(s) \in s.reboot
    THEN [TakeFirst(s) EXCEPT !.relnchFl = TRUE, !.relnchRpc = First(s),
                              !.mailboxAck = @ - 1]
    ELSE TakeFirst(s)

\* Mutant: a new request is sent without a look at the credit.
SendNextAlways(s) ==
    IF NothingWaits(s) THEN c' = s /\ UNCHANGED PPCMSG
    ELSE c' = SendRequest(s) /\ PPCMSG' = First(s)

\* "if (__mailboxAck > 0) __ipcSendRequest();"
SendNext(s) ==
    IF s.mailboxAck <= 0 \/ NothingWaits(s) THEN c' = s /\ UNCHANGED PPCMSG
    ELSE c' = SendRequest(s) /\ PPCMSG' = First(s)

-----------------------------------------------------------------------------
(* The calls.  They differ in the payload only: what matters is whether a   *)
(* callback is given ("async") or the caller sleeps ("sync").  Allocating   *)
(* and filling the block is part of the step: nobody else knows it yet.     *)

Request(r, how, reboot) ==
    /\ use[r] = "free" /\ c.queued < MaxQueued
    /\ \/ Full(c) /\ UNCHANGED vars   \* BUSY: the block is freed again
       \/ /\ ~Full(c)
          /\ use' = [use EXCEPT ![r] = how]
          /\ SendNext(QueueRequest([c EXCEPT !.reboot = reboot], r))
          /\ UNCHANGED <<woken, callback, hardware>>

\* IOS_OpenAsync and its like, by a thread or by the callback that runs.
Async(r) == r \in AsyncReq /\ Request(r, "async", c.reboot \ {r})

\* IOS_Open and its like: the caller sleeps in req->queue.
Sync(r) ==
    r \in SyncReq /\ callback = NULL /\ Request(r, "sync", c.reboot \ {r})

IOS_IoctlvReboot(r) ==
    r \in RebootReq /\ callback = NULL /\ Request(r, "sync", c.reboot \cup {r})

\* Mutant: OSSleepThread returns although nobody woke the caller.
CallerReturnsEarly(r) ==
    /\ use[r] = "sync" /\ callback = NULL
    /\ woken' = woken \ {r}
    /\ use' = [use EXCEPT ![r] = "free"]
    /\ UNCHANGED <<c, callback, PPCMSG, hardware>>

\* The end of __ios_Ipc2, from OSSleepThread on.
CallerReturns(r) ==
    /\ r \in woken /\ callback = NULL
    /\ woken' = woken \ {r}
    /\ use' = [use EXCEPT ![r] = "free"]
    /\ UNCHANGED <<c, callback, PPCMSG, hardware>>

-----------------------------------------------------------------------------
(* The interrupt handler. *)

\* Mutant: the second credit of a relaunch that failed is not given back.
RelaunchFailedKeepsCredit(s, r) ==
    IF s.relnchFl /\ s.relnchRpc = r THEN [s EXCEPT !.relnchFl = FALSE] ELSE s

\* A reply to the reboot request says that there was no relaunch.
RelaunchFailed(s, r) ==
    IF s.relnchFl /\ s.relnchRpc = r
    THEN [s EXCEPT !.relnchFl = FALSE,
                   !.mailboxAck = IF @ < 1 THEN @ + 1 ELSE @]
    ELSE s

IpcReplyHandler ==
    /\ ARMMSG # NULL /\ callback = NULL
    /\ c' = RelaunchFailed(c, ARMMSG)
    /\ IF use[ARMMSG] = "async"
       THEN callback' = ARMMSG /\ UNCHANGED <<woken, ready>>
       ELSE woken' = woken \cup {ARMMSG} /\ ready' = TRUE /\ UNCHANGED callback
    /\ ARMMSG' = NULL
    /\ UNCHANGED <<use, PPCMSG, ackFlag, ios>>

\* The rest of IpcReplyHandler, from ipcFree on.
CallbackReturns ==
    /\ callback # NULL
    /\ use' = [use EXCEPT ![callback] = "free"]
    /\ callback' = NULL
    /\ ready' = TRUE
    /\ UNCHANGED <<c, woken, PPCMSG, ackFlag, ios, ARMMSG>>

\* Mutant: the acknowledgement does not send the next request.
IpcAckHandlerSendsNothing ==
    LET acked == [c EXCEPT !.mailboxAck = IF @ < 1 THEN @ + 1 ELSE @]
        relaunched == acked.mailboxAck > 0 /\ acked.relnchFl
    IN  /\ ackFlag /\ callback = NULL
        /\ ackFlag' = FALSE
        /\ c' = [acked EXCEPT !.relnchFl = @ /\ ~relaunched]
        /\ woken' = IF relaunched THEN woken \cup {c.relnchRpc} ELSE woken
        /\ ready' = (relaunched \/ ready)
        /\ UNCHANGED <<use, callback, PPCMSG, ios, ARMMSG>>

IpcAckHandler ==
    LET acked == [c EXCEPT !.mailboxAck = IF @ < 1 THEN @ + 1 ELSE @]
        relaunched == acked.mailboxAck > 0 /\ acked.relnchFl
    IN  /\ ackFlag /\ callback = NULL
        /\ ackFlag' = FALSE
        /\ SendNext([acked EXCEPT !.relnchFl = @ /\ ~relaunched])
        /\ woken' = IF relaunched THEN woken \cup {c.relnchRpc} ELSE woken
        /\ ready' = (relaunched \/ ready)
        /\ UNCHANGED <<use, callback, ios, ARMMSG>>

-----------------------------------------------------------------------------
(* The IOS. *)

IosTakes ==
    /\ PPCMSG # NULL
    /\ ios' = ios \cup {PPCMSG}
    /\ PPCMSG' = NULL
    /\ ackFlag' = TRUE
    /\ UNCHANGED <<c, use, woken, callback, ARMMSG, ready>>

\* An answer; that of a reboot request means that it failed.
IosReplies(r) ==
    /\ r \in ios /\ ready
    /\ ios' = ios \ {r}
    /\ ARMMSG' = r
    /\ ready' = FALSE
    /\ UNCHANGED <<c, use, woken, callback, PPCMSG, ackFlag>>

\* The new IOS knows nothing of the requests of the old one.  It starts long
\* after the last interrupt of the old one was handled.
IosReloads ==
    /\ ios \cap c.reboot # {} /\ ~ackFlag /\ ARMMSG = NULL
    /\ ios' = {}
    /\ ackFlag' = TRUE
    /\ UNCHANGED <<c, use, woken, callback, PPCMSG, ARMMSG, ready>>

Next ==
    \/ \E r \in Req : \/ Async(r) \/ Sync(r) \/ IOS_IoctlvReboot(r)
                      \/ CallerReturns(r) \/ IosReplies(r)
    \/ IpcReplyHandler \/ CallbackReturns \/ IpcAckHandler
    \/ IosTakes \/ IosReloads

Spec == Init /\ [][Next]_vars

\* Interrupts are enabled again in the end and callbacks return; the IOS takes
\* and answers what it is given.  The program owes nothing.
FairSpec ==
    /\ Spec
    /\ WF_vars(IpcReplyHandler) /\ WF_vars(CallbackReturns)
    /\ WF_vars(IpcAckHandler) /\ WF_vars(IosTakes)
    /\ \A r \in Req : WF_vars(CallerReturns(r)) /\ SF_vars(IosReplies(r))

-----------------------------------------------------------------------------
(* Properties. *)

Waiting == (c.queued - c.sent) % Width
WaitingAt(i) == c.queue[(c.front + i - 1) % Capacity]
Pending == {WaitingAt(i) : i \in 1 .. Waiting}

RelaunchOpen == IF c.relnchFl THEN {c.relnchRpc} ELSE {}

\* What the IOS was given and has neither completed nor lost.
Issued == ({PPCMSG, ARMMSG} \ {NULL}) \cup ios \cup RelaunchOpen
Done == woken \cup ({callback} \ {NULL})
Lost == {r \in Req : use[r] # "free"} \ (Pending \cup Issued \cup Done)

\* The fields have their types; the counters stay within 32 bits and the credit
\* within what the handlers test for (ipcclt.c).
TypeOK ==
    /\ c.queue \in [0 .. Capacity - 1 -> Req \cup {NULL}]
    /\ c.front \in 0 .. Capacity - 1 /\ c.back \in 0 .. Capacity - 1
    /\ c.sent \in 0 .. Width - 1 /\ c.queued \in 0 .. Width - 1
    /\ c.mailboxAck \in {-1, 0, 1} /\ c.relnchFl \in BOOLEAN
    /\ c.relnchRpc \in Req \cup {NULL} /\ c.reboot \subseteq Req
    /\ use \in [Req -> {"free", "sync", "async"}] /\ woken \subseteq Req
    /\ {PPCMSG, ARMMSG, callback} \subseteq Req \cup {NULL}
    /\ ios \subseteq Req /\ ackFlag \in BOOLEAN /\ ready \in BOOLEAN

\* Besides types: the blocks the client or the IOS still refers to are
\* allocated, and each of them is in one place: no request is freed, completed
\* or used for another call while the IOS may write its answer into it.
RequestsOwned ==
    /\ TypeOK
    /\ Pending \cup Issued \cup Done \subseteq {r \in Req : use[r] # "free"}
    /\ Pending \cap Issued = {} /\ Done \cap (Pending \cup Issued) = {}
    /\ ARMMSG \notin ios \cup {PPCMSG} \/ ARMMSG = NULL
    /\ Cardinality(Pending) = Waiting

\* __mailboxAck counts the credit of one message: less one until the message
\* was acknowledged, and one more until a relaunch has ended.  Were it lower
\* the client would be silent for ever, were it higher it would overwrite the
\* mailbox.
CreditExact ==
    LET unacknowledged == PPCMSG # NULL \/ ackFlag
        relaunching == /\ c.relnchFl
                       /\ c.relnchRpc \in ios \cup {PPCMSG, ARMMSG}
    IN  c.mailboxAck = 1 - (IF unacknowledged THEN 1 ELSE 0)
                         - (IF relaunching THEN 1 ELSE 0)

\* A request is written to an empty mailbox, and never to an IOS that is about
\* to be replaced, which would lose it.
MailboxHandshake ==
    [][PPCMSG' \notin {PPCMSG, NULL}
         => /\ PPCMSG = NULL
            /\ c'.relnchFl => c'.relnchRpc = PPCMSG']_vars

\* Requests wait although the credit is there.
Stalled == c.mailboxAck > 0 /\ Waiting > 0

\* Only the answer to a reboot request that failed, when it comes after its
\* acknowledgement, gives the credit back without sending the next request.
StallsOnlyAfterFailedRelaunch ==
    [][Stalled' /\ ~Stalled
         => c.relnchFl /\ ARMMSG = c.relnchRpc /\ ~c'.relnchFl]_vars

\* The ring, the handlers and the two mailboxes implement the IPC service.
Service == INSTANCE IPCService
             WITH accepted <- [i \in 1 .. Waiting |-> WaitingAt(i)],
                  issued <- Issued, completed <- Done, lost <- Lost,
                  relaunches <- c.reboot
ImplementsIPCService == Service!Spec

\* A request that was accepted is completed, unless a relaunch lost it or one
\* that failed left the client stalled.
AcceptedCompletes ==
    \A r \in Req : r \in Pending ~> r \in Done \/ r \in Lost \/ Stalled
=============================================================================
