----------------------------- MODULE OSMessage -----------------------------
(***************************************************************************)
(* revolution/OS/OSMessage.c: one OSMessageQueue, used by the threads and  *)
(* the interrupt handlers of a program that runs on the kernel of          *)
(* OSThread.  A call that finds the queue full or empty sleeps and tries   *)
(* again each time it is woken; a call without OS_MSG_BLOCKING returns     *)
(* FALSE then, which changes nothing.                                      *)
(***************************************************************************)
EXTENDS OSThread

CONSTANTS
    Message,
    Capacity,     \* OSMessageQueue.capacity
    sendQueue,    \* OSMessageQueue.sendQueue: full, the senders wait
    recvQueue     \* OSMessageQueue.recvQueue: empty, the receivers wait

ASSUME MessageAssumption ==
    /\ Capacity \in Nat \ {0}
    /\ sendQueue \in UserQueue /\ recvQueue \in UserQueue
    /\ sendQueue # recvQueue

VARIABLES
    buffer, front, size,
    received      \* the last message received, and the thread it went to

queueVars == <<buffer, front, size>>
messageVars == <<buffer, front, size, received>>
allVars == <<vars, messageVars>>

Sending(mesg) == <<"send", mesg>>
Jamming(mesg) == <<"jam", mesg>>
Receiving     == <<"receive", NULL>>

OSInitMessageQueue ==
    /\ buffer = [i \in 0 .. Capacity - 1 |-> NULL]
    /\ front = 0 /\ size = 0
    /\ received = <<NULL, NULL>>

Full == Capacity <= size
Empty == size = 0

\* Nobody blocks with the scheduler disabled; a call that goes on after its
\* sleep finds it enabled.
Block(q, at) ==
    /\ MayBlock
    /\ k' = SleepThread(k, WaitQueue(q))
    /\ Resumes(k.current, at)
    /\ UNCHANGED messageVars

PutLast(mesg) ==
    /\ buffer' = [buffer EXCEPT ![(front + size) % Capacity] = mesg]
    /\ size' = size + 1
    /\ UNCHANGED <<front, received>>

\* Mutant: the message goes where front was.
PutFirstAtFront(mesg) ==
    /\ front' = (front + Capacity - 1) % Capacity
    /\ buffer' = [buffer EXCEPT ![front] = mesg]
    /\ size' = size + 1
    /\ UNCHANGED received

PutFirst(mesg) ==
    LET lastMesg == (front + Capacity - 1) % Capacity
    IN  /\ front' = lastMesg
        /\ buffer' = [buffer EXCEPT ![lastMesg] = mesg]
        /\ size' = size + 1
        /\ UNCHANGED received

OSSendMessage(mesg) ==
    /\ Call("OSSendMessage") \/ Continues(Sending(mesg))
    /\ \/ Full /\ Block(sendQueue, Sending(mesg))
       \/ /\ ~Full /\ PutLast(mesg)
          /\ k' = WakeupThread(k, WaitQueue(recvQueue))
          /\ Return(k.current)
    /\ UNCHANGED mutexVars

OSJamMessage(mesg) ==
    /\ Call("OSJamMessage") \/ Continues(Jamming(mesg))
    /\ \/ Full /\ Block(sendQueue, Jamming(mesg))
       \/ /\ ~Full /\ PutFirst(mesg)
          /\ k' = WakeupThread(k, WaitQueue(recvQueue))
          /\ Return(k.current)
    /\ UNCHANGED mutexVars

OSReceiveMessage ==
    /\ Call("OSReceiveMessage") \/ Continues(Receiving)
    /\ \/ Empty /\ Block(recvQueue, Receiving)
       \/ /\ ~Empty
          /\ received' = <<k.current, buffer[front]>>
          /\ front' = (front + 1) % Capacity
          /\ size' = size - 1
          /\ k' = WakeupThread(k, WaitQueue(sendQueue))
          /\ Return(k.current)
          /\ UNCHANGED buffer
    /\ UNCHANGED mutexVars

\* A handler sends without OS_MSG_BLOCKING; a full queue drops the message.
InterruptSend(mesg) ==
    /\ "OSSendMessage" \in HandlerCalls /\ InterruptsEnabled
    /\ ~Full /\ PutLast(mesg)
    /\ k' = InHandler(LAMBDA s : WakeupThread(s, WaitQueue(recvQueue)))
    /\ UNCHANGED <<pc, mutexVars>>

MessageInit == Init /\ OSInitMessageQueue

QueueNext ==
    \/ OSReceiveMessage
    \/ \E mesg \in Message :
         OSSendMessage(mesg) \/ OSJamMessage(mesg) \/ InterruptSend(mesg)

\* Only the calls above sleep on the two thread queues of an OSMessageQueue.
MessageNext ==
    \/ QueueNext
    \/ /\ Next
       /\ ~OSSleepThread(sendQueue) /\ ~OSSleepThread(recvQueue)
       /\ UNCHANGED messageVars

MessageSpec == MessageInit /\ [][MessageNext]_allVars

-----------------------------------------------------------------------------
(* Properties. *)

\* The messages in the order in which they are received.
Pending == [i \in 1 .. size |-> buffer[(front + i - 1) % Capacity]]

\* The ring buffer and its wait loops implement the bounded channel.
Channel == INSTANCE MessageChannel WITH messages <- Pending
ImplementsChannel == Channel!Spec

\* No lost wakeup: a receiver sleeps only while the queue is empty and a sender
\* only while it is full, whoever overtakes, suspends or cancels them.
SleepersMustWait ==
    /\ k.q[WaitQueue(recvQueue)] # <<>> => Empty
    /\ k.q[WaitQueue(sendQueue)] # <<>> => Full
=============================================================================
