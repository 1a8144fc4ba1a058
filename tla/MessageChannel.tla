-------------------------- MODULE MessageChannel --------------------------
(***************************************************************************)
(* What an OSMessageQueue promises: a bounded sequence of messages that    *)
(* OSSendMessage extends at the end and OSJamMessage at the front, and     *)
(* from whose front each message is received by one thread.                *)
(***************************************************************************)
EXTENDS Naturals, Sequences

CONSTANTS Thread, Message, Capacity, NULL

VARIABLES
    messages,    \* the messages sent and not yet received
    received     \* the last message received, and the thread it went to

Init == messages = <<>> /\ received = <<NULL, NULL>>

Send(mesg) ==
    /\ Len(messages) < Capacity
    /\ messages' = Append(messages, mesg)
    /\ UNCHANGED received

Jam(mesg) ==
    /\ Len(messages) < Capacity
    /\ messages' = <<mesg>> \o messages
    /\ UNCHANGED received

Receive(t) ==
    /\ messages # <<>>
    /\ received' = <<t, Head(messages)>>
    /\ messages' = Tail(messages)

Next ==
    \/ \E mesg \in Message : Send(mesg) \/ Jam(mesg)
    \/ \E t \in Thread : Receive(t)

Spec == Init /\ [][Next]_<<messages, received>>
=============================================================================
