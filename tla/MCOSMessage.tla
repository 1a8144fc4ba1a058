---------------------------- MODULE MCOSMessage ----------------------------
(* Small instances of the message queue for TLC. *)
EXTENDS OSMessage, TLC

CONSTANTS t0, t1, t2

MCThreads == {t0, t1, t2}

MessageCalls ==
    {"OSCreateThread", "OSResumeThread", "OSCancelThread",
     "OSSendMessage", "OSJamMessage", "OSReceiveMessage"}

SendingHandlers == {"OSSendMessage"}

ThreadSymmetry == Permutations({t1, t2}) \cup Permutations(Message)
=============================================================================
