---------------------------- MODULE IPCService ----------------------------
(***************************************************************************)
(* What the IPC client promises: a request it accepts is issued to the IOS *)
(* after those accepted before it, is completed at most once, and belongs  *)
(* to the client until then.  A relaunch of the IOS loses the requests it  *)
(* was working on, but not the request that asked for it.                  *)
(***************************************************************************)
EXTENDS Sequences, FiniteSets, Integers

CONSTANTS
    Req,
    Capacity    \* how many accepted requests may wait

VARIABLES
    accepted,   \* the requests that wait, in order
    issued,     \* those that the IOS has
    completed,  \* those whose callback runs or whose caller was woken
    lost,       \* those that a relaunch lost
    relaunches  \* the requests that ask for a relaunch, when they are made

vars == <<accepted, issued, completed, lost>>

Idle == Req \ ({accepted[i] : i \in DOMAIN accepted}
                 \cup issued \cup completed \cup lost)

Init == accepted = <<>> /\ issued = {} /\ completed = {} /\ lost = {}

\* Of the requests in queue the first may go out at once.
Issue(queue, out) ==
    \/ accepted' = queue /\ issued' = out
    \/ /\ queue # <<>>
       /\ accepted' = Tail(queue) /\ issued' = out \cup {Head(queue)}

Accept(r) ==
    /\ r \in Idle /\ Len(accepted) < Capacity
    /\ Issue(Append(accepted, r), issued)
    /\ UNCHANGED <<completed, lost>>

Complete(r) ==
    /\ r \in issued
    /\ completed' = completed \cup {r}
    /\ Issue(accepted, issued \ {r})
    /\ UNCHANGED lost

Release(r) ==
    /\ r \in completed
    /\ completed' = completed \ {r}
    /\ UNCHANGED <<accepted, issued, lost>>

Relaunch(r) ==
    /\ r \in issued \cap relaunches
    /\ issued' \subseteq issued /\ r \in issued'
    /\ lost' = lost \cup (issued \ issued')
    /\ UNCHANGED <<accepted, completed>>

Next ==
    \/ \E r \in Req : Accept(r) \/ Complete(r) \/ Release(r) \/ Relaunch(r)
    \/ Issue(accepted, issued) /\ UNCHANGED <<completed, lost>>

Spec == Init /\ [][Next]_vars
=============================================================================
