----------------------------- MODULE DVDService -----------------------------
(***************************************************************************)
(* What revolution/DVD/dvd.c promises of each command: it is answered      *)
(* once, with its data, or with CANCELED when its cancellation was asked   *)
(* for.  The code promises a little less: a break that was asked for, but  *)
(* not needed to end its command, may cancel one later command instead.    *)
(***************************************************************************)
CONSTANT Block

VARIABLES
    answer,    \* what each command was answered last, or "due"
    asked,     \* the commands whose cancellation was asked for
    complete,  \* the commands all of whose data was read from the game's disc
    spare,     \* a break is left over
    reset      \* the system is being reset: commands may be dropped

vars == <<answer, asked, complete, spare, reset>>

Init ==
    /\ answer = [b \in Block |-> "none"]
    /\ asked = {} /\ spare = FALSE /\ reset = FALSE

Changed == {b \in Block : answer'[b] # answer[b]}
Uncalled == {b \in Changed : answer'[b] = "canceled" /\ b \notin asked'}

Step ==
    /\ \A b \in Changed :
         \/ answer[b] \notin {"due", "dropped"} /\ answer'[b] = "due"
         \/ answer'[b] = "good" /\ b \in complete'
         \/ answer[b] = "due" /\ answer'[b] = "canceled"
         \/ answer[b] = "due" /\ answer'[b] = "dropped" /\ reset'
    /\ \A b \in Changed :
         answer'[b] = "good" => answer[b] # "dropped"
    /\ Uncalled # {} => spare /\ ~spare' /\ \E b \in Block : Uncalled = {b}
    /\ spare' /\ ~spare
         => reset' \/ \E b \in asked' \ asked : answer[b] = "due"
    /\ reset => reset'

Spec == Init /\ [][Step]_vars
=============================================================================
