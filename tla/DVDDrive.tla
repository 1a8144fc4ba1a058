------------------------------ MODULE DVDDrive ------------------------------
(***************************************************************************)
(* The disc drive behind /dev/di, as dvd_broadway.c and dvd.c use it: it   *)
(* carries out the requests of the driver one after the other, and the     *)
(* user puts discs into it and takes them out.  It is not in the           *)
(* repository; the answers are the interrupt types and error codes that    *)
(* dvd.c distinguishes.                                                    *)
(***************************************************************************)
EXTENDS Naturals

CONSTANTS
    Disc,       \* the discs the user has at hand
    GameDisc,   \* the one with the game, whose ID the driver expects
    Faults,     \* the errors the drive makes by itself
    MaxFaults,  \* bound: how many of them
    MaxSwaps,   \* bound: how often the user inserts or ejects a disc
    MaxTrouble, \* bound: how many of both together
    NULL

ASSUME DriveAssumption ==
    /\ GameDisc \in Disc /\ NULL \notin Disc
    /\ MaxFaults \in Nat /\ MaxSwaps \in Nat /\ MaxTrouble \in Nat

VARIABLES
    disc,    \* the disc in the drive, or NULL; also bit CVR of the register
    phase,   \* how far the drive has got with it
    cvrint,  \* bit CVRINT: a disc came or went since it was last cleared
    sense,   \* the last error the drive made by itself
    faults,  \* the number of these errors
    swaps    \* the number of discs inserted and ejected

driveVars == <<disc, phase, cvrint, sense, faults, swaps>>

DriveInit ==
    /\ disc = GameDisc /\ phase = "open" /\ cvrint = FALSE
    /\ sense = NULL /\ faults = 0 /\ swaps = 0

\* The phases in which the drive does what it is asked.
Ready(op) ==
    CASE op = "Read"            -> {"open"}
      [] op \in {"UnencryptedRead", "OpenPartition"} -> {"identified", "open"}
      [] op = "ReadDiskID"      -> {"reset", "identified", "open"}
      [] op = "SetMaximumRotation" -> {"reset", "identified", "open"}
      [] OTHER -> {"changed", "reset", "identified", "open", "stopped"}

PhaseAfter(op) ==
    CASE op = "Reset" /\ disc # NULL         -> "reset"
      [] op = "StopMotor" /\ disc # NULL     -> "stopped"
      [] op = "ReadDiskID"                   -> "identified"
      [] op = "OpenPartition"                -> "open"
      [] OTHER                               -> phase

\* What RequestError tells of a request that failed.
Errors ==
    CASE disc = NULL           -> {"coverOpened", "noDisk"}
      [] phase = "changed"     -> {"diskChanged"}
      [] phase = "stopped"     -> {"motorStopped"}
      [] phase = "reset"       -> {"idNotRead"}
      [] OTHER                 -> {sense}

Reply(int, value) == [int |-> int, value |-> value]

Answered(op) ==
    CASE op = "RequestError"         -> {Reply("TC", e) : e \in Errors}
      [] op = "PrepareCoverRegister" ->
           {Reply("TC", [CVR |-> disc = NULL, CVRINT |-> cvrint])}
      [] op = "ReadDiskID"           -> {Reply("TC", disc)}
      [] OTHER                       -> {Reply("TC", NULL)}

\* Data error, timeout and security error.
FailureTypes == {"DE", "TIME", "SERR"}

Replies(op) == Answered(op) \cup {Reply(int, NULL) : int \in FailureTypes}

\* Everything that is answered: nothing, an error code, a disc ID or the bits of
\* the cover register.
AnyValue ==
    {NULL, "coverOpened", "noDisk", "diskChanged", "motorStopped", "idNotRead"}
      \cup Faults \cup Disc \cup [CVR : BOOLEAN, CVRINT : BOOLEAN]
AnyReply == [int : {"TC"} \cup FailureTypes, value : AnyValue]

ASSUME ReplyAssumption == NULL \notin AnyReply

\* The drive carries out a request and answers it with r.
Carries(op, r) ==
    /\ phase \in Ready(op)
    /\ r \in Answered(op)
    /\ phase' = PhaseAfter(op)
    /\ cvrint' = (cvrint /\ op # "ClearCoverInterrupt")
    /\ sense' = IF op = "RequestError" THEN NULL ELSE sense
    /\ UNCHANGED <<disc, faults, swaps>>

Refuses(op, r) ==
    /\ phase \notin Ready(op)
    /\ r = Reply("DE", NULL)
    /\ UNCHANGED driveVars

\* It fails, or does not answer in time.
Fails(op, r) ==
    /\ faults < MaxFaults /\ faults + swaps < MaxTrouble
    /\ op \notin {"ClearCoverInterrupt", "PrepareCoverRegister"}
    /\ phase \in Ready(op)
    /\ \E e \in Faults :
         IF e \in {"TIME", "SERR"}
         THEN r = Reply(e, NULL) /\ UNCHANGED sense
         ELSE r = Reply("DE", NULL) /\ sense' = e
    /\ faults' = faults + 1
    /\ UNCHANGED <<disc, phase, cvrint, swaps>>

Drive(op, r) == Carries(op, r) \/ Refuses(op, r) \/ Fails(op, r)

\* The user ejects the disc or inserts one.
Swap ==
    /\ swaps < MaxSwaps /\ faults + swaps < MaxTrouble
    /\ disc' \in IF disc = NULL THEN Disc ELSE {NULL}
    /\ phase' = "changed" /\ cvrint' = TRUE
    /\ swaps' = swaps + 1
    /\ UNCHANGED <<sense, faults>>
=============================================================================
