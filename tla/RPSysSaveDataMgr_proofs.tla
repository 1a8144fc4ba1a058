---------------------- MODULE RPSysSaveDataMgr_proofs ----------------------
(***************************************************************************)
(* The properties of RPSysSaveDataMgr, for every number of job slots and   *)
(* every size of the queue of end messages.                                *)
(***************************************************************************)
EXTENDS RPSysSaveDataMgr, DataFacts

-----------------------------------------------------------------------------
(* The inductive invariant. *)

Places == {"receive", "test", "call", "run", "report", "blank", "clear"}

Flags ==
    [nandAccess : BOOLEAN, asyncSave : BOOLEAN, window : BOOLEAN,
     error : {"no", "busy", "other"}, disable : BOOLEAN,
     bannerExist : BOOLEAN, saveExist : BOOLEAN]

Nand ==
    [save : SaveContent, banner : BannerContent, temp : BannerContent]

\* The calls to the NAND library.
Call ==
    {"saveCreate", "saveOpen", "saveWrite", "saveClose", "saveGetType",
     "saveDelete", "bannerOpen", "bannerWrite", "bannerClose",
     "bannerGetType", "bannerDelete", "tempCreate", "tempOpen", "tempWrite",
     "tempClose", "tempMove", "getHomeDir", "check", "loadOpen", "loadRead",
     "loadClose"}

\* The types of all the variables.
StateType ==
    /\ pTask \in [Slot -> AsyncOp \cup {NULL}]
    /\ queue \in Seq(Slot) /\ ended \in Seq(Slot)
    /\ thread \in [at : Places, job : Slot \cup {NULL}]
    /\ flags \in Flags /\ nand \in Nand
    /\ data \in Data /\ buffer \in Data \cup {"torn"}
    /\ todo \in [by : {NULL, "main", "thread"}, calls : Seq(Call)]

Resting == thread.at \in {"receive", "blank", "clear"}

\* There is at most one job: it is queued, or the thread has it, or its end
\* message waits; and there is one only while the manager waits for it.
OneJob ==
    /\ Len(queue) + Len(ended) <= 1
    /\ queue # <<>> \/ ended # <<>> => Resting
    /\ ~flags.nandAccess => queue = <<>> /\ ended = <<>> /\ Resting
    /\ thread.at # "receive" => thread.job \in Slot
    /\ thread.at = "call" => pTask[thread.job] # NULL

\* An operation belongs to the thread while that is in one, and else to the
\* main thread, which starts it only when the manager waits for nothing.
OneOperation ==
    /\ (todo.by = "thread") <=> (thread.at = "run")
    /\ todo.by = NULL => todo.calls = <<>>
    /\ todo.by = "main" => ~flags.nandAccess /\ ~flags.asyncSave

Done(op, k) == {Calls[op][i] : i \in 1 .. k - 1}

\* Unless an error was kept, the calls of the operation that were made had
\* their effect, and the writes too unless saving is disabled.
Effect(done) ==
    flags.error = "no" =>
        /\ "loadOpen" \in done => nand.save # "absent"
        /\ "tempCreate" \in done /\ "tempMove" \notin done
             => nand.temp # "absent"
        /\ ~flags.disable =>
             /\ "tempWrite" \in done /\ "tempMove" \notin done
                  => nand.temp = "whole"
             /\ "bannerOpen" \in done => nand.banner # "absent"
             /\ "saveWrite" \in done => nand.save = buffer
             /\ "bannerWrite" \in done => nand.banner = "whole"

\* The operation op is about to make its call number k.
Before(op, k) ==
    /\ todo.calls = SubSeq(Calls[op], k, Len(Calls[op]))
    /\ Effect(Done(op, k))

Positions(op) == 1 .. Len(Calls[op]) + 1

\* What is left to do is the rest of an operation, of a save when the manager
\* waits for one.
Progress ==
    todo.by # NULL =>
        \E op \in DOMAIN Calls : \E k \in Positions(op) :
            /\ Before(op, k)
            /\ flags.asyncSave => op = "saveData"

SaveDone ==
    flags.error = "no" /\ ~flags.disable
        => nand.save = buffer /\ nand.banner = "whole"

\* While the manager waits for a save the job is a save, and when its end can
\* be seen the files are written or there is an error.
SaveJob ==
    flags.asyncSave =>
        /\ \A i \in 1 .. Len(queue) : pTask[queue[i]] \in {"saveData", NULL}
        /\ thread.at \in {"test", "call"}
             => pTask[thread.job] \in {"saveData", NULL}
        /\ thread.at = "report" \/ ended # <<>> \/ ~flags.nandAccess
             => SaveDone

\* The flags of the manager never promise a file that is not there.
FlagsTrue ==
    /\ flags.saveExist => nand.save # "absent"
    /\ flags.bannerExist => nand.banner # "absent"

ManagerInv ==
    /\ StateType /\ OneJob /\ OneOperation
    /\ Progress /\ SaveJob /\ FlagsTrue

-----------------------------------------------------------------------------
(* The operations. *)

\* The calls of two sequences made one after the other.
LEMMA Joined ==
  ASSUME NEW s \in Seq(Call), NEW t \in Seq(Call)
  PROVE  /\ s \o t \in Seq(Call) /\ Len(s \o t) = Len(s) + Len(t)
         /\ \A i \in 1 .. Len(s) : (s \o t)[i] = s[i]
         /\ \A i \in 1 .. Len(t) : (s \o t)[Len(s) + i] = t[i]
OBVIOUS

\* The two concatenations that a save is made of, spelt out.
LEMMA SaveSequences ==
  /\ <<"saveCreate">> \o SaveSync
       = <<"saveCreate", "saveOpen", "saveWrite", "saveClose">>
  /\ SaveSync \o SaveBanner
       = <<"saveOpen", "saveWrite", "saveClose",
           "bannerOpen", "bannerWrite", "bannerClose">>
<1> DEFINE s == <<"saveCreate">> \o SaveSync
           t == SaveSync \o SaveBanner
<1>1. s \in Seq(Call) /\ t \in Seq(Call) /\ Len(s) = 4 /\ Len(t) = 6
  BY DEF SaveSync, SaveBanner, Call
<1>2. /\ s[1] = "saveCreate" /\ s[2] = "saveOpen"
      /\ s[3] = "saveWrite" /\ s[4] = "saveClose"
  BY DEF SaveSync
<1>3. /\ t[1] = "saveOpen" /\ t[2] = "saveWrite" /\ t[3] = "saveClose"
      /\ t[4] = "bannerOpen" /\ t[5] = "bannerWrite" /\ t[6] = "bannerClose"
  BY DEF SaveSync, SaveBanner
<1> HIDE DEF s, t
<1>4. s = <<"saveCreate", "saveOpen", "saveWrite", "saveClose">>
  BY <1>1, <1>2
<1>5. t = <<"saveOpen", "saveWrite", "saveClose",
            "bannerOpen", "bannerWrite", "bannerClose">>
  BY <1>1, <1>3
<1> QED
  BY <1>4, <1>5 DEF s, t

\* The calls that write, which are skipped when saving is disabled.
LEMMA WriteCalls ==
  Range(SaveSync \o SaveBanner \o SaveTemp)
    = {"saveOpen", "saveWrite", "saveClose", "bannerOpen", "bannerWrite",
       "bannerClose", "tempOpen", "tempWrite", "tempClose"}
<1> DEFINE t == SaveSync \o SaveBanner
           s == t \o SaveTemp
<1>1. t = <<"saveOpen", "saveWrite", "saveClose",
            "bannerOpen", "bannerWrite", "bannerClose">>
  BY SaveSequences
<1>2. t \in Seq(Call) /\ SaveTemp \in Seq(Call)
  BY <1>1 DEF SaveTemp, Call
<1> HIDE DEF t
<1>3. /\ s \in Seq(Call) /\ Len(s) = Len(t) + Len(SaveTemp)
      /\ \A i \in 1 .. Len(t) : s[i] = t[i]
      /\ \A i \in 1 .. Len(SaveTemp) : s[Len(t) + i] = SaveTemp[i]
  BY <1>2, Joined
<1> HIDE DEF s
<1>4. Len(t) = 6 /\ Len(SaveTemp) = 3
  BY <1>1 DEF SaveTemp
<1>5. /\ DOMAIN s = 1 .. 9
      /\ s[1] = t[1] /\ s[2] = t[2] /\ s[3] = t[3] /\ s[4] = t[4]
      /\ s[5] = t[5] /\ s[6] = t[6] /\ s[7] = SaveTemp[1]
      /\ s[8] = SaveTemp[2] /\ s[9] = SaveTemp[3]
  BY <1>3, <1>4
<1>6. Range(s) = {s[i] : i \in 1 .. 9}
  BY <1>5 DEF Range
<1>7. Range(s) = {s[1], s[2], s[3], s[4], s[5], s[6], s[7], s[8], s[9]}
  BY <1>6
<1> QED
  BY <1>1, <1>5, <1>7 DEF s, t, SaveTemp

\* The calls of createPackFileSync, banner and all, spelt out.
LEMMA CreateSequence ==
  <<"saveCreate">> \o SaveSync \o <<"tempCreate">>
      \o SaveTemp \o <<"getHomeDir", "tempMove">>
    = <<"saveCreate", "saveOpen", "saveWrite", "saveClose", "tempCreate",
        "tempOpen", "tempWrite", "tempClose", "getHomeDir", "tempMove">>
<1> DEFINE s == <<"saveCreate">> \o SaveSync
           t == s \o <<"tempCreate">>
           u == t \o SaveTemp
           w == <<"getHomeDir", "tempMove">>
           v == u \o w
<1>1. s = <<"saveCreate", "saveOpen", "saveWrite", "saveClose">>
  BY SaveSequences
<1> HIDE DEF s
<1>2. /\ t \in Seq(Call) /\ Len(t) = 5
      /\ t[1] = "saveCreate" /\ t[2] = "saveOpen" /\ t[3] = "saveWrite"
      /\ t[4] = "saveClose" /\ t[5] = "tempCreate"
  BY <1>1 DEF Call
<1> HIDE DEF t
<1>3. t \in Seq(Call) /\ SaveTemp \in Seq(Call) /\ w \in Seq(Call)
  BY <1>2 DEF SaveTemp, Call
<1> HIDE DEF w
<1>4. /\ u \in Seq(Call) /\ Len(u) = Len(t) + Len(SaveTemp)
      /\ \A i \in 1 .. Len(t) : u[i] = t[i]
      /\ \A i \in 1 .. Len(SaveTemp) : u[Len(t) + i] = SaveTemp[i]
  BY <1>3, Joined
<1> HIDE DEF u
<1>5. /\ v \in Seq(Call) /\ Len(v) = Len(u) + Len(w)
      /\ \A i \in 1 .. Len(u) : v[i] = u[i]
      /\ \A i \in 1 .. Len(w) : v[Len(u) + i] = w[i]
  BY <1>3, <1>4, Joined
<1> HIDE DEF v
<1>6. Len(SaveTemp) = 3 /\ Len(w) = 2
  BY DEF SaveTemp, w
<1>7. /\ Len(u) = 8
      /\ u[1] = t[1] /\ u[2] = t[2] /\ u[3] = t[3] /\ u[4] = t[4]
      /\ u[5] = t[5] /\ u[6] = SaveTemp[1] /\ u[7] = SaveTemp[2]
      /\ u[8] = SaveTemp[3]
  BY <1>2, <1>4, <1>6
<1>8. /\ Len(v) = 10
      /\ v[1] = u[1] /\ v[2] = u[2] /\ v[3] = u[3] /\ v[4] = u[4]
      /\ v[5] = u[5] /\ v[6] = u[6] /\ v[7] = u[7] /\ v[8] = u[8]
      /\ v[9] = w[1] /\ v[10] = w[2]
  BY <1>5, <1>6, <1>7
<1>9. v = <<"saveCreate", "saveOpen", "saveWrite", "saveClose", "tempCreate",
            "tempOpen", "tempWrite", "tempClose", "getHomeDir", "tempMove">>
  BY <1>2, <1>5, <1>7, <1>8 DEF SaveTemp, w
<1> QED
  BY <1>9 DEF s, t, u, v, w

\* The calls of each operation, one by one.
LEMMA CallsAre ==
  /\ DOMAIN Calls = AsyncOp \cup SyncOp
  /\ Calls["existPackFile"] = <<"bannerGetType", "saveGetType">>
  /\ Calls["existNandMemory"] = <<"check">>
  /\ Calls["createPackFile"]
       = <<"saveCreate", "saveOpen", "saveWrite", "saveClose", "tempCreate",
           "tempOpen", "tempWrite", "tempClose", "getHomeDir", "tempMove">>
  /\ Calls["createSync"]
       = <<"saveCreate", "saveOpen", "saveWrite", "saveClose">>
  /\ Calls["loadData"] = <<"loadOpen", "loadRead", "loadClose">>
  /\ Calls["saveData"]
       = <<"saveOpen", "saveWrite", "saveClose",
           "bannerOpen", "bannerWrite", "bannerClose">>
  /\ Calls["deletePackFile"] = <<"bannerDelete", "saveDelete">>
BY CreateSequence, SaveSequences DEF Calls, AsyncOp, SyncOp

\* Where a call stands in its operation: the calls it relies on come before
\* it, and those whose effect it would undo do not.
LEMMA CallOrder ==
  ASSUME NEW op \in DOMAIN Calls, NEW k \in 1 .. Len(Calls[op])
  PROVE  LET c == Calls[op][k]
             done == Done(op, k)
         IN  /\ c \in {"saveOpen", "loadRead", "saveDelete"}
                  => "saveWrite" \notin done
             /\ c = "bannerDelete" =>
                  "bannerOpen" \notin done /\ "bannerWrite" \notin done
             /\ c = "saveDelete" => "loadOpen" \notin done
             /\ c = "loadRead" => "loadOpen" \in done
             /\ c = "bannerWrite" => "bannerOpen" \in done
             /\ c = "tempMove" =>
                  /\ "tempCreate" \in done /\ "tempWrite" \in done
                  /\ "tempMove" \notin done
             /\ c \in Call
<1>1. CASE op = "existPackFile"
  BY <1>1, CallsAre DEF Done, Call
<1>2. CASE op = "existNandMemory"
  BY <1>2, CallsAre DEF Done, Call
<1>3. CASE op = "createPackFile"
  BY <1>3, CallsAre DEF Done, Call
<1>4. CASE op = "createSync"
  BY <1>4, CallsAre DEF Done, Call
<1>5. CASE op = "loadData"
  BY <1>5, CallsAre DEF Done, Call
<1>6. CASE op = "saveData"
  BY <1>6, CallsAre DEF Done, Call
<1>7. CASE op = "deletePackFile"
  BY <1>7, CallsAre DEF Done, Call
<1> QED
  BY <1>1, <1>2, <1>3, <1>4, <1>5, <1>6, <1>7, CallsAre DEF AsyncOp, SyncOp

\* The calls of an operation are a sequence of calls.
LEMMA CallTypes ==
  ASSUME NEW op \in DOMAIN Calls
  PROVE  Calls[op] \in Seq(Call) /\ Len(Calls[op]) \in Nat
<1>1. Calls[op] \in Seq(Call)
  <2>1. CASE op = "createPackFile"
    BY <2>1, CallsAre DEF Call
  <2>2. CASE op = "saveData"
    BY <2>2, CallsAre DEF Call
  <2>3. CASE op = "createSync"
    BY <2>3, CallsAre DEF Call
  <2>4. CASE op = "loadData"
    BY <2>4, CallsAre DEF Call
  <2>5. CASE op = "existPackFile"
    BY <2>5, CallsAre DEF Call
  <2>6. CASE op = "existNandMemory"
    BY <2>6, CallsAre DEF Call
  <2>7. CASE op = "deletePackFile"
    BY <2>7, CallsAre DEF Call
  <2> QED
    BY <2>1, <2>2, <2>3, <2>4, <2>5, <2>6, <2>7, CallsAre DEF AsyncOp, SyncOp
<1> QED
  BY <1>1

\* What is left of an operation: its first call is made, and the others are
\* left.
LEMMA Rest ==
  ASSUME NEW op \in DOMAIN Calls, NEW k \in Positions(op),
         todo.calls = SubSeq(Calls[op], k, Len(Calls[op]))
  PROVE  /\ Calls[op] \in Seq(Call) /\ Len(Calls[op]) \in Nat
         /\ todo.calls = <<>> <=> k = Len(Calls[op]) + 1
         /\ k # Len(Calls[op]) + 1 =>
              /\ k \in 1 .. Len(Calls[op]) /\ k + 1 \in Positions(op)
              /\ Head(todo.calls) = Calls[op][k]
              /\ Tail(todo.calls)
                   = SubSeq(Calls[op], k + 1, Len(Calls[op]))
              /\ Done(op, k + 1) = Done(op, k) \cup {Calls[op][k]}
<1>1. Calls[op] \in Seq(Call)
  BY CallTypes
<1> DEFINE s == Calls[op]
<1> HIDE DEF s
<1>2. s \in Seq(Call) /\ Len(s) \in Nat /\ k \in 1 .. Len(s) + 1
  BY <1>1 DEF s, Positions
<1>3. SubSeq(s, k, Len(s)) = <<>> <=> k = Len(s) + 1
  <2>1. Len(SubSeq(s, k, Len(s))) = Len(s) - k + 1
    BY <1>2, SubSeqProperties
  <2>2. k = Len(s) + 1 => SubSeq(s, k, Len(s)) = <<>>
    BY <1>2, SubSeqEmpty
  <2> QED
    <3>1. ASSUME k <= Len(s) PROVE SubSeq(s, k, Len(s)) # <<>>
      <4>1. Len(SubSeq(s, k, Len(s))) >= 1
        BY <1>2, <2>1, <3>1
      <4>2. \A u : u = <<>> => Len(u) = 0
        OBVIOUS
      <4> DEFINE u == SubSeq(s, k, Len(s))
      <4>3. Len(u) >= 1
        BY <4>1
      <4> HIDE DEF u
      <4>4. u # <<>>
        BY <4>2, <4>3
      <4> QED
        BY <4>4 DEF u
    <3> QED
      BY <1>2, <2>2, <3>1
<1>4. k # Len(s) + 1 =>
        /\ k \in 1 .. Len(s) /\ k + 1 \in 1 .. Len(s) + 1
        /\ Head(SubSeq(s, k, Len(s))) = s[k]
        /\ Tail(SubSeq(s, k, Len(s))) = SubSeq(s, k + 1, Len(s))
  BY <1>2, HeadTailOfSubSeq
<1>5. Done(op, k + 1) = Done(op, k) \cup {s[k]}
  BY <1>2 DEF Done, s
<1> QED
  BY <1>2, <1>3, <1>4, <1>5 DEF s, Positions

-----------------------------------------------------------------------------
(* The effect of a call. *)

\* What a call c of an operation does, whether it is made, fails or is
\* skipped, apart from how the operation goes on.
CallEffect(c) ==
    /\ flags' \in Flags /\ nand' \in Nand
    /\ data' \in Data /\ buffer' \in Data \cup {"torn"}
    /\ UNCHANGED taskVars
    /\ Advance
    /\ flags'.nandAccess = flags.nandAccess
    /\ flags'.asyncSave = flags.asyncSave
    /\ flags'.disable = flags.disable
    /\ flags'.saveExist => nand'.save # "absent"
    /\ flags'.bannerExist => nand'.banner # "absent"
    /\ flags'.error = "no" =>
         /\ flags.error = "no"
         /\ c = "loadOpen" => nand'.save # "absent"
         /\ nand.save # "absent" /\ c # "saveDelete" => nand'.save # "absent"
         /\ c = "tempCreate" => nand'.temp # "absent"
         /\ nand.temp # "absent" /\ c # "tempMove" => nand'.temp # "absent"
         /\ ~flags.disable =>
              /\ c = "tempWrite" \/ (nand.temp = "whole" /\ c # "tempMove")
                   => nand'.temp = "whole"
              /\ c = "bannerOpen"
                   \/ (nand.banner # "absent" /\ c # "bannerDelete")
                   => nand'.banner # "absent"
              /\ c = "saveWrite"
                   \/ (nand.save = buffer
                        /\ c \notin {"saveOpen", "loadRead", "saveDelete"})
                   => nand'.save = buffer'
              /\ c = "bannerWrite"
                   \/ (nand.banner = "whole" /\ c # "bannerDelete")
                   => nand'.banner = "whole"

\* A call that fails keeps its error.
LEMMA FailsEffect ==
  ASSUME NEW n, NEW f \in Flags, Fails(n, f)
  PROVE  /\ nand' = n /\ Advance
         /\ flags' \in Flags /\ flags'.error # "no"
         /\ flags'.nandAccess = f.nandAccess
         /\ flags'.asyncSave = f.asyncSave /\ flags'.disable = f.disable
         /\ flags'.saveExist = f.saveExist
         /\ flags'.bannerExist = f.bannerExist
BY DEF Fails, Flags

\* The flags of the two files change, and no other.
LEMMA ExistFlags ==
  ASSUME flags \in Flags, NEW b \in BOOLEAN
  PROVE  LET f == [flags EXCEPT !.saveExist = b]
             g == [flags EXCEPT !.bannerExist = b]
         IN  /\ f \in Flags /\ f.saveExist = b
             /\ f.bannerExist = flags.bannerExist
             /\ f.error = flags.error /\ f.disable = flags.disable
             /\ f.nandAccess = flags.nandAccess
             /\ f.asyncSave = flags.asyncSave
             /\ [f EXCEPT !.saveExist = TRUE]
                  = [flags EXCEPT !.saveExist = TRUE]
             /\ g \in Flags /\ g.bannerExist = b
             /\ g.saveExist = flags.saveExist
             /\ g.error = flags.error /\ g.disable = flags.disable
             /\ g.nandAccess = flags.nandAccess
             /\ g.asyncSave = flags.asyncSave
BY DEF Flags

\* The situation in which a call of an operation is made.
AtCall(op, k) ==
    /\ ManagerInv
    /\ op \in DOMAIN Calls /\ k \in 1 .. Len(Calls[op])
    /\ Before(op, k) /\ Head(todo.calls) = Calls[op][k]

\* What is known there.
LEMMA AtCallFacts ==
  ASSUME NEW op, NEW k, AtCall(op, k)
  PROVE  /\ flags \in Flags /\ nand \in Nand
         /\ data \in Data /\ buffer \in Data \cup {"torn"}
         /\ buffer # "absent" /\ nand.save \in SaveContent
         /\ nand.banner \in BannerContent /\ nand.temp \in BannerContent
         /\ flags.saveExist => nand.save # "absent"
         /\ flags.bannerExist => nand.banner # "absent"
         /\ \A c : ~Skipped(c) =>
              flags.error = "no" \/ c \in {"bannerDelete", "saveDelete"}
         /\ Effect(Done(op, k))
BY DEF AtCall, ManagerInv, StateType, FlagsTrue, Nand, Data, Skipped, Before

\* A call that is skipped after an error, or since saving is disabled, writes
\* nothing, so that it has no effect to answer for.
LEMMA SkipEffect ==
  ASSUME NEW op, NEW k, AtCall(op, k), SkipCall
  PROVE  CallEffect(Calls[op][k])
<1> DEFINE c == Calls[op][k]
<1>1. /\ nand' = nand /\ flags' = flags
      /\ data' = data /\ buffer' = buffer /\ UNCHANGED taskVars
      /\ Advance /\ Skipped(c)
  BY DEF SkipCall, Kept, taskVars, AtCall
<1>2. flags.error = "no" =>
        /\ flags.disable
        /\ c \in {"saveOpen", "saveWrite", "saveClose", "bannerOpen",
                 "bannerWrite", "bannerClose", "tempOpen", "tempWrite",
                 "tempClose"}
  BY <1>1, WriteCalls DEF Skipped
<1> HIDE DEF c
<1>3. CallEffect(c)
  BY <1>1, <1>2, AtCallFacts DEF CallEffect
<1> QED
  BY <1>3 DEF c

\* NANDCreate of the save or of the banner: the file exists afterwards, or the
\* error is recorded and the flag of the file is not set.
LEMMA CreateEffect ==
  ASSUME NEW op, NEW k, AtCall(op, k), Create
  PROVE  CallEffect(Calls[op][k])
<1> DEFINE c == Calls[op][k]
           f == [flags EXCEPT !.saveExist = FALSE]
           g == [flags EXCEPT !.bannerExist = FALSE]
           h == [f EXCEPT !.saveExist = TRUE]
           m == [nand EXCEPT !.save = Created(@)]
           n == [nand EXCEPT !.temp = Created(@)]
<1> SUFFICES CallEffect(c)
  OBVIOUS
<1>1. data' = data /\ buffer' = buffer /\ UNCHANGED taskVars
  BY DEF Create, Kept, taskVars
<1>2. /\ f \in Flags /\ ~f.saveExist /\ f.bannerExist = flags.bannerExist
      /\ f.error = flags.error /\ f.disable = flags.disable
      /\ f.nandAccess = flags.nandAccess /\ f.asyncSave = flags.asyncSave
  BY AtCallFacts, ExistFlags
<1>3. /\ g \in Flags /\ ~g.bannerExist /\ g.saveExist = flags.saveExist
      /\ g.error = flags.error /\ g.disable = flags.disable
      /\ g.nandAccess = flags.nandAccess /\ g.asyncSave = flags.asyncSave
  BY AtCallFacts, ExistFlags
<1>4. /\ h \in Flags /\ h.saveExist /\ h.bannerExist = flags.bannerExist
      /\ h.error = flags.error /\ h.disable = flags.disable
      /\ h.nandAccess = flags.nandAccess /\ h.asyncSave = flags.asyncSave
  BY AtCallFacts, ExistFlags
<1>5. /\ m \in Nand /\ m.save = Created(nand.save) /\ m.save # "absent"
      /\ m.banner = nand.banner /\ m.temp = nand.temp
  BY AtCallFacts DEF Nand, Created, SaveContent
<1>6. /\ n \in Nand /\ n.temp = Created(nand.temp) /\ n.temp # "absent"
      /\ n.banner = nand.banner /\ n.save = nand.save
  BY AtCallFacts DEF Nand, Created, BannerContent
<1>7. \/ /\ c = "saveCreate" /\ ~Skipped(c)
         /\ Succeeds(m, h) \/ Fails(nand, f)
      \/ /\ c = "tempCreate" /\ ~Skipped(c)
         /\ Succeeds(n, g) \/ Fails(nand, g)
  BY DEF Create, Calling, AtCall
<1> HIDE DEF c, f, g, h, m, n
<1>8. CASE c = "saveCreate" /\ Succeeds(m, h)
  <2>1. nand' = m /\ flags' = h /\ Advance
    BY <1>8 DEF Succeeds
  <2>2. nand'.save # "absent" /\ (nand.save = buffer => nand'.save = buffer')
    BY <1>1, <1>5, <2>1, AtCallFacts DEF Created
  <2>3. nand'.banner = nand.banner /\ nand'.temp = nand.temp
    BY <1>5, <2>1
  <2> QED
    BY <1>1, <1>4, <1>5, <1>8, <2>1, <2>2, <2>3, AtCallFacts DEF CallEffect
<1>9. CASE c = "tempCreate" /\ Succeeds(n, g)
  <2>1. nand' = n /\ flags' = g /\ Advance
    BY <1>9 DEF Succeeds
  <2>2. nand'.temp # "absent" /\ (nand.temp = "whole" => nand'.temp = "whole")
    BY <1>1, <1>6, <2>1, AtCallFacts DEF Created
  <2>3. nand'.banner = nand.banner /\ nand'.save = nand.save
    BY <1>6, <2>1
  <2> QED
    BY <1>1, <1>3, <1>6, <1>9, <2>1, <2>2, <2>3, AtCallFacts DEF CallEffect
<1>10. CASE Fails(nand, f)
  BY <1>1, <1>2, <1>10, FailsEffect, AtCallFacts DEF CallEffect
<1>11. CASE Fails(nand, g)
  BY <1>1, <1>3, <1>11, FailsEffect, AtCallFacts DEF CallEffect
<1> QED
  BY <1>7, <1>8, <1>9, <1>10, <1>11

\* createBannerFile's move: the temporary file is there, so that the banner is
\* there afterwards.
LEMMA MoveBannerEffect ==
  ASSUME NEW op, NEW k, AtCall(op, k), MoveBanner
  PROVE  CallEffect(Calls[op][k])
<1> DEFINE c == Calls[op][k]
           f == [flags EXCEPT !.bannerExist = TRUE]
<1> SUFFICES CallEffect(c)
  OBVIOUS
<1>1. data' = data /\ buffer' = buffer /\ UNCHANGED taskVars
  BY DEF MoveBanner, Kept, taskVars
<1>2. /\ f \in Flags /\ f.bannerExist /\ f.saveExist = flags.saveExist
      /\ f.error = flags.error /\ f.disable = flags.disable
      /\ f.nandAccess = flags.nandAccess /\ f.asyncSave = flags.asyncSave
  BY AtCallFacts, ExistFlags
<1>3. c = "tempMove" /\ flags.error = "no"
  BY AtCallFacts DEF MoveBanner, Calling, AtCall
<1>4. nand.temp # "absent"
  BY <1>3, AtCallFacts, CallOrder DEF Effect, AtCall
<1>5. /\ Moved \in Nand /\ Moved.save = nand.save /\ Moved.banner # "absent"
      /\ nand.banner # "absent" => Moved.banner = nand.banner
  BY <1>4, AtCallFacts DEF Moved, Nand
<1>6. Succeeds(Moved, f) \/ Fails(nand, flags)
  BY DEF MoveBanner
<1> HIDE DEF c, f
<1>7. CASE Succeeds(Moved, f)
  <2>1. nand' = Moved /\ flags' = f /\ Advance
    BY <1>7 DEF Succeeds
  <2>2. nand.banner = "whole" => nand'.banner = "whole"
    BY <1>5, <2>1
  <2> QED
    BY <1>1, <1>2, <1>3, <1>5, <2>1, <2>2, AtCallFacts DEF CallEffect
<1>8. CASE Fails(nand, flags)
  BY <1>1, <1>8, FailsEffect, AtCallFacts DEF CallEffect
<1> QED
  BY <1>6, <1>7, <1>8

\* NANDOpen: it finds the file or fails.
LEMMA OpenEffect ==
  ASSUME NEW op, NEW k, AtCall(op, k),
         SaveOpen \/ BannerOpen \/ TempOpen \/ LoadOpen
  PROVE  CallEffect(Calls[op][k])
<1> DEFINE c == Calls[op][k]
<1> SUFFICES CallEffect(c)
  OBVIOUS
<1>1. data' = data /\ UNCHANGED taskVars /\ buffer' \in Data \cup {"torn"}
  BY AtCallFacts
     DEF SaveOpen, BannerOpen, TempOpen, LoadOpen, Kept, taskVars
<1>2. c # "saveOpen" => buffer' = buffer
  BY DEF SaveOpen, BannerOpen, TempOpen, LoadOpen, Kept, Calling, AtCall
<1>3. c \in {"saveOpen", "bannerOpen", "tempOpen", "loadOpen"}
  BY DEF SaveOpen, BannerOpen, TempOpen, LoadOpen, Calling, AtCall
<1>4. \/ /\ Succeeds(nand, flags)
         /\ c = "bannerOpen" => nand.banner # "absent"
         /\ c = "loadOpen" => nand.save # "absent"
      \/ Fails(nand, flags)
  BY DEF SaveOpen, BannerOpen, TempOpen, LoadOpen, Calling, AtCall, Opens
<1> HIDE DEF c
<1>5. CASE Fails(nand, flags)
  BY <1>1, <1>5, FailsEffect, AtCallFacts DEF CallEffect
<1>6. CASE /\ Succeeds(nand, flags)
           /\ c = "bannerOpen" => nand.banner # "absent"
           /\ c = "loadOpen" => nand.save # "absent"
  <2>1. nand' = nand /\ flags' = flags /\ Advance
    BY <1>6 DEF Succeeds
  <2> QED
    BY <1>1, <1>2, <1>3, <1>6, <2>1, AtCallFacts DEF CallEffect
<1> QED
  BY <1>4, <1>5, <1>6

\* The calls that change no file.
LEMMA PlainEffect ==
  ASSUME NEW op, NEW k, AtCall(op, k),
         GetHomeDir \/ Close \/ CheckMemory \/ LoadClose
  PROVE  CallEffect(Calls[op][k])
<1> DEFINE c == Calls[op][k]
<1> SUFFICES CallEffect(c)
  OBVIOUS
<1>1. /\ data' \in Data /\ UNCHANGED taskVars /\ buffer' = buffer
      /\ buffer' \in Data \cup {"torn"}
  BY AtCallFacts
     DEF GetHomeDir, Close, CheckMemory, LoadClose, Kept, taskVars, Data
<1>2. c \in {"getHomeDir", "saveClose", "bannerClose", "tempClose", "check",
            "loadClose"}
  BY DEF GetHomeDir, Close, CheckMemory, LoadClose, Calling, AtCall
<1>3. Succeeds(nand, flags) \/ Fails(nand, flags)
  BY DEF GetHomeDir, Close, CheckMemory, LoadClose
<1> HIDE DEF c
<1>4. CASE Fails(nand, flags)
  BY <1>1, <1>4, FailsEffect, AtCallFacts DEF CallEffect
<1>5. CASE Succeeds(nand, flags)
  <2>1. nand' = nand /\ flags' = flags /\ Advance
    BY <1>5 DEF Succeeds
  <2> QED
    BY <1>1, <1>2, <2>1, AtCallFacts DEF CallEffect
<1> QED
  BY <1>3, <1>4, <1>5

\* A write: the file holds what was written, or is torn.
LEMMA WriteEffect ==
  ASSUME NEW op, NEW k, AtCall(op, k), Write
  PROVE  CallEffect(Calls[op][k])
<1> DEFINE c == Calls[op][k]
           saved == [nand EXCEPT !.save = buffer]
           saveTorn == [nand EXCEPT !.save = "torn"]
           bannered == [nand EXCEPT !.banner = "whole"]
           bannerTorn == [nand EXCEPT !.banner = "torn"]
           temped == [nand EXCEPT !.temp = "whole"]
           tempTorn == [nand EXCEPT !.temp = "torn"]
<1> SUFFICES CallEffect(c)
  OBVIOUS
<1>1. data' = data /\ buffer' = buffer /\ UNCHANGED taskVars
  BY DEF Write, Kept, taskVars
<1>2. c \in {"saveWrite", "bannerWrite", "tempWrite"} /\ flags.error = "no"
      /\ ~flags.disable
  BY AtCallFacts, WriteCalls DEF Write, Calling, AtCall, Skipped
<1>3. c = "bannerWrite" => nand.banner # "absent"
  BY <1>2, AtCallFacts, CallOrder DEF Effect, AtCall
<1>4. \/ /\ c = "saveWrite"
         /\ Succeeds(saved, flags) \/ Fails(saveTorn, flags)
      \/ /\ c = "bannerWrite"
         /\ Succeeds(bannered, flags) \/ Fails(bannerTorn, flags)
      \/ /\ c = "tempWrite"
         /\ Succeeds(temped, flags) \/ Fails(tempTorn, flags)
  BY DEF Write, Calling, AtCall
<1>5. /\ saved \in Nand /\ saved.save = buffer
      /\ saved.banner = nand.banner /\ saved.temp = nand.temp
  BY AtCallFacts DEF Nand, SaveContent
<1>6. /\ bannered \in Nand /\ bannered.banner = "whole"
      /\ bannered.save = nand.save /\ bannered.temp = nand.temp
  BY AtCallFacts DEF Nand, BannerContent
<1>7. /\ temped \in Nand /\ temped.temp = "whole"
      /\ temped.save = nand.save /\ temped.banner = nand.banner
  BY AtCallFacts DEF Nand, BannerContent
<1>8. /\ saveTorn \in Nand /\ saveTorn.save = "torn"
      /\ saveTorn.banner = nand.banner
      /\ bannerTorn \in Nand /\ bannerTorn.banner = "torn"
      /\ bannerTorn.save = nand.save
      /\ tempTorn \in Nand /\ tempTorn.save = nand.save
      /\ tempTorn.banner = nand.banner
  BY AtCallFacts DEF Nand, BannerContent, SaveContent
<1> HIDE DEF c, saved, bannered, temped, saveTorn, bannerTorn, tempTorn
<1>9. CASE c = "saveWrite" /\ Succeeds(saved, flags)
  <2>1. nand' = saved /\ flags' = flags /\ Advance
    BY <1>9 DEF Succeeds
  <2> QED
    BY <1>1, <1>5, <1>9, <2>1, AtCallFacts DEF CallEffect
<1>10. CASE c = "bannerWrite" /\ Succeeds(bannered, flags)
  <2>1. nand' = bannered /\ flags' = flags /\ Advance
    BY <1>10 DEF Succeeds
  <2> QED
    BY <1>1, <1>6, <1>10, <2>1, AtCallFacts DEF CallEffect
<1>11. CASE c = "tempWrite" /\ Succeeds(temped, flags)
  <2>1. nand' = temped /\ flags' = flags /\ Advance
    BY <1>11 DEF Succeeds
  <2> QED
    BY <1>1, <1>7, <1>11, <2>1, AtCallFacts DEF CallEffect
<1>12. CASE \/ Fails(saveTorn, flags) \/ Fails(bannerTorn, flags)
            \/ Fails(tempTorn, flags)
  BY <1>1, <1>8, <1>12, FailsEffect, AtCallFacts DEF CallEffect
<1> QED
  BY <1>4, <1>9, <1>10, <1>11, <1>12

\* The read of loadSync: it was opened, so that there is something to read.
LEMMA LoadReadEffect ==
  ASSUME NEW op, NEW k, AtCall(op, k), LoadRead
  PROVE  CallEffect(Calls[op][k])
<1> DEFINE c == Calls[op][k]
<1> SUFFICES CallEffect(c)
  OBVIOUS
<1>1. data' = data /\ UNCHANGED taskVars
  BY DEF LoadRead, taskVars
<1>2. c = "loadRead" /\ flags.error = "no"
  BY AtCallFacts DEF LoadRead, Calling, AtCall
<1>3. nand.save # "absent"
  BY <1>2, AtCallFacts, CallOrder DEF Effect, AtCall
<1>4. nand.save \in Data \cup {"torn"}
  BY <1>3, AtCallFacts DEF SaveContent
<1> HIDE DEF c
<1>5. CASE Succeeds(nand, flags) /\ buffer' = nand.save
  <2>1. nand' = nand /\ flags' = flags /\ Advance
    BY <1>5 DEF Succeeds
  <2> QED
    BY <1>1, <1>2, <1>4, <1>5, <2>1, AtCallFacts DEF CallEffect
<1>6. CASE Fails(nand, flags) /\ buffer' = "torn"
  BY <1>1, <1>6, FailsEffect, AtCallFacts DEF CallEffect
<1> QED
  BY <1>5, <1>6 DEF LoadRead

\* existSaveFile and existBannerFile: the flag says what is there, or nothing.
LEMMA GetTypeEffect ==
  ASSUME NEW op, NEW k, AtCall(op, k), GetType
  PROVE  CallEffect(Calls[op][k])
<1> DEFINE c == Calls[op][k]
<1> SUFFICES CallEffect(c)
  OBVIOUS
<1>1. data' = data /\ buffer' = buffer /\ UNCHANGED taskVars
  BY DEF GetType, Kept, taskVars
<1>2. c \in {"bannerGetType", "saveGetType"}
  BY DEF GetType, Calling, AtCall
<1>3. PICK f \in Flags :
        /\ Succeeds(nand, f) \/ Fails(nand, f)
        /\ f.error = flags.error /\ f.disable = flags.disable
        /\ f.nandAccess = flags.nandAccess /\ f.asyncSave = flags.asyncSave
        /\ f.saveExist => nand.save # "absent"
        /\ f.bannerExist => nand.banner # "absent"
  <2>1. CASE Calling("bannerGetType")
    <3>1. PICK b \in BOOLEAN :
            /\ b => nand.banner # "absent"
            /\ \/ Succeeds(nand, [flags EXCEPT !.bannerExist = b])
               \/ Fails(nand, [flags EXCEPT !.bannerExist = b])
      BY <2>1 DEF GetType, Calling
    <3> QED
      BY <3>1, AtCallFacts, ExistFlags
  <2>2. CASE Calling("saveGetType")
    <3>1. PICK b \in BOOLEAN :
            /\ b => nand.save # "absent"
            /\ \/ Succeeds(nand, [flags EXCEPT !.saveExist = b])
               \/ Fails(nand, [flags EXCEPT !.saveExist = b])
      BY <2>2 DEF GetType, Calling
    <3> QED
      BY <3>1, AtCallFacts, ExistFlags
  <2> QED
    BY <2>1, <2>2 DEF GetType
<1> HIDE DEF c
<1>4. CASE Succeeds(nand, f)
  <2>1. nand' = nand /\ flags' = f /\ Advance
    BY <1>4 DEF Succeeds
  <2> QED
    BY <1>1, <1>2, <1>3, <2>1, AtCallFacts DEF CallEffect
<1>5. CASE Fails(nand, f)
  BY <1>1, <1>3, <1>5, FailsEffect, AtCallFacts DEF CallEffect
<1> QED
  BY <1>3, <1>4, <1>5

\* deletePackFileSync: the flag of the file that was deleted is reset.
LEMMA DeleteEffect ==
  ASSUME NEW op, NEW k, AtCall(op, k), Delete
  PROVE  CallEffect(Calls[op][k])
<1> DEFINE c == Calls[op][k]
           f == [flags EXCEPT !.saveExist = FALSE]
           g == [flags EXCEPT !.bannerExist = FALSE]
           m == [nand EXCEPT !.save = "absent"]
           n == [nand EXCEPT !.banner = "absent"]
<1> SUFFICES CallEffect(c)
  OBVIOUS
<1>1. data' = data /\ buffer' = buffer /\ UNCHANGED taskVars
  BY DEF Delete, Kept, taskVars
<1>2. /\ f \in Flags /\ ~f.saveExist /\ f.bannerExist = flags.bannerExist
      /\ f.error = flags.error /\ f.disable = flags.disable
      /\ f.nandAccess = flags.nandAccess /\ f.asyncSave = flags.asyncSave
  BY AtCallFacts, ExistFlags
<1>3. /\ g \in Flags /\ ~g.bannerExist /\ g.saveExist = flags.saveExist
      /\ g.error = flags.error /\ g.disable = flags.disable
      /\ g.nandAccess = flags.nandAccess /\ g.asyncSave = flags.asyncSave
  BY AtCallFacts, ExistFlags
<1>4. /\ m \in Nand /\ m.banner = nand.banner /\ m.temp = nand.temp
      /\ n \in Nand /\ n.save = nand.save /\ n.temp = nand.temp
  BY AtCallFacts DEF Nand, SaveContent, BannerContent
<1>5. \/ c = "saveDelete" /\ Succeeds(m, f)
      \/ c = "bannerDelete" /\ Succeeds(n, g)
      \/ Fails(nand, flags)
  BY DEF Delete, Calling, AtCall
<1> HIDE DEF c, f, g, m, n
<1>6. CASE c = "saveDelete" /\ Succeeds(m, f)
  <2>1. nand' = m /\ flags' = f /\ Advance
    BY <1>6 DEF Succeeds
  <2> QED
    BY <1>1, <1>2, <1>4, <1>6, <2>1, AtCallFacts DEF CallEffect
<1>7. CASE c = "bannerDelete" /\ Succeeds(n, g)
  <2>1. nand' = n /\ flags' = g /\ Advance
    BY <1>7 DEF Succeeds
  <2> QED
    BY <1>1, <1>3, <1>4, <1>7, <2>1, AtCallFacts DEF CallEffect
<1>8. CASE Fails(nand, flags)
  BY <1>1, <1>8, FailsEffect, AtCallFacts DEF CallEffect
<1> QED
  BY <1>5, <1>6, <1>7, <1>8

-----------------------------------------------------------------------------
(* The steps. *)

\* While calls are left, an operation is at one of its calls.
LEMMA AtSomeCall ==
  ASSUME ManagerInv, todo.calls # <<>>
  PROVE  \E op \in DOMAIN Calls : \E k \in 1 .. Len(Calls[op]) :
           AtCall(op, k) /\ (flags.asyncSave => op = "saveData")
<1>1. PICK op \in DOMAIN Calls : \E k \in Positions(op) :
        Before(op, k) /\ (flags.asyncSave => op = "saveData")
  BY DEF ManagerInv, OneOperation, Progress
<1>2. PICK k \in Positions(op) :
        Before(op, k) /\ (flags.asyncSave => op = "saveData")
  BY <1>1
<1>3. k \in 1 .. Len(Calls[op]) /\ Head(todo.calls) = Calls[op][k]
  BY <1>2, Rest DEF Before
<1> QED
  BY <1>2, <1>3 DEF AtCall

\* A step of an operation is a call of it, with the effect of that call.
LEMMA StepIsCall ==
  ASSUME ManagerInv, NandStep
  PROVE  \E op \in DOMAIN Calls : \E k \in 1 .. Len(Calls[op]) :
           /\ AtCall(op, k) /\ CallEffect(Calls[op][k])
           /\ flags.asyncSave => op = "saveData"
<1>1. todo.calls # <<>>
  BY DEF NandStep, SkipCall, Create, GetHomeDir, MoveBanner, SaveOpen,
         BannerOpen, TempOpen, Write, Close, LoadOpen, LoadRead, LoadClose,
         GetType, CheckMemory, Delete, Calling
<1>2. \A op, k : AtCall(op, k) => CallEffect(Calls[op][k])
  BY SkipEffect, CreateEffect, PlainEffect, MoveBannerEffect,
     OpenEffect, WriteEffect, LoadReadEffect, GetTypeEffect, DeleteEffect
     DEF NandStep
<1> QED
  BY <1>1, <1>2, AtSomeCall

\* After a call, the next one is about to be made.
LEMMA CallAdvances ==
  ASSUME NEW op, NEW k, AtCall(op, k), CallEffect(Calls[op][k])
  PROVE  k + 1 \in Positions(op) /\ Before(op, k + 1)'
<1> DEFINE c == Calls[op][k]
           done == Done(op, k)
           after == Done(op, k + 1)
<1>1. /\ op \in DOMAIN Calls /\ k \in 1 .. Len(Calls[op])
      /\ todo.calls = SubSeq(Calls[op], k, Len(Calls[op]))
      /\ Len(Calls[op]) \in Nat /\ k \in Positions(op)
  <2>1. op \in DOMAIN Calls /\ Len(Calls[op]) \in Nat
    BY CallsAre DEF AtCall, AsyncOp, SyncOp
  <2> QED
    BY <2>1 DEF AtCall, Before, Positions
<1>2. /\ k + 1 \in Positions(op) /\ after = done \cup {c}
      /\ Tail(todo.calls) = SubSeq(Calls[op], k + 1, Len(Calls[op]))
  <2>1. k # Len(Calls[op]) + 1
    BY <1>1
  <2> QED
    BY <1>1, <2>1, Rest
<1>3. todo.calls' = SubSeq(Calls[op], k + 1, Len(Calls[op]))
  BY <1>2 DEF CallEffect, Advance, AtCall, ManagerInv, StateType
<1>4. /\ c \in {"saveOpen", "loadRead", "saveDelete"}
           => "saveWrite" \notin done
      /\ c = "bannerDelete" =>
           "bannerOpen" \notin done /\ "bannerWrite" \notin done
      /\ c = "saveDelete" => "loadOpen" \notin done
      /\ c = "tempMove" => "tempMove" \notin done
  BY <1>1, CallOrder
<1>5. Effect(done)
  BY DEF AtCall, Before
<1>6. CallEffect(c)
  OBVIOUS
<1> HIDE DEF c, done, after
<1>7. Effect(after)'
  <2> SUFFICES ASSUME flags'.error = "no"
               PROVE  /\ "loadOpen" \in after => nand'.save # "absent"
                      /\ "tempCreate" \in after /\ "tempMove" \notin after
                           => nand'.temp # "absent"
                      /\ ~flags.disable =>
                           /\ "tempWrite" \in after /\ "tempMove" \notin after
                                => nand'.temp = "whole"
                           /\ "bannerOpen" \in after => nand'.banner # "absent"
                           /\ "saveWrite" \in after => nand'.save = buffer'
                           /\ "bannerWrite" \in after => nand'.banner = "whole"
    <3>1. flags'.disable = flags.disable
      BY <1>6 DEF CallEffect
    <3> QED
      BY <3>1 DEF Effect
  <2>1. flags.error = "no"
    BY <1>6 DEF CallEffect
  <2>2. "loadOpen" \in after => nand'.save # "absent"
    BY <1>2, <1>4, <1>5, <1>6, <2>1 DEF Effect, CallEffect
  <2>3. "tempCreate" \in after /\ "tempMove" \notin after
          => nand'.temp # "absent"
    BY <1>2, <1>4, <1>5, <1>6, <2>1 DEF Effect, CallEffect
  <2>4. ASSUME ~flags.disable
        PROVE  /\ "tempWrite" \in after /\ "tempMove" \notin after
                    => nand'.temp = "whole"
               /\ "bannerOpen" \in after => nand'.banner # "absent"
               /\ "saveWrite" \in after => nand'.save = buffer'
               /\ "bannerWrite" \in after => nand'.banner = "whole"
    BY <1>2, <1>4, <1>5, <1>6, <2>1, <2>4 DEF Effect, CallEffect
  <2> QED
    BY <2>2, <2>3, <2>4
<1> QED
  BY <1>2, <1>3, <1>7 DEF Before, after

\* The calls of an operation preserve the invariant.
LEMMA NandStepKeeps ==
  ASSUME ManagerInv, NandStep
  PROVE  ManagerInv'
<1>1. PICK op \in DOMAIN Calls : \E k \in 1 .. Len(Calls[op]) :
        /\ AtCall(op, k) /\ CallEffect(Calls[op][k])
        /\ flags.asyncSave => op = "saveData"
  BY StepIsCall
<1>2. PICK k \in 1 .. Len(Calls[op]) :
        /\ AtCall(op, k) /\ CallEffect(Calls[op][k])
        /\ flags.asyncSave => op = "saveData"
  BY <1>1
<1>3. /\ flags' \in Flags /\ nand' \in Nand
      /\ data' \in Data /\ buffer' \in Data \cup {"torn"}
      /\ pTask' = pTask /\ queue' = queue
      /\ thread' = thread /\ ended' = ended
      /\ flags'.nandAccess = flags.nandAccess
      /\ flags'.asyncSave = flags.asyncSave
      /\ flags'.saveExist => nand'.save # "absent"
      /\ flags'.bannerExist => nand'.banner # "absent"
      /\ todo' = [todo EXCEPT !.calls = Tail(@)]
  BY <1>2 DEF CallEffect, Advance, taskVars
<1>4. /\ Calls[op] \in Seq(Call) /\ k \in Positions(op)
      /\ todo.calls = SubSeq(Calls[op], k, Len(Calls[op])) /\ todo.calls # <<>>
  <2>1. Len(Calls[op]) \in Nat
    BY CallsAre DEF AsyncOp, SyncOp
  <2>2. k \in Positions(op) /\ k # Len(Calls[op]) + 1
    BY <2>1 DEF Positions
  <2> QED
    BY <1>2, <2>2, Rest DEF AtCall, Before
<1>5. todo \in [by : {NULL, "main", "thread"}, calls : Seq(Call)]
  BY DEF ManagerInv, StateType
<1>6. /\ todo' \in [by : {NULL, "main", "thread"}, calls : Seq(Call)]
      /\ todo'.by = todo.by
  <2>1. todo.calls \in Seq(Call) /\ todo.calls # <<>>
    BY <1>4, <1>5
  <2>2. Tail(todo.calls) \in Seq(Call)
    BY <2>1, HeadTailProperties
  <2> QED
    BY <1>3, <1>5, <2>2
<1>7. StateType'
  BY <1>3, <1>6 DEF ManagerInv, StateType
<1>8. OneJob'
  BY <1>3 DEF ManagerInv, OneJob, Resting
<1>9. todo.by # NULL
  BY <1>4 DEF ManagerInv, OneOperation
<1>10. OneOperation'
  BY <1>3, <1>6, <1>9 DEF ManagerInv, OneOperation
<1>11. k + 1 \in Positions(op) /\ Before(op, k + 1)'
  BY <1>2, CallAdvances
<1>12. Progress'
  BY <1>2, <1>3, <1>11 DEF Progress
<1>13. SaveJob'
  <2>1. flags.asyncSave => todo.by = "thread"
    BY <1>5, <1>9 DEF ManagerInv, OneOperation
  <2>2. flags.asyncSave =>
          thread.at = "run" /\ ended = <<>> /\ flags.nandAccess
    BY <2>1 DEF ManagerInv, OneOperation, OneJob, Resting
  <2> QED
    BY <1>3, <2>2 DEF ManagerInv, SaveJob
<1>14. FlagsTrue'
  BY <1>3 DEF FlagsTrue
<1> QED
  BY <1>7, <1>8, <1>10, <1>12, <1>13, <1>14 DEF ManagerInv

\* The slot that a request takes is a blank one.
LEMMA BlankSlot ==
  ASSUME Blank # {}
  PROVE  FindBlank \in Blank /\ FindBlank \in Slot /\ pTask[FindBlank] = NULL
<1>1. Blank \in SUBSET Nat
  BY JobAssumption DEF Blank, Slot
<1>2. \E j \in Blank : \A i \in Blank : j <= i
  BY <1>1, LeastElement
<1> QED
  BY <1>2 DEF FindBlank, Blank

\* What a request leaves: the queue as it was, or the task in a slot that was
\* blank and the slot at the end of the queue.
LEMMA RequestEffect ==
  ASSUME StateType, NEW task \in AsyncOp, Request(task), queue = <<>>
  PROVE  /\ pTask' \in [Slot -> AsyncOp \cup {NULL}] /\ queue' \in Seq(Slot)
         /\ Len(queue') <= 1
         /\ \A i \in 1 .. Len(queue') : pTask'[queue'[i]] = task
         /\ \A j \in Slot : pTask'[j] = pTask[j] \/ pTask'[j] = task
<1>1. CASE Blank # {} /\ Len(queue) < JobNum
  <2> DEFINE j == FindBlank
  <2>1. j \in Slot
    BY <1>1, BlankSlot
  <2> HIDE DEF j
  <2>2. pTask' = [pTask EXCEPT ![j] = task] /\ queue' = Append(<<>>, j)
    BY <1>1 DEF Request, j
  <2>3. queue' = <<j>>
    BY <2>2
  <2>4. queue' \in Seq(Slot) /\ Len(queue') = 1 /\ queue'[1] = j
    BY <2>1, <2>3
  <2> QED
    BY <2>1, <2>2, <2>4 DEF StateType
<1>2. CASE ~(Blank # {} /\ Len(queue) < JobNum)
  <2>1. pTask' = pTask /\ queue' = <<>>
    BY <1>2 DEF Request
  <2> QED
    BY <2>1 DEF StateType
<1> QED
  BY <1>1, <1>2

\* An operation that is begun has made no call.
LEMMA FirstCall ==
  ASSUME NEW op \in DOMAIN Calls
  PROVE  /\ Calls[op] \in Seq(Call) /\ 1 \in Positions(op)
         /\ Calls[op] = SubSeq(Calls[op], 1, Len(Calls[op]))
         /\ Done(op, 1) = {} /\ Effect(Done(op, 1))'
<1>1. Calls[op] \in Seq(Call) /\ Len(Calls[op]) \in Nat
  BY CallTypes
<1>2. Calls[op] = SubSeq(Calls[op], 1, Len(Calls[op]))
  BY <1>1, SubSeqFull
<1>3. Done(op, 1) = {} /\ 1 \in Positions(op)
  BY <1>1 DEF Done, Positions
<1> QED
  BY <1>1, <1>2, <1>3 DEF Effect

\* When no call is left, all have been made.
LEMMA AllDone ==
  ASSUME ManagerInv, todo.by # NULL, todo.calls = <<>>, flags.asyncSave
  PROVE  SaveDone
<1>1. PICK k \in Positions("saveData") : Before("saveData", k)
  BY DEF ManagerInv, Progress
<1>2. /\ "saveData" \in DOMAIN Calls /\ Len(Calls["saveData"]) = 6
      /\ Calls["saveData"][2] = "saveWrite"
      /\ Calls["saveData"][5] = "bannerWrite"
  BY CallsAre DEF AsyncOp, SyncOp
<1>3. k = Len(Calls["saveData"]) + 1
  BY <1>1, <1>2, Rest DEF Before
<1>4. k = 7
  BY <1>2, <1>3
<1>5. "saveWrite" \in Done("saveData", k) /\ "bannerWrite" \in Done("saveData", k)
  BY <1>2, <1>4 DEF Done
<1> QED
  BY <1>1, <1>5 DEF Before, Effect, SaveDone

\* What the assumption says of NULL.
LEMMA NullIs == NULL # "main" /\ NULL # "thread"
BY NullAssumption

\* While the manager waits for a job, nobody else touches the operation: the
\* progress of one and the contents of the files are not disturbed.
LEMMA ProgressKept ==
  ASSUME Progress, todo' = todo, nand' = nand, buffer' = buffer,
         flags'.error = flags.error, flags'.disable = flags.disable,
         flags'.asyncSave => flags.asyncSave
  PROVE  Progress'
<1> SUFFICES ASSUME todo.by # NULL
             PROVE  \E op \in DOMAIN Calls : \E k \in Positions(op) :
                      /\ Before(op, k)' /\ (flags'.asyncSave => op = "saveData")
  BY DEF Progress
<1>1. PICK op \in DOMAIN Calls : \E k \in Positions(op) :
        Before(op, k) /\ (flags.asyncSave => op = "saveData")
  BY DEF Progress
<1>2. PICK k \in Positions(op) :
        Before(op, k) /\ (flags.asyncSave => op = "saveData")
  BY <1>1
<1>3. Before(op, k)'
  BY <1>2 DEF Before, Effect
<1> QED
  BY <1>2, <1>3

\* The thread takes a job, looks at it, clears the slot: TaskThread::run.
LEMMA ThreadStepKeeps ==
  ASSUME ManagerInv, ThreadStep, Unused, UNCHANGED todo
  PROVE  ManagerInv'
<1>1. /\ flags' = flags /\ data' = data /\ buffer' = buffer /\ nand' = nand
      /\ todo' = todo
  BY DEF Unused
<1>2. Progress' /\ FlagsTrue'
  BY <1>1, ProgressKept DEF ManagerInv, FlagsTrue
<1>3. CASE WaitMessageBlock
  <2>1. /\ thread.at = "receive" /\ queue # <<>> /\ queue \in Seq(Slot)
        /\ Len(queue) <= 1 /\ ended \in Seq(Slot)
        /\ thread' = [at |-> "test", job |-> Head(queue)]
        /\ queue' = Tail(queue) /\ pTask' = pTask /\ ended' = ended
    BY <1>3 DEF WaitMessageBlock, ManagerInv, OneJob, StateType
  <2>2. /\ Len(queue) = 1 /\ Head(queue) = queue[1] /\ queue[1] \in Slot
        /\ Tail(queue) = <<>>
    <3>1. Len(queue) = 1
      <4>1. Len(queue) \in Nat \ {0}
        BY <2>1, EmptySeq
      <4>2. Len(queue) <= 1
        BY <2>1
      <4> QED
        BY <4>1, <4>2
    <3>2. Head(queue) = queue[1] /\ queue[1] \in Slot
      BY <2>1, <3>1
    <3>3. Tail(queue) \in Seq(Slot) /\ Len(Tail(queue)) = 0
      BY <2>1, <3>1, HeadTailProperties
    <3> QED
      BY <3>1, <3>2, <3>3, EmptySeq
  <2>3. ended = <<>> /\ flags.nandAccess
    BY <2>1, <2>2 DEF ManagerInv, OneJob
  <2>4. StateType'
    BY <1>1, <2>1, <2>2 DEF ManagerInv, StateType, Places
  <2>5. OneJob'
    BY <1>1, <2>1, <2>2, <2>3 DEF OneJob, Resting
  <2>6. OneOperation'
    BY <1>1, <2>1 DEF ManagerInv, OneOperation
  <2>7. SaveJob'
    BY <1>1, <2>1, <2>2, <2>3 DEF ManagerInv, SaveJob
  <2> QED
    BY <1>2, <2>4, <2>5, <2>6, <2>7 DEF ManagerInv
<1>4. CASE TestTask
  <2>1. /\ thread.at = "test" /\ pTask' = pTask /\ ended' = ended
        /\ queue' = queue /\ thread' \in [at : Places, job : Slot \cup {NULL}]
        /\ thread'.job = thread.job
        /\ thread'.at = IF pTask[thread.job] = NULL THEN "blank" ELSE "call"
    BY <1>4 DEF TestTask, ThreadGoes, ManagerInv, StateType, Places
  <2>2. /\ queue = <<>> /\ ended = <<>> /\ flags.nandAccess
        /\ thread.job \in Slot
    BY <2>1 DEF ManagerInv, OneJob, Resting
  <2>3. StateType'
    BY <1>1, <2>1 DEF ManagerInv, StateType
  <2>4. OneJob'
    BY <1>1, <2>1, <2>2 DEF ManagerInv, OneJob, Resting
  <2>5. OneOperation'
    BY <1>1, <2>1 DEF ManagerInv, OneOperation
  <2>6. SaveJob'
    BY <1>1, <2>1, <2>2 DEF ManagerInv, SaveJob
  <2> QED
    BY <1>2, <2>3, <2>4, <2>5, <2>6 DEF ManagerInv
<1>5. CASE SendEndMessage
  <2>1. /\ thread.at = "report" /\ pTask' = pTask /\ queue' = queue
        /\ thread' \in [at : Places, job : Slot \cup {NULL}]
        /\ thread'.job = thread.job /\ thread'.at = "blank"
        /\ \/ ended' = Append(ended, thread.job)
           \/ ended' = ended
    BY <1>5 DEF SendEndMessage, ThreadGoes, ManagerInv, StateType, Places
  <2>2. /\ queue = <<>> /\ ended = <<>> /\ flags.nandAccess
        /\ thread.job \in Slot
    BY <2>1 DEF ManagerInv, OneJob, Resting
  <2>3. ended' \in Seq(Slot) /\ Len(ended') <= 1
    <3>1. ended' = <<thread.job>> \/ ended' = <<>>
      BY <2>1, <2>2
    <3>2. <<thread.job>> \in Seq(Slot) /\ Len(<<thread.job>>) = 1
      BY <2>2
    <3>3. <<>> \in Seq(Slot) /\ Len(<<>>) = 0
      OBVIOUS
    <3>4. CASE ended' = <<thread.job>>
      BY <3>2, <3>4
    <3>5. CASE ended' = <<>>
      BY <3>3, <3>5
    <3> QED
      BY <3>1, <3>4, <3>5
  <2>4. StateType'
    BY <1>1, <2>1, <2>3 DEF ManagerInv, StateType
  <2>5. OneJob'
    BY <1>1, <2>1, <2>2, <2>3 DEF OneJob, Resting
  <2>6. OneOperation'
    BY <1>1, <2>1 DEF ManagerInv, OneOperation
  <2>7. SaveJob'
    BY <1>1, <2>1, <2>2 DEF ManagerInv, SaveJob, SaveDone
  <2> QED
    BY <1>2, <2>4, <2>5, <2>6, <2>7 DEF ManagerInv
<1>6. CASE ResetTask \/ ClearFunctions
  <2>1. /\ thread.at \in {"blank", "clear"} /\ queue' = queue /\ ended' = ended
        /\ pTask' = [pTask EXCEPT ![thread.job] = NULL]
        /\ thread' \in [at : Places, job : Slot \cup {NULL}]
        /\ thread'.at \in {"clear", "receive"}
        /\ thread'.at # "receive" => thread'.job = thread.job
    BY <1>6 DEF ResetTask, ClearFunctions, ThreadGoes, ManagerInv, StateType,
                Places
  <2>2. /\ pTask' \in [Slot -> AsyncOp \cup {NULL}]
        /\ \A j \in Slot : pTask'[j] \in {pTask[j], NULL}
    BY <2>1 DEF ManagerInv, StateType
  <2>3. StateType'
    BY <1>1, <2>1, <2>2 DEF ManagerInv, StateType
  <2>4. OneJob'
    BY <1>1, <2>1 DEF ManagerInv, OneJob, Resting
  <2>5. OneOperation'
    BY <1>1, <2>1 DEF ManagerInv, OneOperation
  <2>6. SaveJob'
    <3>1. \A i \in 1 .. Len(queue) : queue[i] \in Slot
      BY DEF ManagerInv, StateType
    <3> QED
      BY <1>1, <2>1, <2>2, <3>1 DEF ManagerInv, SaveJob, SaveDone
  <2> QED
    BY <1>2, <2>3, <2>4, <2>5, <2>6 DEF ManagerInv
<1> QED
  BY <1>3, <1>4, <1>5, <1>6 DEF ThreadStep

\* The thread begins the operation it was asked for.
LEMMA CallTaskKeeps ==
  ASSUME ManagerInv, CallTask
  PROVE  ManagerInv'
<1>1. /\ thread.at = "call" /\ pTask' = pTask /\ queue' = queue
      /\ ended' = ended /\ flags' = flags /\ data' = data
      /\ buffer' = buffer /\ nand' = nand
      /\ todo' = [by |-> "thread", calls |-> Calls[pTask[thread.job]]]
      /\ thread' \in [at : Places, job : Slot \cup {NULL}]
      /\ thread'.job = thread.job /\ thread'.at = "run"
  BY DEF CallTask, ThreadGoes, Unused, ManagerInv, StateType, Places
<1>2. /\ queue = <<>> /\ ended = <<>> /\ flags.nandAccess
      /\ thread.job \in Slot /\ pTask[thread.job] # NULL
  BY <1>1 DEF ManagerInv, OneJob, Resting
<1>3. PICK op \in DOMAIN Calls :
        op = pTask[thread.job] /\ (flags.asyncSave => op = "saveData")
  BY <1>1, <1>2, CallsAre DEF ManagerInv, StateType, SaveJob
<1>4. /\ Calls[op] \in Seq(Call) /\ 1 \in Positions(op)
      /\ todo'.calls = SubSeq(Calls[op], 1, Len(Calls[op]))
      /\ Effect(Done(op, 1))'
  BY <1>1, <1>3, FirstCall
<1>5. StateType'
  BY <1>1, <1>3, <1>4 DEF ManagerInv, StateType
<1>6. OneJob'
  BY <1>1, <1>2 DEF OneJob, Resting
<1>7. OneOperation'
  BY <1>1, <1>2, NullIs DEF OneOperation
<1>8. Progress'
  <2>1. Before(op, 1)'
    BY <1>4 DEF Before
  <2> QED
    BY <1>1, <1>3, <1>4, <2>1 DEF Progress
<1>9. SaveJob'
  BY <1>1, <1>2 DEF SaveJob
<1>10. FlagsTrue'
  BY <1>1 DEF ManagerInv, FlagsTrue
<1> QED
  BY <1>5, <1>6, <1>7, <1>8, <1>9, <1>10 DEF ManagerInv

\* The thread ends an operation: a save has written the files or kept an error.
LEMMA TaskReturnsKeeps ==
  ASSUME ManagerInv, TaskReturns
  PROVE  ManagerInv'
<1>1. /\ thread.at = "run" /\ todo.calls = <<>> /\ pTask' = pTask
      /\ queue' = queue /\ ended' = ended /\ flags' = flags /\ data' = data
      /\ buffer' = buffer /\ nand' = nand
      /\ todo' = [by |-> NULL, calls |-> <<>>]
      /\ thread' \in [at : Places, job : Slot \cup {NULL}]
      /\ thread'.job = thread.job /\ thread'.at = "report"
  BY DEF TaskReturns, ThreadGoes, Unused, Idle, ManagerInv, StateType, Places
<1>2. /\ queue = <<>> /\ ended = <<>> /\ flags.nandAccess
      /\ thread.job \in Slot
  BY <1>1 DEF ManagerInv, OneJob, Resting
<1>3. StateType'
  BY <1>1 DEF ManagerInv, StateType
<1>4. OneJob'
  BY <1>1, <1>2 DEF OneJob, Resting
<1>5. OneOperation'
  BY <1>1, NullIs DEF OneOperation
<1>6. Progress'
  BY <1>1 DEF Progress
<1>7. SaveJob'
  <2>1. todo.by # NULL
    BY <1>1, NullIs DEF ManagerInv, OneOperation
  <2>2. flags.asyncSave => SaveDone
    BY <1>1, <2>1, AllDone
  <2>3. flags.asyncSave => SaveDone'
    BY <1>1, <2>2 DEF SaveDone
  <2> QED
    BY <1>1, <1>2, <2>3 DEF SaveJob
<1>8. FlagsTrue'
  BY <1>1 DEF ManagerInv, FlagsTrue
<1> QED
  BY <1>3, <1>4, <1>5, <1>6, <1>7, <1>8 DEF ManagerInv

\* The main thread asks for an operation: nothing is going on then.
LEMMA AsyncKeeps ==
  ASSUME ManagerInv, NEW op \in AsyncOp, Async(op)
  PROVE  ManagerInv'
<1>1. /\ thread' = thread /\ ended' = ended /\ data' = data
      /\ buffer' = buffer /\ todo' = todo /\ nand' = nand
      /\ todo.by # "main" /\ Request(op)
      /\ ~flags.nandAccess /\ ~flags.asyncSave
  BY DEF Async, InMain, IsAsyncFinish
<1>2. /\ flags' \in Flags /\ flags'.nandAccess /\ flags'.error = "no"
      /\ flags'.asyncSave => op = "saveData"
      /\ flags'.saveExist = flags.saveExist
      /\ flags'.bannerExist = flags.bannerExist
  BY DEF Async, ManagerInv, StateType, Flags
<1>3. queue = <<>> /\ ended = <<>> /\ Resting
  BY <1>1 DEF ManagerInv, OneJob
<1>4. /\ pTask' \in [Slot -> AsyncOp \cup {NULL}] /\ queue' \in Seq(Slot)
      /\ Len(queue') <= 1
      /\ \A i \in 1 .. Len(queue') : pTask'[queue'[i]] = op
  BY <1>1, <1>3, RequestEffect DEF ManagerInv
<1>5. todo.by = NULL
  BY <1>1, <1>3 DEF ManagerInv, StateType, OneOperation, Resting
<1>6. StateType'
  BY <1>1, <1>2, <1>4 DEF ManagerInv, StateType
<1>7. OneJob'
  <2>1. Len(ended') = 0
    BY <1>1, <1>3
  <2>2. Len(queue') \in Nat
    BY <1>4
  <2> QED
    BY <1>1, <1>2, <1>3, <1>4, <2>1, <2>2 DEF ManagerInv, OneJob, Resting
<1>8. OneOperation'
  BY <1>1, <1>5, NullIs DEF ManagerInv, OneOperation
<1>9. Progress'
  BY <1>1, <1>5 DEF Progress
<1>10. SaveJob'
  BY <1>1, <1>2, <1>3, <1>4 DEF SaveJob, Resting
<1>11. FlagsTrue'
  BY <1>1, <1>2 DEF ManagerInv, FlagsTrue
<1> QED
  BY <1>6, <1>7, <1>8, <1>9, <1>10, <1>11 DEF ManagerInv

\* The main thread begins an operation itself.
LEMMA SyncKeeps ==
  ASSUME ManagerInv, NEW op \in SyncOp, Sync(op)
  PROVE  ManagerInv'
<1>1. /\ pTask' = pTask /\ queue' = queue /\ thread' = thread
      /\ ended' = ended /\ data' = data /\ buffer' = buffer /\ nand' = nand
      /\ ~flags.nandAccess /\ ~flags.asyncSave
      /\ todo' = [by |-> "main", calls |-> Calls[op]]
      /\ todo.by = NULL
  BY DEF Sync, IsAsyncFinish, taskVars, Idle
<1>2. /\ flags' \in Flags /\ ~flags'.nandAccess /\ ~flags'.asyncSave
      /\ flags'.saveExist = flags.saveExist
      /\ flags'.bannerExist = flags.bannerExist
  BY <1>1 DEF Sync, ManagerInv, StateType, Flags
<1>3. op \in DOMAIN Calls
  BY CallsAre
<1>4. /\ Calls[op] \in Seq(Call) /\ 1 \in Positions(op)
      /\ todo'.calls = SubSeq(Calls[op], 1, Len(Calls[op]))
      /\ Effect(Done(op, 1))'
  BY <1>1, <1>3, FirstCall
<1>5. StateType'
  BY <1>1, <1>2, <1>4 DEF ManagerInv, StateType
<1>6. OneJob'
  BY <1>1, <1>2 DEF ManagerInv, OneJob, Resting
<1>7. OneOperation'
  BY <1>1, <1>2, NullIs DEF ManagerInv, OneOperation
<1>8. Progress'
  <2>1. Before(op, 1)'
    BY <1>4 DEF Before
  <2> QED
    BY <1>2, <1>3, <1>4, <2>1 DEF Progress
<1>9. SaveJob'
  BY <1>2 DEF SaveJob
<1>10. FlagsTrue'
  BY <1>1, <1>2 DEF ManagerInv, FlagsTrue
<1> QED
  BY <1>5, <1>6, <1>7, <1>8, <1>9, <1>10 DEF ManagerInv

\* The end of an operation of the main thread.
LEMMA SyncReturnsKeeps ==
  ASSUME ManagerInv, SyncReturns
  PROVE  ManagerInv'
<1>1. /\ pTask' = pTask /\ queue' = queue /\ thread' = thread
      /\ ended' = ended /\ flags' = flags /\ data' = data
      /\ buffer' = buffer /\ nand' = nand
      /\ todo' = [by |-> NULL, calls |-> <<>>]
      /\ todo.by = "main"
  BY DEF SyncReturns, taskVars, Unused, Idle
<1>2. StateType'
  BY <1>1 DEF ManagerInv, StateType
<1>3. OneJob'
  BY <1>1 DEF ManagerInv, OneJob, Resting
<1>4. OneOperation'
  BY <1>1, NullIs DEF ManagerInv, OneOperation
<1>5. Progress'
  BY <1>1 DEF Progress
<1>6. SaveJob'
  BY <1>1 DEF ManagerInv, SaveJob, SaveDone
<1>7. FlagsTrue'
  BY <1>1 DEF ManagerInv, FlagsTrue
<1> QED
  BY <1>2, <1>3, <1>4, <1>5, <1>6, <1>7 DEF ManagerInv

\* The end message is taken, and with it the NAND access is over.
LEMMA FinishKeeps ==
  ASSUME ManagerInv, FinishNandAccess
  PROVE  ManagerInv'
<1>1. /\ pTask' = pTask /\ queue' = queue /\ thread' = thread
      /\ data' = data /\ buffer' = buffer /\ nand' = nand /\ todo' = todo
      /\ ended # <<>> /\ ended' = Tail(ended)
  BY DEF FinishNandAccess
<1>2. /\ flags' \in Flags /\ ~flags'.nandAccess
      /\ flags'.asyncSave = flags.asyncSave
      /\ flags'.error = flags.error /\ flags'.disable = flags.disable
      /\ flags'.saveExist = flags.saveExist
      /\ flags'.bannerExist = flags.bannerExist
  BY DEF FinishNandAccess, ManagerInv, StateType, Flags
<1>3. queue = <<>> /\ ended' = <<>> /\ Resting
  <2>1. ended \in Seq(Slot) /\ queue \in Seq(Slot)
    BY DEF ManagerInv, StateType
  <2>2. Len(queue) + Len(ended) <= 1 /\ Resting
    BY <1>1 DEF ManagerInv, OneJob
  <2>3. Len(ended) \in Nat \ {0} /\ Len(queue) \in Nat
    BY <1>1, <2>1, EmptySeq
  <2>4. Len(ended) = 1 /\ Len(queue) = 0
    <3> DEFINE m == Len(ended)
               n == Len(queue)
    <3>1. m \in Nat \ {0} /\ n \in Nat /\ n + m <= 1
      BY <2>2, <2>3
    <3> HIDE DEF m, n
    <3>2. m = 1 /\ n = 0
      BY <3>1
    <3> QED
      BY <3>2 DEF m, n
  <2>5. Tail(ended) \in Seq(Slot) /\ Len(Tail(ended)) = 0
    BY <1>1, <2>1, <2>4, HeadTailProperties
  <2> QED
    BY <1>1, <2>1, <2>2, <2>4, <2>5, EmptySeq
<1>4. StateType'
  BY <1>1, <1>2, <1>3 DEF ManagerInv, StateType
<1>5. OneJob'
  BY <1>1, <1>2, <1>3 DEF ManagerInv, OneJob, Resting
<1>6. OneOperation'
  BY <1>1, <1>2 DEF ManagerInv, OneOperation
<1>7. Progress'
  BY <1>1, <1>2, ProgressKept DEF ManagerInv
<1>8. SaveJob'
  BY <1>1, <1>2, <1>3 DEF ManagerInv, SaveJob, SaveDone, Resting
<1>9. FlagsTrue'
  BY <1>1, <1>2 DEF ManagerInv, FlagsTrue
<1> QED
  BY <1>4, <1>5, <1>6, <1>7, <1>8, <1>9 DEF ManagerInv

\* The game changes its data.
LEMMA SetDataKeeps ==
  ASSUME ManagerInv, SetData
  PROVE  ManagerInv'
<1>1. /\ pTask' = pTask /\ queue' = queue /\ thread' = thread
      /\ ended' = ended /\ flags' = flags /\ data' \in Data
      /\ buffer' = buffer /\ nand' = nand /\ todo' = todo
  BY DEF SetData, taskVars
<1>2. Progress'
  BY <1>1, ProgressKept DEF ManagerInv
<1>3. StateType' /\ OneJob'
  BY <1>1 DEF ManagerInv, StateType, OneJob, Resting
<1> QED
  BY <1>1, <1>2, <1>3
     DEF ManagerInv, OneOperation, SaveJob, SaveDone, FlagsTrue

\* Saving is enabled or disabled, while nothing is going on; or the manager
\* ends its wait for a save.
LEMMA FlagsKeep ==
  ASSUME ManagerInv, SetSaveDisable \/ Update
  PROVE  ManagerInv'
<1>1. /\ pTask' = pTask /\ queue' = queue /\ thread' = thread
      /\ ended' = ended /\ data' = data /\ buffer' = buffer
      /\ nand' = nand /\ todo' = todo /\ todo.by # "main"
      /\ ~flags.nandAccess
  BY DEF SetSaveDisable, Update, Updating, InMain, IsAsyncFinish, taskVars
<1>2. /\ flags' \in Flags /\ ~flags'.nandAccess
      /\ flags'.error = flags.error
      /\ flags'.saveExist = flags.saveExist
      /\ flags'.bannerExist = flags.bannerExist
      /\ flags'.asyncSave => flags.asyncSave /\ flags'.disable = flags.disable
  <2>1. CASE SetSaveDisable
    BY <2>1 DEF SetSaveDisable, IsAsyncFinish, ManagerInv, StateType, Flags
  <2>2. CASE Update
    BY <2>2 DEF Update, Updating, SaveOver, ManagerInv, StateType, Flags
  <2> QED
    BY <2>1, <2>2
<1>3. todo.by = NULL
  BY <1>1 DEF ManagerInv, OneJob, OneOperation, StateType, Resting
<1>4. StateType'
  BY <1>1, <1>2 DEF ManagerInv, StateType
<1>5. OneJob'
  BY <1>1, <1>2 DEF ManagerInv, OneJob, Resting
<1>6. OneOperation'
  BY <1>1, <1>2, <1>3, NullIs DEF ManagerInv, OneOperation
<1>7. Progress'
  BY <1>1, <1>3 DEF Progress
<1>8. SaveJob'
  BY <1>1, <1>2 DEF ManagerInv, SaveJob, SaveDone
<1>9. FlagsTrue'
  BY <1>1, <1>2 DEF ManagerInv, FlagsTrue
<1> QED
  BY <1>4, <1>5, <1>6, <1>7, <1>8, <1>9 DEF ManagerInv

\* The game has just started; the files may hold anything.
Start ==
    /\ TaskThreadInit
    /\ flags = NoFlags
    /\ data = "fresh" /\ buffer = "torn" /\ todo = Idle
    /\ nand \in Nand

\* Where everything begins, whatever the files hold.
LEMMA StartHolds ==
  Start => ManagerInv
<1> SUFFICES ASSUME Start PROVE ManagerInv
  OBVIOUS
<1>1. StateType
  BY DEF Start, TaskThreadInit, StateType, Places, Flags, NoFlags, Data, Idle
<1>2. OneJob
  BY DEF Start, TaskThreadInit, OneJob, Resting
<1>3. OneOperation
  BY NullIs DEF Start, TaskThreadInit, OneOperation, Idle, NoFlags
<1>4. Progress
  BY DEF Start, Progress, Idle
<1>5. SaveJob /\ FlagsTrue
  BY DEF Start, SaveJob, FlagsTrue, NoFlags
<1> QED
  BY <1>1, <1>2, <1>3, <1>4, <1>5 DEF ManagerInv

\* The power goes off: the files keep what they hold, or are torn.
LEMMA PowerOffKeeps ==
  ASSUME ManagerInv, PowerOff
  PROVE  ManagerInv'
<1>1. nand' \in Nand
  BY DEF PowerOff, ManagerInv, StateType, Nand, SaveContent, BannerContent
<1>2. Start'
  BY <1>1 DEF PowerOff, Start, TaskThreadInit
<1>3. Start' => ManagerInv'
  BY StartHolds, PTL
<1> QED
  BY <1>2, <1>3

\* The invariant of the manager holds in every state it can be in.
LEMMA Invariance == Spec => []ManagerInv
<1>1. Init => ManagerInv
  <2>1. Init => Start
    BY DEF Init, Start, Nand, SaveContent, BannerContent
  <2> QED
    BY <2>1, StartHolds
<1>2. ManagerInv /\ [Next]_vars => ManagerInv'
  <2> SUFFICES ASSUME ManagerInv, [Next]_vars
               PROVE  ManagerInv'
    OBVIOUS
  <2>1. CASE NandStep
    BY <2>1, NandStepKeeps
  <2>2. CASE ThreadRuns
    BY <2>2, CallTaskKeeps, TaskReturnsKeeps, ThreadStepKeeps DEF ThreadRuns
  <2>3. CASE Main
    BY <2>3, AsyncKeeps, SyncKeeps, SyncReturnsKeeps, FinishKeeps,
       SetDataKeeps, FlagsKeep DEF Main
  <2>4. CASE PowerOff
    BY <2>4, PowerOffKeeps
  <2>5. CASE UNCHANGED vars
    <3>1. /\ pTask' = pTask /\ queue' = queue /\ thread' = thread
          /\ ended' = ended /\ flags' = flags /\ data' = data
          /\ buffer' = buffer /\ todo' = todo /\ nand' = nand
      BY <2>5 DEF vars
    <3>2. Progress'
      BY <3>1, ProgressKept DEF ManagerInv
    <3>3. StateType' /\ OneJob'
      BY <3>1 DEF ManagerInv, StateType, OneJob, Resting
    <3> QED
      BY <3>1, <3>2, <3>3
         DEF ManagerInv, OneOperation, SaveJob, SaveDone, FlagsTrue
  <2> QED
    BY <2>1, <2>2, <2>3, <2>4, <2>5 DEF Next
<1> QED
  BY <1>1, <1>2, PTL DEF Spec

-----------------------------------------------------------------------------
(* The properties. *)

\* When the manager would end an asynchronous save without asking the player,
\* the save file and the banner are on the NAND as they were written, unless
\* saving is disabled: for every number of slots and of end messages.
THEOREM SaveIsOnTheNand == Spec => []SavedOrReported
<1>1. ManagerInv => SavedOrReported
  BY DEF ManagerInv, SaveJob, SaveDone, SavedOrReported, Updating,
         IsErrorOccured
<1> QED
  BY <1>1, Invariance, PTL

\* The state of the manager and of the task thread has its types, and
\* isPackFileExist never answers that a file is there that is not.
THEOREM ExistFlagsAreTrue == Spec => []ExistFlagsTrue
<1>1. ManagerInv => ExistFlagsTrue
  <2> SUFFICES ASSUME ManagerInv PROVE ExistFlagsTrue
    OBVIOUS
  <2>1. Len(queue) <= JobNum
    <3>1. Len(queue) \in Nat /\ Len(ended) \in Nat
      BY DEF ManagerInv, StateType
    <3>2. Len(queue) + Len(ended) <= 1
      BY DEF ManagerInv, OneJob
    <3> QED
      BY <3>1, <3>2, JobAssumption
  <2>2. TypeOK
    BY <2>1 DEF ManagerInv, StateType, OneOperation, TypeOK, Flags, Nand
  <2> QED
    BY <2>2 DEF ManagerInv, FlagsTrue, ExistFlagsTrue
<1> QED
  BY <1>1, Invariance, PTL

\* A banner appears in the home directory whole, or saving is disabled:
\* createBannerFile moves the temporary file there after all its calls
\* succeeded, and neither a save nor the power going off creates one.
THEOREM BannerIsWhole == Spec => BannerAppearsWhole
<1> DEFINE A == nand.banner = "absent" /\ nand'.banner # "absent"
                  => nand'.banner = "whole" \/ flags.disable
<1>1. ManagerInv /\ [Next]_vars => A
  <2> SUFFICES ASSUME ManagerInv, [Next]_vars, nand.banner = "absent",
                      nand'.banner # "absent", ~flags.disable
               PROVE  nand'.banner = "whole"
    OBVIOUS
  <2>1. nand' # nand
    OBVIOUS
  <2>2. NandStep \/ PowerOff
    BY <2>1 DEF Next, vars, ThreadRuns, CallTask, TaskReturns, Unused, Main,
                Async, Sync, SyncReturns, FinishNandAccess, SetData,
                SetSaveDisable, Update
  <2>3. ASSUME NEW op \in DOMAIN Calls, NEW k \in 1 .. Len(Calls[op]),
               AtCall(op, k), Calling("bannerWrite")
        PROVE  FALSE
    <3>1. Calls[op][k] = "bannerWrite" /\ flags.error = "no"
      BY <2>3, AtCallFacts DEF Calling, AtCall
    <3>2. nand.banner # "absent"
      BY <2>3, <3>1, AtCallFacts, CallOrder DEF Effect
    <3> QED
      BY <3>2
  <2>4. CASE NandStep
    <3>1. PICK op \in DOMAIN Calls : \E k \in 1 .. Len(Calls[op]) : AtCall(op, k)
      BY <2>4, StepIsCall
    <3>2. PICK k \in 1 .. Len(Calls[op]) : AtCall(op, k)
      BY <3>1
    <3>3. nand \in Nand
      BY DEF ManagerInv, StateType
    <3>4. CASE MoveBanner
      <4>1. Calls[op][k] = "tempMove" /\ flags.error = "no"
        BY <3>2, <3>4, AtCallFacts DEF MoveBanner, Calling, AtCall
      <4>2. nand.temp = "whole"
        BY <3>2, <4>1, AtCallFacts, CallOrder DEF Effect
      <4>3. nand' = Moved
        BY <2>1, <3>4 DEF MoveBanner, Succeeds, Fails
      <4> QED
        BY <3>3, <4>2, <4>3 DEF Moved, Nand
    <3>5. CASE ~MoveBanner
      <4>1. nand'.banner = nand.banner
        BY <2>3, <2>4, <3>2, <3>3, <3>5
           DEF NandStep, SkipCall, Create, GetHomeDir, SaveOpen, BannerOpen,
               TempOpen, Write, Close, LoadOpen, LoadRead, LoadClose, GetType,
               CheckMemory, Delete, Opens, Succeeds, Fails, Nand
      <4> QED
        BY <4>1
    <3> QED
      BY <3>4, <3>5
  <2>5. CASE PowerOff
    <3>1. Calling("bannerWrite")
      BY <2>1, <2>5 DEF PowerOff, ManagerInv, StateType, Nand
    <3>2. todo.calls # <<>>
      BY <3>1 DEF Calling
    <3> QED
      BY <2>3, <3>1, <3>2, AtSomeCall
  <2> QED
    BY <2>2, <2>4, <2>5
<1> QED
  BY <1>1, Invariance, PTL DEF Spec, BannerAppearsWhole
=============================================================================
