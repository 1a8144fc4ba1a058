-------------------------- MODULE SndSystem_proofs --------------------------
(***************************************************************************)
(* The safety of the sound system, for every set of tasks and every number *)
(* of blocks: the task thread never reads a closed file, the list of a     *)
(* stream's loads is exact, and a freed stream is out of every other       *)
(* thread's hands.                                                         *)
(*                                                                         *)
(* A task is busy when it is queued or executed.  SndInv says who may be   *)
(* busy in which phase of a sound's life; its parts are about the task     *)
(* thread, the lists, the clients, the life of the stream, its loads and   *)
(* the sequence sounds.                                                    *)
(***************************************************************************)
EXTENDS SndSystem, DataFacts, FiniteSetTheorems

-----------------------------------------------------------------------------
(* The lists of the task manager. *)

Linked(l, t) == \E p \in TaskPriority : t \in Range(l[p])

\* Every task is linked at most once, in one of the lists.
Lists(l) ==
    /\ l \in [TaskPriority -> Seq(Task)]
    /\ \A p \in TaskPriority : IsInjective(l[p])
    /\ \A p, q \in TaskPriority : p # q => Range(l[p]) \cap Range(l[q]) = {}

\* A task that is in no list is linked by AppendTask, and no other.
LEMMA LinkLast ==
  ASSUME NEW l, Lists(l), NEW t \in Task, ~Linked(l, t), NEW p \in TaskPriority,
         NEW m, m = [l EXCEPT ![p] = Append(@, t)]
  PROVE  /\ Lists(m)
         /\ \A u : Linked(m, u) <=> Linked(l, u) \/ u = t
<1>1. /\ l \in [TaskPriority -> Seq(Task)] /\ l[p] \in Seq(Task)
      /\ IsInjective(l[p]) /\ t \notin Range(l[p])
  BY DEF Lists, Linked
<1>2. /\ Append(l[p], t) \in Seq(Task) /\ IsInjective(Append(l[p], t))
      /\ Range(Append(l[p], t)) = Range(l[p]) \cup {t}
  BY <1>1, AppendNewProperties
<1>3. /\ m \in [TaskPriority -> Seq(Task)]
      /\ m[p] = Append(l[p], t) /\ \A q \in TaskPriority : q # p => m[q] = l[q]
  BY <1>1, <1>2
<1>4. ASSUME NEW q \in TaskPriority, NEW x
      PROVE  x \in Range(m[q]) <=> x \in Range(l[q]) \/ (q = p /\ x = t)
  <2>1. CASE q = p
    BY <2>1, <1>2, <1>3
  <2>2. CASE q # p
    BY <2>2, <1>3
  <2> QED
    BY <2>1, <2>2
<1>5. \A q \in TaskPriority : t \notin Range(l[q])
  BY DEF Linked
<1>6. Lists(m)
  <2>1. \A q \in TaskPriority : IsInjective(m[q])
    BY <1>2, <1>3 DEF Lists
  <2>2. ASSUME NEW q \in TaskPriority, NEW r \in TaskPriority, q # r,
               NEW x \in Range(m[q]), x \in Range(m[r])
        PROVE  FALSE
    <3>1. Range(l[q]) \cap Range(l[r]) = {}
      BY <2>2 DEF Lists
    <3> QED
      BY <1>4, <1>5, <2>2, <3>1
  <2> QED
    BY <1>3, <2>1, <2>2 DEF Lists
<1>7. \A u : Linked(m, u) <=> Linked(l, u) \/ u = t
  BY <1>4 DEF Linked
<1> QED
  BY <1>6, <1>7

\* The loop of CancelTask unlinks its task, and no other.
LEMMA Unlink ==
  ASSUME NEW l, Lists(l), NEW t,
         NEW m, m = [p \in TaskPriority |-> RemoveFirst(l[p], t)]
  PROVE  /\ Lists(m)
         /\ \A u : Linked(m, u) <=> Linked(l, u) /\ u # t
<1>1. ASSUME NEW p \in TaskPriority
      PROVE  /\ m[p] \in Seq(Task) /\ IsInjective(m[p])
             /\ Range(m[p]) = Range(l[p]) \ {t}
  <2>1. l[p] \in Seq(Task) /\ IsInjective(l[p])
    BY DEF Lists
  <2>2. m[p] = RemoveFirst(l[p], t)
    OBVIOUS
  <2> QED
    BY <2>1, <2>2, RemoveFirstProperties
<1>2. m \in [TaskPriority -> Seq(Task)]
  BY <1>1
<1>3. Lists(m)
  BY <1>1, <1>2 DEF Lists
<1>4. \A u : Linked(m, u) <=> Linked(l, u) /\ u # t
  BY <1>1 DEF Linked
<1> QED
  BY <1>3, <1>4

\* PopTask unlinks the next task, and no other.
LEMMA Pop ==
  ASSUME NEW l, Lists(l), GetNextTask(l) # NULL,
         NEW m, m = [l EXCEPT ![MostUrgent(l)] = Tail(@)]
  PROVE  /\ Lists(m) /\ GetNextTask(l) \in Task /\ Linked(l, GetNextTask(l))
         /\ \A u : Linked(m, u) <=> Linked(l, u) /\ u # GetNextTask(l)
<1> DEFINE p == MostUrgent(l)
           t == GetNextTask(l)
<1>1. p \in TaskPriority
  BY DEF MostUrgent, TaskPriority
<1>2. l[p] # <<>> /\ t = Head(l[p])
  BY DEF GetNextTask
<1> HIDE DEF p, t
<1>3. /\ l \in [TaskPriority -> Seq(Task)] /\ l[p] \in Seq(Task)
      /\ IsInjective(l[p])
  BY <1>1 DEF Lists
<1>4. /\ Tail(l[p]) \in Seq(Task) /\ t \in Range(l[p])
      /\ IsInjective(Tail(l[p])) /\ Range(Tail(l[p])) = Range(l[p]) \ {t}
  BY <1>2, <1>3, TailProperties
<1>5. t \in Task
  BY <1>2, <1>3, HeadTailProperties
<1>6. /\ m \in [TaskPriority -> Seq(Task)]
      /\ m[p] = Tail(l[p]) /\ \A q \in TaskPriority : q # p => m[q] = l[q]
  BY <1>1, <1>3, <1>4 DEF p
<1>7. \A q \in TaskPriority : Range(m[q]) = Range(l[q]) \ {t}
  BY <1>1, <1>4, <1>6 DEF Lists
<1>8. Lists(m)
  <2>1. \A q \in TaskPriority : IsInjective(m[q])
    BY <1>4, <1>6 DEF Lists
  <2>2. \A q, r \in TaskPriority : q # r => Range(m[q]) \cap Range(m[r]) = {}
    BY <1>7 DEF Lists
  <2> QED
    BY <1>6, <2>1, <2>2 DEF Lists
<1>9. \A u : Linked(m, u) <=> Linked(l, u) /\ u # t
  BY <1>7 DEF Linked
<1> QED
  BY <1>1, <1>4, <1>5, <1>8, <1>9 DEF Linked, t

\* CancelAllTask leaves the lists empty.
LEMMA Empty ==
  ASSUME NEW m, m = [p \in TaskPriority |-> <<>>]
  PROVE  Lists(m) /\ \A u : ~Linked(m, u)
<1>1. \A p \in TaskPriority : m[p] = <<>> /\ Range(m[p]) = {}
  BY DEF Range
<1>2. IsInjective(<<>>)
  BY DEF IsInjective
<1>3. m \in [TaskPriority -> Seq(Task)]
  BY EmptySeq
<1> QED
  BY <1>1, <1>2, <1>3 DEF Lists, Linked

\* While the player's list is shorter than the pool, a task of it is free.
LEMMA PoolHasFree ==
  ASSUME NEW s \in Seq(DataTask), Len(s) < Blocks
  PROVE  \E d \in DataTask : d \notin Range(s)
<1> SUFFICES ASSUME DataTask \subseteq Range(s) PROVE FALSE
  OBVIOUS
<1>1. Len(s) \in Nat /\ s \in [1 .. Len(s) -> DataTask]
  OBVIOUS
<1>2. s \in Surjection(1 .. Len(s), DataTask)
  <2>1. \A d \in DataTask : \E i \in 1 .. Len(s) : s[i] = d
    BY <1>1 DEF Range
  <2> QED
    BY <1>1, <2>1 DEF Surjection
<1>3. Cardinality(DataTask) <= Len(s)
  BY <1>1, <1>2, FS_SurjCardinalityBound DEF ExistsSurjection
<1>4. Cardinality(DataTask) \in Nat
  BY StrmAssumption, FS_CardinalityType
<1> QED
  BY <1>1, <1>3, <1>4, StrmAssumption
-----------------------------------------------------------------------------
(* The invariant. *)

Busy(t) == Queued(t) \/ Executes(t)

Idling == {"test", "wait", "asleep", "woken", "check", "pop", "exited"}

\* The task thread holds a task from PopTask to WakeWaiters, which is the
\* current one between BeginTask and EndTask.
WorkerInv ==
    /\ worker \in [at : WorkerPlaces, task : Task \cup {NULL}]
    /\ worker.task = NULL <=> worker.at \in Idling
    /\ tm.current = IF worker.at \in {"execute", "reading", "blocks", "executed"}
                    THEN worker.task ELSE NULL
    /\ At("blocks") => worker.task = Header

\* A task that is executed is in no list.
ListInv ==
    /\ tm \in [list : [TaskPriority -> Seq(Task)], current : Task \cup {NULL},
               cancelWait : BOOLEAN, finish : BOOLEAN]
    /\ Lists(tm.list)
    /\ \A t \in Task : Executes(t) => ~Queued(t)

Stops  == {"cancelHeader", "headerEnds", "cancelData", "dataEnds"}
Ending == {"cancelAll", "awaitAll", "destroy", "joinTask", "down"}
Waits  == {"headerEnds", "dataEnds", "seqEnds", "awaitAll"}

StrmStops == pc["main"] \in Stops \/ pc["sound"] \in Stops

\* One client at a time stops the stream, and the sound thread has ended when
\* the system goes down.
ClientInv ==
    /\ pc \in [Client -> MainPlaces \cup SoundPlaces]
    /\ pc["main"] \in MainPlaces /\ pc["sound"] \in SoundPlaces
    /\ waiting \subseteq Client /\ \A c \in waiting : pc[c] \in Waits
    /\ target \in [Client -> Task \cup {NULL}]
    /\ pc["main"] \in Stops => pc["sound"] = "idle"
    /\ pc["main"] \in Ending => pc["sound"] = "exited"
    /\ pc["sound"] = "exited" => pc["main"] \in Ending \cup {"joinSound"}
    /\ pc["main"] = "down" => At("exited")

StrmType ==
    strm \in [alive : BOOLEAN, active : BOOLEAN, prepared : BOOLEAN,
              started : BOOLEAN, error : BOOLEAN, cancel : BOOLEAN,
              open : BOOLEAN, channels : BOOLEAN, voice : BOOLEAN,
              registered : BOOLEAN, loadFinish : BOOLEAN, abortable : BOOLEAN,
              list : Seq(DataTask), counter : 0 .. Blocks]

\* A stream is registered while it is active and not stopped, and gives its
\* channels back before it is freed.
LifeInv ==
    /\ strm.registered => strm.active
    /\ strm.active => strm.alive
    /\ strm.open = strm.active
    /\ strm.started => strm.prepared
    /\ strm.prepared => strm.active
    /\ StrmStops => ~strm.registered
    /\ pc["sound"] \in Stops => strm.active
    /\ pc["main"] = "free" => ~strm.active
    /\ pc["sound"] = "exited" => ~strm.active
    /\ strm.active /\ ~strm.registered => StrmStops
    /\ ~strm.alive => ~strm.channels /\ ~strm.voice

\* The data tasks in the player's list are the busy ones, no more than the
\* counter while blocks are awaited, and the header task is done before any.
LoadInv ==
    /\ IsInjective(strm.list)
    /\ \A t \in DataTask : t \in Range(strm.list) <=> Busy(t)
    /\ ~strm.prepared => Len(strm.list) <= strm.counter
    /\ ~strm.active => strm.list = <<>> /\ ~Busy(Header)
    /\ Busy(Header) => ~strm.prepared
    /\ Busy(Header) /\ ~At("blocks") => strm.list = <<>>

\* Whoever is past the cancel of the header task left it neither queued nor
\* executed.
HeaderInv ==
    \A c \in Client :
        /\ pc[c] = "headerEnds" => ~Queued(Header)
        /\ pc[c] \in {"cancelData", "dataEnds"} => ~Busy(Header)

\* A sequence sound whose load is busy is not free.
SeqInv ==
    /\ seq \in [SeqTask -> [state : {"free", "loading", "prepared"},
                            callback : BOOLEAN]]
    /\ \A t \in SeqTask : Busy(t) => seq[t].state # "free"
    /\ pc["main"] = "seqEnds"
         => target["main"] \in SeqTask /\ ~Queued(target["main"])

SndInv ==
    /\ WorkerInv /\ ListInv /\ ClientInv
    /\ StrmType /\ LifeInv /\ LoadInv /\ HeaderInv /\ SeqInv

-----------------------------------------------------------------------------
(* What the parts depend on. *)

\* The three sorts of tasks, and the two clients.
LEMMA Sorts ==
  /\ Header \in Task /\ DataTask \subseteq Task /\ SeqTask \subseteq Task
  /\ NULL \notin Task /\ Header \notin DataTask /\ Header \notin SeqTask
  /\ DataTask \cap SeqTask = {}
  /\ \A t \in Task : t = Header \/ t \in DataTask \/ t \in SeqTask
  /\ Client = {"main", "sound"}
  /\ Blocks \in Nat \ {0}
BY StrmAssumption, SeqAssumption

\* Waking the task thread changes neither what it executes nor where it is, if
\* it was not asleep.
LEMMA WorkerWoken ==
  ASSUME WorkerInv, worker' = worker \/ worker' = Woken(worker),
         tm'.current = tm.current
  PROVE  /\ WorkerInv'
         /\ \A t : Executes(t)' <=> Executes(t)
         /\ At("blocks")' <=> At("blocks")
         /\ At("exited")' <=> At("exited")
<1>1. CASE worker' = worker
  BY <1>1 DEF WorkerInv, Executes, At
<1>2. CASE worker.at = "asleep" /\ worker' = [worker EXCEPT !.at = "woken"]
  <2>1. worker'.at = "woken" /\ worker'.task = worker.task
        /\ worker' \in [at : WorkerPlaces, task : Task \cup {NULL}]
    BY <1>2 DEF WorkerInv, WorkerPlaces
  <2> QED
    BY <1>2, <2>1 DEF WorkerInv, Executes, At, Idling
<1> QED
  BY <1>1, <1>2 DEF Woken

\* While a client runs, the task thread sleeps, reads or has ended: the task it
\* executes is the current one.
LEMMA WorkerIdle ==
  ASSUME WorkerInv, ~Ready
  PROVE  /\ worker.at \in {"asleep", "reading", "exited"}
         /\ ~At("blocks")
         /\ \A t \in Task : Executes(t) <=> tm.current = t
BY Sorts DEF WorkerInv, Ready, At, Executes, Idling

\* A step that leaves the busy tasks as they are keeps the list of the loads.
LEMMA LoadSame ==
  ASSUME LoadInv, UNCHANGED strm,
         \A t \in Task : Busy(t)' <=> Busy(t),
         At("blocks")' <=> At("blocks")
  PROVE  LoadInv'
<1>1. Busy(Header)' <=> Busy(Header)
  BY Sorts
<1>2. \A t \in DataTask : Busy(t)' <=> Busy(t)
  BY Sorts
<1> HIDE DEF Busy, At
<1> QED
  BY <1>1, <1>2 DEF LoadInv

\* A step that queues no header task keeps what the clients in Stop rely on.
LEMMA HeaderSame ==
  ASSUME HeaderInv,
         Queued(Header)' => Queued(Header), Busy(Header)' => Busy(Header),
         \A c \in Client :
           /\ pc'[c] = "headerEnds" => pc[c] = "headerEnds" \/ ~Queued(Header)
           /\ pc'[c] \in {"cancelData", "dataEnds"}
                => \/ pc[c] \in {"cancelData", "dataEnds"}
                   \/ ~Busy(Header)
  PROVE  HeaderInv'
<1> HIDE DEF Busy, Queued
<1> QED
  BY DEF HeaderInv

\* A step that makes no sequence's task busy keeps the sounds that load.
LEMMA SeqSame ==
  ASSUME SeqInv, UNCHANGED <<seq, target>>,
         pc'["main"] = "seqEnds" => pc["main"] = "seqEnds",
         \A t \in SeqTask : (Busy(t)' => Busy(t)) /\ (Queued(t)' => Queued(t))
  PROVE  SeqInv'
<1> HIDE DEF Busy, Queued
<1> QED
  BY DEF SeqInv

-----------------------------------------------------------------------------
(* The task thread: what its steps do to the tasks. *)

\* A step that only moves the task thread and the lists, and leaves the busy
\* tasks as they are.
LEMMA WorksKeeps ==
  ASSUME SndInv, UNCHANGED <<strm, pc, target, seq>>, WorkerInv', ListInv',
         waiting' \subseteq waiting,
         \A t \in Task : (Busy(t)' <=> Busy(t)) /\ (Queued(t)' => Queued(t)),
         At("blocks")' <=> At("blocks"), At("exited") => At("exited")'
  PROVE  SndInv'
<1>1. ClientInv'
  <2> HIDE DEF At, Busy, Queued
  <2> QED
    BY DEF SndInv, ClientInv
<1>2. StrmType' /\ LifeInv'
  <2> HIDE DEF At, Busy, Queued
  <2> QED
    BY DEF SndInv, StrmType, LifeInv, StrmStops
<1>3. LoadInv'
  <2> HIDE DEF At, Busy, Queued
  <2> QED
    BY LoadSame DEF SndInv
<1>4. /\ Queued(Header)' => Queued(Header) /\ (Busy(Header)' <=> Busy(Header))
      /\ \A t \in SeqTask : (Busy(t)' <=> Busy(t)) /\ (Queued(t)' => Queued(t))
  BY Sorts
<1>5. HeaderInv' /\ SeqInv'
  <2> HIDE DEF At, Busy, Queued
  <2> QED
    BY <1>4, HeaderSame, SeqSame, Sorts DEF SndInv
<1> QED
  BY <1>1, <1>2, <1>3, <1>5 DEF SndInv

\* The worker's steps that leave the lists and the task alone.
LEMMA PlaceKeeps ==
  ASSUME SndInv, tm'.list = tm.list, WorkerInv',
         tm' \in [list : [TaskPriority -> Seq(Task)],
                  current : Task \cup {NULL},
                  cancelWait : BOOLEAN, finish : BOOLEAN],
         \A t \in Task : Executes(t)' <=> Executes(t)
  PROVE  /\ ListInv'
         /\ \A t \in Task : Queued(t)' <=> Queued(t)
         /\ \A t \in Task : Busy(t)' <=> Busy(t)
<1>1. \A t : Queued(t)' <=> Queued(t)
  BY DEF Queued
<1> HIDE DEF Queued, Executes
<1>2. ListInv'
  BY <1>1 DEF SndInv, ListInv, Lists
<1> QED
  BY <1>1, <1>2 DEF Busy

\* TestFinish, WaitTask and CheckFinish leave the tasks alone.
LEMMA WaitsStep ==
  ASSUME SndInv, TestFinish \/ WaitTask \/ CheckFinish,
         UNCHANGED <<strm, pc, target, seq>>
  PROVE  SndInv'
<1>1. /\ worker.at \in Idling /\ worker.at # "exited" /\ worker'.at \in Idling
      /\ worker' \in [at : WorkerPlaces, task : Task \cup {NULL}]
      /\ worker'.task = NULL /\ worker.task = NULL
  BY DEF SndInv, WorkerInv, TestFinish, WaitTask, CheckFinish, At, WorkerGoes,
         WorkerPlaces, Idling
<1>2. /\ tm'.list = tm.list /\ tm'.current = NULL
      /\ tm' \in [list : [TaskPriority -> Seq(Task)],
                  current : Task \cup {NULL},
                  cancelWait : BOOLEAN, finish : BOOLEAN]
  BY <1>1 DEF SndInv, WorkerInv, ListInv, TestFinish, WaitTask, CheckFinish, Idling
<1>3. WorkerInv'
  BY <1>1, <1>2 DEF WorkerInv, At, Idling
<1>4. \A t \in Task : ~Executes(t)' /\ ~Executes(t)
  BY <1>1 DEF Executes, Idling
<1>5. waiting' = waiting /\ ~At("blocks")' /\ ~At("blocks") /\ ~At("exited")
  BY <1>1 DEF TestFinish, WaitTask, CheckFinish, At, Idling
<1>6. /\ ListInv'
      /\ \A t \in Task : Queued(t)' <=> Queued(t)
      /\ \A t \in Task : Busy(t)' <=> Busy(t)
  <2> HIDE DEF Executes, Queued, Busy
  <2> QED
    BY <1>2, <1>3, <1>4, PlaceKeeps
<1> HIDE DEF Executes, Queued, Busy, At
<1> QED
  BY <1>3, <1>5, <1>6, WorksKeeps

\* PopTask takes the next task off its list: it stays busy.
LEMMA PopStep ==
  ASSUME SndInv, PopTask, UNCHANGED <<strm, pc, target, seq>>
  PROVE  SndInv'
<1> DEFINE n == GetNextTask(tm.list)
<1>1. /\ worker.at = "pop" /\ worker.task = NULL /\ tm.current = NULL
      /\ tm.list \in [TaskPriority -> Seq(Task)] /\ Lists(tm.list)
      /\ waiting' = waiting /\ NULL \notin Task
  BY Sorts DEF SndInv, WorkerInv, ListInv, PopTask, At, Idling
<1>2. ~At("blocks") /\ ~At("exited") /\ \A t \in Task : ~Executes(t)
  BY <1>1 DEF At, Executes
<1>3. CASE n = NULL
  <2>1. worker' = [at |-> "test", task |-> NULL] /\ tm' = tm
    BY <1>3 DEF PopTask
  <2>2. WorkerInv'
    BY <1>1, <2>1 DEF WorkerInv, At, Idling, WorkerPlaces
  <2>3. \A t \in Task : ~Executes(t)'
    BY <2>1 DEF Executes
  <2>4. /\ ListInv'
        /\ \A t \in Task : Queued(t)' <=> Queued(t)
        /\ \A t \in Task : Busy(t)' <=> Busy(t)
    <3>1. tm' \in [list : [TaskPriority -> Seq(Task)],
                  current : Task \cup {NULL},
                  cancelWait : BOOLEAN, finish : BOOLEAN]
      BY <2>1 DEF SndInv, ListInv
    <3> HIDE DEF Executes, Queued, Busy
    <3> QED
      BY <1>2, <2>1, <2>2, <2>3, <3>1, PlaceKeeps
  <2>5. ~At("blocks")'
    BY <2>1 DEF At
  <2> HIDE DEF Executes, Queued, Busy, At
  <2> QED
    BY <1>1, <1>2, <2>2, <2>4, <2>5, WorksKeeps
<1>4. CASE n # NULL
  <2> DEFINE m == [tm.list EXCEPT ![MostUrgent(tm.list)] = Tail(@)]
  <2>1. worker' = [at |-> "popped", task |-> n]
    BY <1>4 DEF PopTask
  <2>2. tm' = [tm EXCEPT !.list[MostUrgent(tm.list)] = Tail(@)]
    BY <1>4 DEF PopTask
  <2> HIDE DEF n
  <2>3. /\ Lists(m) /\ n \in Task /\ Linked(tm.list, n)
        /\ \A u : Linked(m, u) <=> Linked(tm.list, u) /\ u # n
    BY <1>1, <1>4, Pop DEF n
  <2>4. tm' = [tm EXCEPT !.list = m]
    BY <2>2 DEF SndInv, ListInv
  <2> HIDE DEF m
  <2>5. /\ tm'.list = m /\ tm'.current = NULL
        /\ tm' \in [list : [TaskPriority -> Seq(Task)],
                  current : Task \cup {NULL},
                  cancelWait : BOOLEAN, finish : BOOLEAN]
    BY <1>1, <2>3, <2>4 DEF SndInv, ListInv, Lists
  <2>6. WorkerInv'
    BY <1>1, <2>1, <2>3, <2>5 DEF WorkerInv, At, Idling, WorkerPlaces
  <2>7. \A t : (Executes(t)' <=> t = n) /\ (Queued(t)' <=> Queued(t) /\ t # n)
    BY <2>1, <2>3, <2>5 DEF Executes, Queued, Linked
  <2>8. Queued(n)
    BY <2>3 DEF Queued, Linked
  <2>9. ~At("blocks")'
    BY <2>1 DEF At
  <2> HIDE DEF Executes, Queued, At
  <2>10. ListInv'
    BY <2>3, <2>5, <2>7 DEF ListInv
  <2>11. \A t \in Task : Busy(t)' <=> Busy(t)
    BY <1>2, <2>7, <2>8 DEF Busy
  <2> HIDE DEF Busy
  <2> QED
    BY <1>1, <1>2, <2>6, <2>7, <2>9, <2>10, <2>11, WorksKeeps
<1> QED
  BY <1>3, <1>4

\* BeginTask makes the task the current one, EndTask and WakeWaiters let go of
\* a task that is no longer executed.
LEMMA ExecutesStep ==
  ASSUME SndInv, BeginTask \/ EndTask \/ WakeWaiters,
         UNCHANGED <<strm, pc, target, seq>>
  PROVE  SndInv'
<1>1. /\ worker.task \in Task /\ worker.at \in {"popped", "executed", "done"}
      /\ worker \in [at : WorkerPlaces, task : Task \cup {NULL}]
      /\ NULL \notin Task
  BY Sorts DEF SndInv, WorkerInv, BeginTask, EndTask, WakeWaiters, At, Idling
<1>2. tm \in [list : [TaskPriority -> Seq(Task)], current : Task \cup {NULL},
               cancelWait : BOOLEAN, finish : BOOLEAN]
  BY DEF SndInv, ListInv
<1>3. \/ /\ worker.at = "popped" /\ worker' = [worker EXCEPT !.at = "execute"]
         /\ tm' = [tm EXCEPT !.current = worker.task]
      \/ /\ worker.at = "executed" /\ worker' = [worker EXCEPT !.at = "done"]
         /\ tm' = [tm EXCEPT !.current = NULL]
      \/ /\ worker.at = "done" /\ worker' = [at |-> "test", task |-> NULL]
         /\ tm' = tm /\ tm.current = NULL
  BY DEF SndInv, WorkerInv, BeginTask, EndTask, WakeWaiters, At, WorkerGoes
<1>4. /\ tm'.list = tm.list
      /\ tm' \in [list : [TaskPriority -> Seq(Task)],
                  current : Task \cup {NULL},
                  cancelWait : BOOLEAN, finish : BOOLEAN]
  BY <1>1, <1>2, <1>3
<1>5. WorkerInv'
  BY <1>1, <1>2, <1>3 DEF WorkerInv, At, Idling, WorkerPlaces
<1>6. \A t \in Task : Executes(t)' <=> Executes(t)
  BY <1>1, <1>3 DEF Executes
<1>7. /\ waiting' \subseteq waiting
      /\ ~At("blocks")' /\ ~At("blocks") /\ ~At("exited")
  BY <1>1, <1>3 DEF BeginTask, EndTask, WakeWaiters, At
<1>8. /\ ListInv'
      /\ \A t \in Task : Queued(t)' <=> Queued(t)
      /\ \A t \in Task : Busy(t)' <=> Busy(t)
  <2> HIDE DEF Executes, Queued, Busy
  <2> QED
    BY <1>4, <1>5, <1>6, PlaceKeeps
<1> HIDE DEF Executes, Queued, Busy, At
<1> QED
  BY <1>5, <1>7, <1>8, WorksKeeps

\* The steps of the task thread between two tasks.
LEMMA WorksStep ==
  ASSUME SndInv, Works PROVE SndInv'
BY WaitsStep, PopStep, ExecutesStep DEF Works, WorkerStep

-----------------------------------------------------------------------------
(* Tasks are queued and taken back. *)

\* A task that is not busy is appended to a list, and is busy then.
LEMMA TaskAppended ==
  ASSUME SndInv, NEW t \in Task, ~Busy(t), NEW p \in TaskPriority,
         tm' = [tm EXCEPT !.list[p] = Append(@, t)],
         worker' = worker \/ worker' = Woken(worker)
  PROVE  /\ WorkerInv' /\ ListInv'
         /\ At("blocks")' <=> At("blocks")
         /\ At("exited")' <=> At("exited")
         /\ \A u : /\ Queued(u)' <=> Queued(u) \/ u = t
                   /\ Busy(u)' <=> Busy(u) \/ u = t
<1> DEFINE m == [tm.list EXCEPT ![p] = Append(@, t)]
<1>1. tm' = [tm EXCEPT !.list = m]
  BY DEF SndInv, ListInv
<1>2. ~Linked(tm.list, t) /\ ~Executes(t)
  BY DEF Busy, Queued, Linked
<1>3. Lists(m) /\ \A u : Linked(m, u) <=> Linked(tm.list, u) \/ u = t
  <2>1. m = [tm.list EXCEPT ![p] = Append(@, t)]
    OBVIOUS
  <2> HIDE DEF m
  <2>2. Lists(tm.list)
    BY DEF SndInv, ListInv
  <2>3. ~Linked(tm.list, t)
    BY <1>2
  <2> QED
    BY <2>1, <2>2, <2>3, LinkLast, SMTT(60)
<1> HIDE DEF m
<1>4. /\ tm'.list = m /\ tm'.current = tm.current
      /\ tm' \in [list : [TaskPriority -> Seq(Task)],
                  current : Task \cup {NULL},
                  cancelWait : BOOLEAN, finish : BOOLEAN]
  BY <1>1, <1>3 DEF SndInv, ListInv, Lists
<1>5. /\ WorkerInv' /\ \A u : Executes(u)' <=> Executes(u)
      /\ At("blocks")' <=> At("blocks")
      /\ At("exited")' <=> At("exited")
  BY <1>4, WorkerWoken DEF SndInv
<1>6. \A u : Queued(u)' <=> Queued(u) \/ u = t
  BY <1>3, <1>4 DEF Queued, Linked
<1> HIDE DEF Queued, Executes
<1>7. ListInv'
  BY <1>2, <1>3, <1>4, <1>5, <1>6 DEF SndInv, ListInv
<1> QED
  BY <1>5, <1>6, <1>7 DEF Busy

\* A task is taken out of the lists.
LEMMA TaskDequeued ==
  ASSUME SndInv, NEW t \in Task, tm' = Dequeue(tm, t), UNCHANGED worker
  PROVE  /\ WorkerInv' /\ ListInv'
         /\ \A u : /\ Queued(u)' <=> Queued(u) /\ u # t
                   /\ Executes(u)' <=> Executes(u)
<1> DEFINE m == [p \in TaskPriority |-> RemoveFirst(tm.list[p], t)]
<1>1. tm' = [tm EXCEPT !.list = m]
  BY DEF SndInv, ListInv, Dequeue
<1>2. Lists(m) /\ \A u : Linked(m, u) <=> Linked(tm.list, u) /\ u # t
  <2>1. m = [p \in TaskPriority |-> RemoveFirst(tm.list[p], t)]
    OBVIOUS
  <2> HIDE DEF m
  <2>2. Lists(tm.list)
    BY DEF SndInv, ListInv
  <2> QED
    BY <2>1, <2>2, Unlink
<1> HIDE DEF m
<1>3. /\ tm'.list = m /\ tm'.current = tm.current
      /\ tm' \in [list : [TaskPriority -> Seq(Task)],
                  current : Task \cup {NULL},
                  cancelWait : BOOLEAN, finish : BOOLEAN]
  BY <1>1, <1>2 DEF SndInv, ListInv, Lists
<1>4. WorkerInv' /\ \A u : Executes(u)' <=> Executes(u)
  BY <1>3, WorkerWoken DEF SndInv
<1>5. \A u : Queued(u)' <=> Queued(u) /\ u # t
  BY <1>2, <1>3 DEF Queued, Linked
<1> HIDE DEF Queued, Executes
<1>6. ListInv'
  BY <1>2, <1>3, <1>4, <1>5 DEF SndInv, ListInv
<1> QED
  BY <1>4, <1>5, <1>6

-----------------------------------------------------------------------------
(* The task thread: the loads. *)

\* A step of a load that leaves the clients and the sequences alone.
LEMMA LoadKeeps ==
  ASSUME SndInv, UNCHANGED <<pc, target, seq, waiting>>,
         WorkerInv', ListInv', StrmType', LifeInv', LoadInv',
         \A t \in SeqTask \cup {Header} :
            (Busy(t)' => Busy(t)) /\ (Queued(t)' => Queued(t)),
         At("exited") => At("exited")'
  PROVE  SndInv'
<1>1. ClientInv'
  <2> HIDE DEF At, Busy, Queued
  <2> QED
    BY DEF SndInv, ClientInv
<1>2. /\ (Queued(Header)' => Queued(Header)) /\ (Busy(Header)' => Busy(Header))
      /\ \A t \in SeqTask : (Busy(t)' => Busy(t)) /\ (Queued(t)' => Queued(t))
  OBVIOUS
<1>3. HeaderInv' /\ SeqInv'
  <2> HIDE DEF At, Busy, Queued
  <2> QED
    BY <1>2, HeaderSame, SeqSame, Sorts DEF SndInv
<1> QED
  BY <1>1, <1>3 DEF SndInv

\* A read begins: the task thread only goes on.
LEMMA BeginStep ==
  ASSUME SndInv, BeginRead \/ SeqBegin, UNCHANGED seq
  PROVE  SndInv'
<1>1. /\ worker.at = "execute" /\ worker' = [worker EXCEPT !.at = "reading"]
      /\ worker \in [at : WorkerPlaces, task : Task \cup {NULL}]
      /\ UNCHANGED <<tm, waiting, strm, pc, target, seq>>
  BY DEF BeginRead, SeqBegin, At, WorkerGoes, SndInv, WorkerInv
<1>2. worker'.at = "reading" /\ worker'.task = worker.task
      /\ worker' \in [at : WorkerPlaces, task : Task \cup {NULL}]
  BY <1>1 DEF WorkerPlaces
<1>3. WorkerInv'
  BY <1>1, <1>2 DEF SndInv, WorkerInv, At, Idling
<1>4. \A t \in Task : Executes(t)' <=> Executes(t)
  BY <1>1, <1>2 DEF Executes
<1>5. ~At("blocks")' /\ ~At("blocks") /\ ~At("exited")
  BY <1>1, <1>2 DEF At
<1>6. /\ ListInv'
      /\ \A t \in Task : Queued(t)' <=> Queued(t)
      /\ \A t \in Task : Busy(t)' <=> Busy(t)
  <2>1. tm' \in [list : [TaskPriority -> Seq(Task)],
                  current : Task \cup {NULL},
                  cancelWait : BOOLEAN, finish : BOOLEAN]
    BY <1>1 DEF SndInv, ListInv
  <2> HIDE DEF Executes, Queued, Busy
  <2> QED
    BY <1>1, <1>3, <1>4, <2>1, PlaceKeeps
<1> HIDE DEF Executes, Queued, Busy, At
<1> QED
  BY <1>1, <1>3, <1>5, <1>6, WorksKeeps

\* A task ends: it is executed no longer.
LEMMA ReadEnds ==
  ASSUME SndInv, worker.at \in {"reading", "blocks"},
         worker' = [worker EXCEPT !.at = "executed"], UNCHANGED tm
  PROVE  /\ WorkerInv' /\ ListInv'
         /\ worker.task \in Task /\ tm.current = worker.task
         /\ \A t \in Task : /\ Queued(t)' <=> Queued(t)
                            /\ Executes(t) <=> t = worker.task
                            /\ Busy(t)' <=> Busy(t) /\ t # worker.task
         /\ ~At("blocks")' /\ ~At("exited")
<1>1. /\ worker'.at = "executed" /\ worker'.task = worker.task
      /\ worker' \in [at : WorkerPlaces, task : Task \cup {NULL}]
      /\ worker.task \in Task /\ NULL \notin Task
  BY Sorts DEF SndInv, WorkerInv, Idling, WorkerPlaces
<1>2. WorkerInv'
  BY <1>1 DEF SndInv, WorkerInv, At, Idling
<1>3. \A t : ~Executes(t)' /\ (Executes(t) <=> t = worker.task)
  BY <1>1 DEF Executes
<1>4. \A t : Queued(t)' <=> Queued(t)
  BY DEF Queued
<1>5. ~At("blocks")' /\ ~At("exited")
  BY <1>1 DEF At
<1>6. tm.current = worker.task
  BY DEF SndInv, WorkerInv
<1> HIDE DEF Executes, Queued, At
<1>7. ListInv'
  BY <1>3 DEF SndInv, ListInv
<1>8. \A t \in Task : Busy(t)' <=> Busy(t) /\ t # worker.task
  BY <1>3, <1>4, <1>7 DEF SndInv, ListInv, Busy
<1> HIDE DEF Busy
<1> QED
  BY <1>1, <1>2, <1>3, <1>4, <1>5, <1>6, <1>7, <1>8

\* The load of a header fails.
LEMMA HeaderFailsStep ==
  ASSUME SndInv, HeaderFails, UNCHANGED seq
  PROVE  SndInv'
<1>1. /\ worker.at = "reading" /\ worker.task = Header
      /\ worker' = [worker EXCEPT !.at = "executed"]
      /\ strm' = [strm EXCEPT !.error = TRUE]
      /\ UNCHANGED <<tm, waiting, pc, target, seq>>
  BY DEF HeaderFails, At, WorkerGoes
<1>2. /\ WorkerInv' /\ ListInv'
      /\ \A t \in Task : /\ Queued(t)' <=> Queued(t)
                         /\ Busy(t)' <=> Busy(t) /\ t # Header
      /\ ~At("blocks")' /\ ~At("exited")
  BY <1>1, ReadEnds
<1>3. ~At("blocks")
  BY <1>1 DEF At
<1> HIDE DEF Busy, Queued, At, Executes
<1>4. StrmType' /\ LifeInv'
  BY <1>1 DEF SndInv, StrmType, LifeInv, StrmStops
<1>5. LoadInv'
  <2>1. /\ strm'.list = strm.list /\ strm'.prepared = strm.prepared
        /\ strm'.active = strm.active /\ strm'.counter = strm.counter
    BY <1>1 DEF SndInv, StrmType
  <2>2. \A t \in DataTask : Busy(t)' <=> Busy(t)
    BY <1>2, Sorts
  <2>3. ~Busy(Header)'
    BY <1>2, Sorts
  <2> QED
    BY <2>1, <2>2, <2>3 DEF SndInv, LoadInv
<1> QED
  BY <1>1, <1>2, <1>4, <1>5, LoadKeeps, Sorts

\* The header is loaded: nothing of the stream is in the player's list yet.
LEMMA HeaderLoadedStep ==
  ASSUME SndInv, HeaderLoaded, UNCHANGED seq
  PROVE  SndInv'
<1>1. /\ worker.at = "reading" /\ worker.task = Header
      /\ worker' = [worker EXCEPT !.at = "blocks"]
      /\ strm' = [strm EXCEPT !.channels = TRUE, !.voice = TRUE, !.counter = 0]
      /\ UNCHANGED <<tm, waiting, pc, target, seq>>
  BY DEF HeaderLoaded, At, WorkerGoes
<1>2. /\ worker'.at = "blocks" /\ worker'.task = Header
      /\ worker' \in [at : WorkerPlaces, task : Task \cup {NULL}]
  BY <1>1 DEF SndInv, WorkerInv, WorkerPlaces
<1>3. WorkerInv'
  BY <1>1, <1>2, Sorts DEF SndInv, WorkerInv, At, Idling
<1>4. \A t \in Task : (Executes(t)' <=> Executes(t)) /\ (Executes(t) <=> t = Header)
  BY <1>1, <1>2 DEF Executes
<1>5. At("blocks")' /\ ~At("blocks") /\ ~At("exited")
  BY <1>1, <1>2 DEF At
<1>6. /\ ListInv'
      /\ \A t \in Task : (Queued(t)' <=> Queued(t)) /\ (Busy(t)' <=> Busy(t))
  <2>1. tm' \in [list : [TaskPriority -> Seq(Task)],
                  current : Task \cup {NULL},
                  cancelWait : BOOLEAN, finish : BOOLEAN]
    BY <1>1 DEF SndInv, ListInv
  <2> HIDE DEF Executes, Queued, Busy
  <2> QED
    BY <1>1, <1>3, <1>4, <2>1, PlaceKeeps
<1>7. Busy(Header)
  BY <1>4, Sorts DEF Busy
<1> HIDE DEF Busy, Queued, At, Executes
<1>8. strm.list = <<>> /\ ~strm.prepared /\ strm.active
  BY <1>5, <1>7 DEF SndInv, LoadInv
<1>9. StrmType'
  <2>1. 0 \in 0 .. Blocks
    BY Sorts
  <2> QED
    BY <1>1, <2>1 DEF SndInv, StrmType
<1>10. LifeInv'
  BY <1>1, <1>8 DEF SndInv, StrmType, LifeInv, StrmStops
<1>11. LoadInv'
  <2>1. /\ strm'.list = <<>> /\ strm'.prepared = strm.prepared
        /\ strm'.active = strm.active /\ strm'.counter = 0 /\ Len(<<>>) = 0
    BY <1>1, <1>8 DEF SndInv, StrmType
  <2>2. \A t \in DataTask : Busy(t)' <=> Busy(t)
    BY <1>6, Sorts
  <2>3. Busy(Header)' <=> Busy(Header)
    BY <1>6, Sorts
  <2>4. IsInjective(strm'.list)
    BY <2>1, <1>8 DEF SndInv, LoadInv
  <2> QED
    BY <1>5, <1>8, <2>1, <2>2, <2>3, <2>4 DEF SndInv, LoadInv
<1> QED
  BY <1>1, <1>3, <1>5, <1>6, <1>9, <1>11, <1>10, LoadKeeps, Sorts

\* LoadNextBlock queues a free task of the pool, which is then in both lists.
LEMMA NextBlock ==
  ASSUME SndInv, NEW last \in BOOLEAN, LoadNextBlock(last),
         Len(strm.list) < Blocks, strm.active,
         worker' = worker \/ worker' = Woken(worker),
         At("blocks") => strm.counter < Blocks,
         ~strm.prepared => At("blocks")
  PROVE  /\ WorkerInv' /\ ListInv' /\ StrmType' /\ LoadInv'
         /\ At("exited")' <=> At("exited")
         /\ \A t \in SeqTask \cup {Header} :
               (Queued(t)' <=> Queued(t)) /\ (Busy(t)' <=> Busy(t))
         /\ \E l, n : strm' = [strm EXCEPT !.list = l, !.loadFinish = last,
                                           !.counter = n]
<1> DEFINE d == CHOOSE x \in DataTask : x \notin Range(strm.list)
           p == IF strm.started THEN "high" ELSE "middle"
           n == IF At("blocks") THEN strm.counter + 1 ELSE strm.counter
<1>1. strm.list \in Seq(DataTask) /\ IsInjective(strm.list)
      /\ strm.counter \in 0 .. Blocks
  BY DEF SndInv, StrmType, LoadInv
<1>2. d \in DataTask /\ d \notin Range(strm.list)
  BY <1>1, PoolHasFree
<1>3. strm' = [strm EXCEPT !.list = Append(@, d), !.loadFinish = last,
                           !.counter = n]
  BY DEF LoadNextBlock, SndInv, StrmType
<1>4. tm' = [tm EXCEPT !.list[p] = Append(@, d)]
  BY DEF LoadNextBlock
<1>5. p \in TaskPriority
  BY DEF TaskPriority
<1>6. d \in Task /\ d # Header /\ d \notin SeqTask
  BY <1>2, Sorts
<1>7. ~Busy(d)
  BY <1>2 DEF SndInv, LoadInv
<1>8. n \in 0 .. Blocks
  BY <1>1, Sorts
<1> HIDE DEF d, p, n, Busy, Queued, Executes, At
<1>9. /\ WorkerInv' /\ ListInv'
      /\ At("blocks")' <=> At("blocks")
      /\ At("exited")' <=> At("exited")
      /\ \A u : /\ Queued(u)' <=> Queued(u) \/ u = d
                /\ Busy(u)' <=> Busy(u) \/ u = d
  BY <1>4, <1>5, <1>6, <1>7, TaskAppended
<1>10. /\ Append(strm.list, d) \in Seq(DataTask)
       /\ IsInjective(Append(strm.list, d))
       /\ Range(Append(strm.list, d)) = Range(strm.list) \cup {d}
       /\ Len(Append(strm.list, d)) = Len(strm.list) + 1 /\ Len(strm.list) \in Nat
  <2>1. Len(Append(strm.list, d)) = Len(strm.list) + 1 /\ Len(strm.list) \in Nat
    BY <1>1, <1>2
  <2> QED
    BY <1>1, <1>2, <2>1, AppendNewProperties
<1>11. /\ StrmType' /\ strm'.list = Append(strm.list, d) /\ strm'.counter = n
       /\ strm'.prepared = strm.prepared /\ strm'.active = strm.active
  BY <1>3, <1>8, <1>10 DEF SndInv, StrmType
<1>12. LoadInv'
  <2>1. \A t \in DataTask : t \in Range(strm'.list) <=> Busy(t)'
    BY <1>9, <1>10, <1>11 DEF SndInv, LoadInv
  <2>2. ~strm'.prepared => Len(strm'.list) <= strm'.counter
    BY <1>1, <1>10, <1>11, Sorts DEF SndInv, LoadInv, n
  <2>3. Busy(Header)' <=> Busy(Header)
    BY <1>6, <1>9
  <2>4. strm.prepared \in BOOLEAN
    BY DEF SndInv, StrmType
  <2> QED
    BY <1>9, <1>10, <1>11, <2>1, <2>2, <2>3, <2>4 DEF SndInv, LoadInv
<1>13. \A t \in SeqTask \cup {Header} :
         (Queued(t)' <=> Queued(t)) /\ (Busy(t)' <=> Busy(t))
  BY <1>6, <1>9
<1>14. \E l, k : strm' = [strm EXCEPT !.list = l, !.loadFinish = last, !.counter = k]
  <2>1. strm' = [strm EXCEPT !.list = Append(strm.list, d), !.loadFinish = last,
                             !.counter = n]
    BY <1>3
  <2> QED
    BY <2>1
<1> QED
  BY <1>9, <1>11, <1>12, <1>13, <1>14

\* LoadHeader's last loop: one block more, or the end.
LEMMA FirstBlocksStep ==
  ASSUME SndInv, LoadFirstBlocks, UNCHANGED seq
  PROVE  SndInv'
<1>1. /\ worker.at = "blocks" /\ worker.task = Header
      /\ UNCHANGED <<waiting, pc, target, seq>>
  BY DEF LoadFirstBlocks, At, SndInv, WorkerInv
<1>2. At("blocks") /\ Busy(Header)
  BY <1>1 DEF At, Busy, Executes
<1>3. ~strm.prepared /\ strm.active
  BY <1>2 DEF SndInv, LoadInv
<1>4. CASE LoadedAll /\ WorkerGoes("executed") /\ UNCHANGED <<tm, strm>>
  <2>1. worker' = [worker EXCEPT !.at = "executed"] /\ tm' = tm /\ strm' = strm
    BY <1>4 DEF WorkerGoes
  <2>2. /\ WorkerInv' /\ ListInv'
        /\ \A t \in Task : /\ Queued(t)' <=> Queued(t)
                           /\ Busy(t)' <=> Busy(t) /\ t # Header
        /\ ~At("blocks")' /\ ~At("exited")
    BY <1>1, <2>1, ReadEnds
  <2> HIDE DEF Busy, Queued, At, Executes
  <2>3. StrmType' /\ LifeInv'
    BY <1>1, <2>1 DEF SndInv, StrmType, LifeInv, StrmStops
  <2>4. LoadInv'
    <3>1. \A t \in DataTask : Busy(t)' <=> Busy(t)
      BY <2>2, Sorts
    <3>2. ~Busy(Header)'
      BY <2>2, Sorts
    <3> QED
      BY <2>1, <3>1, <3>2 DEF SndInv, LoadInv
  <2> QED
    BY <1>1, <2>2, <2>3, <2>4, LoadKeeps, Sorts
<1>5. ASSUME ~LoadedAll, NEW last \in BOOLEAN, LoadNextBlock(last), UNCHANGED worker
      PROVE  SndInv'
  <2>1. strm.counter < Blocks /\ Len(strm.list) < Blocks
    <3>1. Len(strm.list) <= strm.counter /\ strm.counter # Blocks
      BY <1>3, <1>5 DEF SndInv, LoadInv, LoadedAll
    <3>2. strm.counter \in 0 .. Blocks /\ Len(strm.list) \in Nat
      BY DEF SndInv, StrmType
    <3> QED
      BY <3>1, <3>2, Sorts
  <2>2. /\ WorkerInv' /\ ListInv' /\ StrmType' /\ LoadInv'
        /\ At("exited")' <=> At("exited")
        /\ \A t \in SeqTask \cup {Header} :
              (Queued(t)' <=> Queued(t)) /\ (Busy(t)' <=> Busy(t))
        /\ \E l, n : strm' = [strm EXCEPT !.list = l, !.loadFinish = last,
                                          !.counter = n]
    BY <1>2, <1>3, <1>5, <2>1, NextBlock
  <2> HIDE DEF Busy, Queued, At, Executes
  <2>3. LifeInv'
    BY <1>1, <2>2 DEF SndInv, StrmType, LifeInv, StrmStops
  <2> QED
    BY <1>1, <2>2, <2>3, LoadKeeps
<1> QED
  BY <1>4, <1>5 DEF LoadFirstBlocks

\* A block is read: the task leaves the player's list.
LEMMA DataReadStep ==
  ASSUME SndInv, NEW ok \in BOOLEAN, DataRead(ok), UNCHANGED seq
  PROVE  SndInv'
<1> DEFINE t == worker.task
           last == ok /\ ~strm.prepared /\ strm.counter = 1
           n == IF ok /\ ~strm.prepared THEN strm.counter - 1 ELSE strm.counter
<1>1. /\ worker.at = "reading" /\ t \in DataTask
      /\ worker' = [worker EXCEPT !.at = "executed"]
      /\ UNCHANGED <<tm, waiting, pc, target, seq>>
  BY DEF DataRead, At, WorkerGoes
<1>2. strm' = [strm EXCEPT !.error = @ \/ ~ok, !.prepared = @ \/ last,
                           !.counter = n, !.list = RemoveFirst(@, t)]
  BY DEF DataRead, SndInv, StrmType
<1>3. /\ WorkerInv' /\ ListInv'
      /\ \A u \in Task : /\ Queued(u)' <=> Queued(u)
                         /\ Executes(u) <=> u = t
                         /\ Busy(u)' <=> Busy(u) /\ u # t
      /\ ~At("blocks")' /\ ~At("exited")
  BY <1>1, ReadEnds
<1>4. ~At("blocks") /\ t \in Task /\ t # Header
  BY <1>1, Sorts DEF At
<1>5. Busy(t)
  BY <1>3, <1>4 DEF Busy
<1> HIDE DEF t, n, Busy, Queued, At, Executes
<1>6. t \in Range(strm.list) /\ strm.list \in Seq(DataTask) /\ IsInjective(strm.list)
  BY <1>1, <1>5 DEF SndInv, StrmType, LoadInv
<1>7. /\ RemoveFirst(strm.list, t) \in Seq(DataTask)
      /\ IsInjective(RemoveFirst(strm.list, t))
      /\ Range(RemoveFirst(strm.list, t)) = Range(strm.list) \ {t}
      /\ Len(RemoveFirst(strm.list, t)) = Len(strm.list) - 1
  BY <1>6, RemoveFirstProperties
<1>8. strm.list # <<>> /\ Len(strm.list) \in Nat \ {0}
  <2>1. strm.list # <<>>
    BY <1>6 DEF Range
  <2> QED
    BY <1>6, <2>1, EmptySeq
<1>9. ~Busy(Header) /\ strm.active
  BY <1>4, <1>8 DEF SndInv, LoadInv
<1>10. /\ strm.counter \in 0 .. Blocks
       /\ ~strm.prepared => Len(strm.list) <= strm.counter
  BY DEF SndInv, StrmType, LoadInv
<1>11. /\ n \in 0 .. Blocks
       /\ ~strm.prepared => Len(strm.list) - 1 <= n
  BY <1>8, <1>10, Sorts DEF n
<1>12. StrmType'
  BY <1>2, <1>7, <1>11 DEF SndInv, StrmType
<1>13. LifeInv'
  BY <1>1, <1>2, <1>9 DEF SndInv, StrmType, LifeInv, StrmStops
<1>14. LoadInv'
  <2>1. /\ strm'.list = RemoveFirst(strm.list, t) /\ strm'.counter = n
        /\ strm'.active = strm.active /\ (~strm'.prepared => ~strm.prepared)
    BY <1>2 DEF SndInv, StrmType
  <2>2. \A u \in DataTask : u \in Range(strm'.list) <=> Busy(u)'
    BY <1>3, <1>7, <2>1, Sorts DEF SndInv, LoadInv
  <2>3. ~Busy(Header)'
    BY <1>3, <1>9, Sorts
  <2>4. ~strm'.prepared => Len(strm'.list) <= strm'.counter
    BY <1>7, <1>11, <2>1
  <2> QED
    BY <1>7, <1>9, <2>1, <2>2, <2>3, <2>4 DEF LoadInv
<1> QED
  BY <1>1, <1>3, <1>12, <1>13, <1>14, LoadKeeps, Sorts

\* A sequence is read, and its sound is told if it still wants to know.
LEMMA SeqReadStep ==
  ASSUME SndInv, NEW t \in SeqTask, NEW success \in BOOLEAN, SeqRead(t, success)
  PROVE  SndInv'
<1>1. /\ worker.at = "reading" /\ worker.task = t
      /\ worker' = [worker EXCEPT !.at = "executed"]
      /\ UNCHANGED <<tm, waiting, strm, pc, target>>
  BY DEF SeqRead, At, WorkerGoes
<1>2. /\ WorkerInv' /\ ListInv'
      /\ \A u \in Task : /\ Queued(u)' <=> Queued(u)
                         /\ Executes(u) <=> u = t
                         /\ Busy(u)' <=> Busy(u) /\ u # t
      /\ ~At("blocks")' /\ ~At("exited")
  BY <1>1, ReadEnds
<1>3. ~At("blocks") /\ t \in Task
  BY <1>1, Sorts DEF At
<1>4. /\ seq' \in [SeqTask -> [state : {"free", "loading", "prepared"},
                               callback : BOOLEAN]]
      /\ \A u \in SeqTask : u # t => seq'[u] = seq[u]
  BY DEF SeqRead, Notified, SndInv, SeqInv
<1> HIDE DEF Busy, Queued, At, Executes
<1>5. SeqInv'
  BY <1>1, <1>2, <1>4, Sorts DEF SndInv, SeqInv
<1>6. ClientInv' /\ StrmType' /\ LifeInv'
  BY <1>1, <1>2 DEF SndInv, ClientInv, StrmType, LifeInv, StrmStops
<1>7. LoadInv'
  <2>1. \A u \in DataTask \cup {Header} : Busy(u)' <=> Busy(u)
    BY <1>2, Sorts
  <2> QED
    BY <1>1, <1>2, <1>3, <2>1 DEF SndInv, LoadInv
<1>8. HeaderInv'
  BY <1>1, <1>2, HeaderSame, Sorts DEF SndInv
<1> QED
  BY <1>2, <1>5, <1>6, <1>7, <1>8 DEF SndInv

\* The steps of the task thread in a task.
LEMMA LoadsStep ==
  ASSUME SndInv, Loads PROVE SndInv'
<1>1. ASSUME LoadStep, UNCHANGED seq PROVE SndInv'
  BY <1>1, BeginStep, HeaderFailsStep, HeaderLoadedStep, FirstBlocksStep,
     DataReadStep DEF LoadStep
<1>2. ASSUME SeqBegin PROVE SndInv'
  BY <1>2, BeginStep DEF SeqBegin
<1> QED
  BY <1>1, <1>2, SeqReadStep DEF Loads

-----------------------------------------------------------------------------
(* The calls of the main thread and of the audio interrupt. *)

\* A step that leaves the task thread and the lists alone changes no task.
LEMMA TasksSame ==
  ASSUME SndInv, UNCHANGED <<tm, worker>>
  PROVE  /\ WorkerInv' /\ ListInv'
         /\ At("blocks")' <=> At("blocks")
         /\ At("exited")' <=> At("exited")
         /\ \A u : /\ Queued(u)' <=> Queued(u)
                   /\ Executes(u)' <=> Executes(u)
                   /\ Busy(u)' <=> Busy(u)
<1>1. /\ WorkerInv' /\ \A u : Executes(u)' <=> Executes(u)
      /\ At("blocks")' <=> At("blocks")
      /\ At("exited")' <=> At("exited")
  BY WorkerWoken DEF SndInv
<1>2. \A u : Queued(u)' <=> Queued(u)
  BY DEF Queued
<1>3. ListInv'
  <2> HIDE DEF Queued, Executes
  <2> QED
    BY <1>1, <1>2 DEF SndInv, ListInv
<1> HIDE DEF Queued, Executes, At
<1> QED
  BY <1>1, <1>2, <1>3 DEF Busy

\* UpdateBuffer queues the next block of a started stream, whose header task is
\* long done.
LEMMA UpdateBufferStep ==
  ASSUME SndInv, UpdateBuffer, UNCHANGED seq PROVE SndInv'
<1>1. PICK last \in BOOLEAN : LoadNextBlock(last)
  BY DEF UpdateBuffer
<1>2. /\ strm.registered /\ strm.started /\ Len(strm.list) < Blocks - 2
      /\ worker' = Woken(worker) /\ UNCHANGED <<waiting, pc, target, seq>>
  BY DEF UpdateBuffer
<1>3. strm.active /\ strm.prepared /\ Len(strm.list) < Blocks
  <2>1. Len(strm.list) \in Nat
    BY DEF SndInv, StrmType
  <2> QED
    BY <1>2, <2>1, Sorts DEF SndInv, LifeInv
<1>4. ~At("blocks")
  <2>1. ~Busy(Header)
    BY <1>3 DEF SndInv, LoadInv
  <2> QED
    BY <2>1 DEF SndInv, WorkerInv, Busy, Executes, At
<1>5. /\ WorkerInv' /\ ListInv' /\ StrmType' /\ LoadInv'
      /\ At("exited")' <=> At("exited")
      /\ \A t \in SeqTask \cup {Header} :
            (Queued(t)' <=> Queued(t)) /\ (Busy(t)' <=> Busy(t))
      /\ \E l, n : strm' = [strm EXCEPT !.list = l, !.loadFinish = last,
                                        !.counter = n]
  <2> HIDE DEF Busy, Queued, At, Executes
  <2> QED
    BY <1>1, <1>2, <1>3, <1>4, NextBlock
<1> HIDE DEF Busy, Queued, At, Executes
<1>6. LifeInv'
  BY <1>2, <1>5 DEF SndInv, StrmType, LifeInv, StrmStops
<1> QED
  BY <1>2, <1>5, <1>6, LoadKeeps

\* A step that only changes fields of the stream which no load looks at.
LEMMA StreamKeeps ==
  ASSUME SndInv, UNCHANGED <<tm, worker, waiting, pc, target, seq>>,
         strm'.list = strm.list, strm'.counter = strm.counter,
         strm'.prepared = strm.prepared, strm'.active = strm.active,
         StrmType', LifeInv'
  PROVE  SndInv'
<1>1. /\ WorkerInv' /\ ListInv'
      /\ At("blocks")' <=> At("blocks")
      /\ At("exited")' <=> At("exited")
      /\ \A u : /\ Queued(u)' <=> Queued(u)
                /\ Busy(u)' <=> Busy(u)
  BY TasksSame
<1> HIDE DEF Busy, Queued, At, Executes
<1>2. LoadInv'
  BY <1>1 DEF SndInv, LoadInv
<1> QED
  BY <1>1, <1>2, LoadKeeps

\* Start and DropVoice.
LEMMA StartStep ==
  ASSUME SndInv, Start \/ DropVoice, UNCHANGED seq PROVE SndInv'
<1>1. /\ UNCHANGED <<tm, worker, waiting, pc, target, seq>>
      /\ \/ strm.prepared /\ strm' = [strm EXCEPT !.started = TRUE]
         \/ strm' = [strm EXCEPT !.voice = FALSE]
  BY DEF Start, DropVoice
<1>2. StrmType' /\ LifeInv'
  BY <1>1 DEF SndInv, StrmType, LifeInv, StrmStops
<1>3. /\ strm'.list = strm.list /\ strm'.counter = strm.counter
      /\ strm'.prepared = strm.prepared /\ strm'.active = strm.active
  BY <1>1 DEF SndInv, StrmType
<1> QED
  BY <1>1, <1>2, <1>3, StreamKeeps

\* Prepare makes a new stream of a freed one and queues its header task.
LEMMA PrepareStep ==
  ASSUME SndInv, Prepare, UNCHANGED seq PROVE SndInv'
<1>1. PICK abortable \in BOOLEAN :
        strm' = [strm EXCEPT !.alive = TRUE, !.active = TRUE,
                             !.registered = TRUE, !.open = TRUE,
                             !.error = FALSE, !.cancel = FALSE,
                             !.loadFinish = FALSE, !.abortable = abortable]
  BY DEF Prepare
<1>2. /\ pc["main"] = "user" /\ pc["sound"] \in {"idle", "exited"}
      /\ ~strm.alive /\ UNCHANGED <<waiting, pc, target, seq>>
      /\ tm' = [tm EXCEPT !.list["middle"] = Append(@, Header)]
      /\ worker' = Woken(worker)
  BY DEF Prepare, InMain, InSoundFrame, AppendTask
<1>3. pc["sound"] = "idle"
  BY <1>2 DEF SndInv, ClientInv, Ending
<1>4. ~strm.active /\ ~strm.prepared /\ ~strm.started
  BY <1>2 DEF SndInv, LifeInv
<1>5. strm.list = <<>> /\ ~Busy(Header)
  BY <1>4 DEF SndInv, LoadInv
<1>6. /\ WorkerInv' /\ ListInv'
      /\ At("exited")' <=> At("exited")
      /\ \A u : /\ Queued(u)' <=> Queued(u) \/ u = Header
                /\ Busy(u)' <=> Busy(u) \/ u = Header
  <2>1. "middle" \in TaskPriority
    BY DEF TaskPriority
  <2> HIDE DEF Busy, Queued, At, Executes
  <2> QED
    BY <1>2, <1>5, <2>1, Sorts, TaskAppended
<1> HIDE DEF Busy, Queued, At, Executes
<1>7. StrmType' /\ LifeInv'
  BY <1>1, <1>2, <1>3, <1>4 DEF SndInv, StrmType, LifeInv, StrmStops, Stops
<1>8. ClientInv'
  BY <1>2, <1>6 DEF SndInv, ClientInv
<1>9. LoadInv'
  <2>1. /\ strm'.list = <<>> /\ strm'.counter = strm.counter /\ strm'.active
        /\ strm'.prepared = FALSE /\ Len(<<>>) = 0
    BY <1>1, <1>4, <1>5 DEF SndInv, StrmType
  <2>2. \A t \in DataTask : Busy(t)' <=> Busy(t)
    BY <1>6, Sorts
  <2>3. strm.counter >= 0
    BY Sorts DEF SndInv, StrmType
  <2> QED
    BY <1>5, <2>1, <2>2, <2>3 DEF SndInv, LoadInv
<1>10. HeaderInv'
  BY <1>2, <1>3, Sorts DEF HeaderInv
<1>11. SeqInv'
  BY <1>2, <1>6, SeqSame, Sorts DEF SndInv
<1> QED
  BY <1>6, <1>7, <1>8, <1>9, <1>10, <1>11 DEF SndInv

\* A step that only moves a client, and not to a place that says something of
\* the tasks or of the sequences.
LEMMA ClientKeeps ==
  ASSUME SndInv, UNCHANGED <<tm, worker, seq>>, ClientInv', StrmType', LifeInv',
         strm'.list = strm.list, strm'.counter = strm.counter,
         strm'.prepared = strm.prepared, strm'.active = strm.active,
         pc'["main"] = "seqEnds"
           => pc["main"] = "seqEnds" /\ target'["main"] = target["main"],
         \A c \in Client :
           /\ pc'[c] = "headerEnds" => pc[c] = "headerEnds" \/ ~Queued(Header)
           /\ pc'[c] \in {"cancelData", "dataEnds"}
                => \/ pc[c] \in {"cancelData", "dataEnds"}
                   \/ ~Busy(Header)
  PROVE  SndInv'
<1>1. /\ WorkerInv' /\ ListInv'
      /\ At("blocks")' <=> At("blocks")
      /\ \A u : /\ Queued(u)' <=> Queued(u)
                /\ Busy(u)' <=> Busy(u)
  BY TasksSame
<1> HIDE DEF Busy, Queued, At, Executes
<1>2. LoadInv'
  BY <1>1 DEF SndInv, LoadInv
<1>3. HeaderInv'
  BY <1>1, HeaderSame DEF SndInv
<1>4. SeqInv'
  BY <1>1, Sorts DEF SndInv, SeqInv
<1> QED
  BY <1>1, <1>2, <1>3, <1>4 DEF SndInv

\* The main thread enters Stop, or a call of the sound system.
LEMMA EntersStep ==
  ASSUME SndInv, Shutdown \/ ShutdownSoundSystem, UNCHANGED seq PROVE SndInv'
<1>1. /\ pc["main"] = "user" /\ UNCHANGED <<tm, worker, waiting, strm, target, seq>>
      /\ \/ pc' = [pc EXCEPT !["main"] = "stop"]
         \/ pc' = [pc EXCEPT !["main"] = "free"] /\ ~strm.active
         \/ pc' = [pc EXCEPT !["main"] = "joinSound"]
  BY DEF Shutdown, ShutdownSoundSystem, InMain, ClientGoes
<1>2. /\ pc'["main"] \in {"stop", "free", "joinSound"}
      /\ pc'["sound"] = pc["sound"]
      /\ pc' \in [Client -> MainPlaces \cup SoundPlaces]
      /\ pc'["main"] = "free" => ~strm.active
  BY <1>1, Sorts DEF SndInv, ClientInv, MainPlaces
<1>3. pc["sound"] # "exited"
  BY <1>1 DEF SndInv, ClientInv, Ending
<1> HIDE DEF At
<1>4. ClientInv'
  BY <1>1, <1>2, <1>3, Sorts, TasksSame
     DEF SndInv, ClientInv, MainPlaces, SoundPlaces, Stops, Ending, Waits
<1>5. StrmType' /\ LifeInv'
  BY <1>1, <1>2 DEF SndInv, StrmType, LifeInv, StrmStops, Stops
<1>6. \A c \in Client : pc'[c] = pc[c] \/ pc'[c] \in {"stop", "free", "joinSound"}
  BY <1>2, Sorts
<1> HIDE DEF Busy, Queued
<1> QED
  BY <1>1, <1>2, <1>4, <1>5, <1>6, ClientKeeps

-----------------------------------------------------------------------------
(* Stop. *)

\* A client goes to a place, and the other stays.
LEMMA Goes ==
  ASSUME SndInv, NEW c \in Client, NEW place \in MainPlaces \cup SoundPlaces,
         ClientGoes(c, place)
  PROVE  /\ pc' \in [Client -> MainPlaces \cup SoundPlaces]
         /\ pc'[c] = place /\ \A d \in Client : d # c => pc'[d] = pc[d]
BY DEF SndInv, ClientInv, ClientGoes

\* The player's part of Stop under the sound thread's mutex: it gives back the
\* channels and the voice and is registered no longer.
LEMMA ReleaseStep ==
  ASSUME SndInv, NEW c \in Client, Release(c, "cancelHeader"), UNCHANGED seq,
         ~StrmStops, pc["sound"] = "idle",
         c = "main" => pc["main"] = "stop", c = "sound" => strm.active
  PROVE  SndInv'
<1>1. /\ UNCHANGED <<tm, worker, waiting, target, seq>>
      /\ strm' = [strm EXCEPT !.channels = FALSE, !.voice = FALSE,
                              !.registered = @ /\ ~strm.active]
      /\ ClientGoes(c, "cancelHeader")
  BY DEF Release
<1>2. /\ pc' \in [Client -> MainPlaces \cup SoundPlaces]
      /\ pc'[c] = "cancelHeader" /\ \A d \in Client : d # c => pc'[d] = pc[d]
  BY <1>1, Goes DEF MainPlaces
<1>3. /\ strm'.list = strm.list /\ strm'.counter = strm.counter
      /\ strm'.prepared = strm.prepared /\ strm'.active = strm.active
      /\ strm'.alive = strm.alive /\ strm'.open = strm.open
      /\ strm'.started = strm.started
      /\ ~strm'.registered /\ ~strm'.channels /\ ~strm'.voice
  BY <1>1 DEF SndInv, StrmType, LifeInv
<1>4. StrmType'
  BY <1>1 DEF SndInv, StrmType
<1> HIDE DEF At
<1>5. ClientInv'
  <2>1. pc["main"] \notin Stops \cup Ending
    BY DEF SndInv, ClientInv, StrmStops
  <2>2. c \notin waiting
    BY Sorts DEF SndInv, ClientInv, Waits
  <2>3. c = "main" \/ c = "sound"
    BY Sorts
  <2> QED
    BY <1>1, <1>2, <2>1, <2>2, <2>3, Sorts, TasksSame
       DEF SndInv, ClientInv, MainPlaces, SoundPlaces, Stops, Ending, Waits
<1>6. LifeInv'
  <2>1. StrmStops'
    BY <1>2, Sorts DEF StrmStops, Stops
  <2>2. pc'["main"] = "free" => pc["main"] = "free"
    BY <1>2, Sorts
  <2>3. pc'["sound"] # "exited"
    BY <1>2, Sorts
  <2>4. pc'["sound"] \in Stops => strm.active
    BY <1>2, Sorts DEF Stops
  <2> QED
    BY <1>3, <2>1, <2>2, <2>3, <2>4 DEF SndInv, LifeInv
<1> HIDE DEF Busy, Queued
<1>7. /\ pc'["main"] = "seqEnds" => pc["main"] = "seqEnds"
      /\ \A d \in Client : pc'[d] = pc[d] \/ pc'[d] = "cancelHeader"
  BY <1>2, Sorts
<1> QED
  BY <1>1, <1>3, <1>4, <1>5, <1>6, <1>7, ClientKeeps

\* Stop by the main thread, by Update in a sound frame, and by the sound
\* thread's shutdown, which ends at once when no player is registered.
LEMMA ReleasesStep ==
  ASSUME SndInv,
         \/ (StopReleases \/ UpdateStops) /\ UNCHANGED seq
         \/ SoundShutdown
  PROVE  SndInv'
<1>1. ASSUME StopReleases, UNCHANGED seq PROVE SndInv'
  <2>1. /\ pc["main"] = "stop" /\ pc["sound"] \in {"idle", "exited"}
        /\ Release("main", "cancelHeader")
    BY <1>1 DEF StopReleases, InSoundFrame
  <2>2. pc["sound"] = "idle" /\ ~StrmStops
    BY <2>1 DEF SndInv, ClientInv, StrmStops, Stops, Ending
  <2> QED
    BY <1>1, <2>1, <2>2, ReleaseStep, Sorts
<1>2. ASSUME UpdateStops, UNCHANGED seq PROVE SndInv'
  <2>1. /\ pc["sound"] = "idle" /\ strm.registered /\ strm.active
        /\ Release("sound", "cancelHeader")
    BY <1>2 DEF UpdateStops
  <2>2. ~StrmStops
    BY <2>1 DEF SndInv, LifeInv
  <2> QED
    BY <1>2, <2>1, <2>2, ReleaseStep, Sorts
<1>3. ASSUME SoundShutdown PROVE SndInv'
  <2>1. /\ pc["sound"] = "idle" /\ pc["main"] = "joinSound" /\ seq' = seq
        /\ ~StrmStops
    BY <1>3 DEF SoundShutdown, StrmStops, Stops
  <2>2. CASE strm.registered
    <3>1. Release("sound", "cancelHeader") /\ strm.active
      BY <1>3, <2>2 DEF SoundShutdown, SndInv, LifeInv
    <3> QED
      BY <2>1, <3>1, ReleaseStep, Sorts
  <2>3. CASE ~strm.registered
    <3>1. /\ ClientGoes("sound", "exited") /\ ~strm.active
          /\ UNCHANGED <<tm, worker, waiting, strm, target, seq>>
      BY <1>3, <2>1, <2>3 DEF SoundShutdown, SndInv, LifeInv
    <3>2. /\ pc' \in [Client -> MainPlaces \cup SoundPlaces]
          /\ pc'["sound"] = "exited" /\ pc'["main"] = "joinSound"
      BY <2>1, <3>1, Goes, Sorts DEF SoundPlaces
    <3> HIDE DEF At
    <3>3. ClientInv'
      BY <2>1, <3>1, <3>2, Sorts, TasksSame
         DEF SndInv, ClientInv, MainPlaces, SoundPlaces, Stops, Ending, Waits
    <3>4. StrmType' /\ LifeInv'
      BY <2>1, <3>1, <3>2 DEF SndInv, StrmType, LifeInv, StrmStops, Stops
    <3> HIDE DEF Busy, Queued
    <3> QED
      BY <2>1, <3>1, <3>2, <3>3, <3>4, Sorts, ClientKeeps
  <2> QED
    BY <2>2, <2>3
<1> QED
  BY <1>1, <1>2, <1>3

\* The destructor finds the stream stopped.
LEMMA DestroyPlayerStep ==
  ASSUME SndInv, DestroyPlayer, UNCHANGED seq PROVE SndInv'
<1>1. /\ pc["main"] = "free" /\ pc["sound"] \in {"idle", "exited"}
      /\ ClientGoes("main", "user")
      /\ strm' = [Destroyed(strm) EXCEPT !.channels = FALSE, !.voice = FALSE]
      /\ UNCHANGED <<tm, worker, waiting, target, seq>>
  BY DEF DestroyPlayer, InSoundFrame
<1>2. /\ pc' \in [Client -> MainPlaces \cup SoundPlaces]
      /\ pc'["main"] = "user" /\ pc'["sound"] = pc["sound"]
  BY <1>1, Goes, Sorts DEF MainPlaces
<1>3. /\ pc["sound"] = "idle" /\ "main" \notin waiting /\ ~strm.active
      /\ ~strm.registered /\ ~strm.prepared /\ ~strm.started /\ ~strm.open
  BY <1>1 DEF SndInv, ClientInv, LifeInv, Ending, Waits
<1>4. strm.list = <<>> /\ ~Busy(Header)
  BY <1>3 DEF SndInv, LoadInv
<1>5. /\ strm'.list = <<>> /\ strm'.counter = 0 /\ strm'.active = FALSE
      /\ ~strm'.prepared /\ ~strm'.alive /\ ~strm'.registered /\ ~strm'.started
      /\ strm'.open = FALSE /\ ~strm'.channels /\ ~strm'.voice
  BY <1>1, <1>3, <1>4 DEF SndInv, StrmType, Destroyed
<1>6. StrmType'
  <2>1. 0 \in 0 .. Blocks
    BY Sorts
  <2> QED
    BY <1>1, <2>1 DEF SndInv, StrmType, Destroyed
<1>7. /\ WorkerInv' /\ ListInv'
      /\ At("exited")' <=> At("exited")
      /\ \A u : (Queued(u)' <=> Queued(u)) /\ (Busy(u)' <=> Busy(u))
  BY <1>1, TasksSame
<1> HIDE DEF At, Busy, Queued
<1>8. ClientInv'
  BY <1>1, <1>2, <1>3, <1>7, Sorts
     DEF SndInv, ClientInv, MainPlaces, Stops, Ending, Waits
<1>9. LifeInv'
  BY <1>2, <1>3, <1>5 DEF LifeInv, StrmStops, Stops
<1>10. LoadInv'
  <2>1. Len(<<>>) = 0
    OBVIOUS
  <2> QED
    BY <1>4, <1>5, <1>7, <2>1 DEF SndInv, LoadInv
<1>11. HeaderInv'
  BY <1>2, <1>3, Sorts DEF HeaderInv
<1>12. SeqInv'
  BY <1>1, <1>2, <1>7, SeqSame DEF SndInv
<1> QED
  BY <1>6, <1>7, <1>8, <1>9, <1>10, <1>11, <1>12 DEF SndInv

\* A client in Stop goes on in Stop, and the stream keeps what matters.
LEMMA StopMoves ==
  ASSUME SndInv, NEW c \in Client, pc[c] \in Stops,
         NEW place \in Stops, ClientGoes(c, place),
         strm' = strm \/ strm' = [strm EXCEPT !.cancel = TRUE],
         UNCHANGED worker,
         \/ waiting' = waiting /\ c \notin waiting
         \/ waiting' = waiting \cup {c} /\ place \in Waits,
         target' \in [Client -> Task \cup {NULL}]
  PROVE  /\ ClientInv' /\ StrmType' /\ LifeInv'
         /\ pc'["main"] = "seqEnds" => pc["main"] = "seqEnds" /\ c # "main"
         /\ strm'.list = strm.list /\ strm'.counter = strm.counter
         /\ strm'.prepared = strm.prepared /\ strm'.active = strm.active
         /\ pc'[c] = place /\ \A d \in Client : d # c => pc'[d] = pc[d]
<1>1. /\ pc' \in [Client -> MainPlaces \cup SoundPlaces]
      /\ pc'[c] = place /\ \A d \in Client : d # c => pc'[d] = pc[d]
  BY Goes DEF Stops, MainPlaces
<1>2. c = "main" \/ c = "sound"
  BY Sorts
<1>3. At("exited")' <=> At("exited")
  BY DEF At
<1> HIDE DEF At
<1>4. /\ pc'["main"] \in Stops <=> pc["main"] \in Stops
      /\ pc'["sound"] \in Stops <=> pc["sound"] \in Stops
      /\ pc'["main"] \in Stops \/ pc'["main"] = pc["main"]
      /\ pc'["sound"] \in Stops \/ pc'["sound"] = pc["sound"]
  BY <1>1, <1>2, Sorts
<1>5. ClientInv'
  <2>1. pc'["main"] \in MainPlaces /\ pc'["sound"] \in SoundPlaces
    BY <1>4 DEF SndInv, ClientInv, MainPlaces, SoundPlaces, Stops
  <2>2. waiting' \subseteq Client /\ \A d \in waiting' : pc'[d] \in Waits
    BY <1>1, <1>2 DEF SndInv, ClientInv
  <2>3. /\ pc'["main"] \in Stops => pc'["sound"] = "idle"
        /\ pc'["main"] \in Ending => pc'["sound"] = "exited"
        /\ pc'["sound"] = "exited" => pc'["main"] \in Ending \cup {"joinSound"}
        /\ pc'["main"] = "down" => At("exited")
    BY <1>1, <1>2, <1>4, Sorts DEF SndInv, ClientInv, Stops, Ending
  <2> QED
    BY <1>1, <1>3, <2>1, <2>2, <2>3 DEF ClientInv
<1>6. /\ StrmType' /\ strm'.list = strm.list /\ strm'.counter = strm.counter
      /\ strm'.prepared = strm.prepared /\ strm'.active = strm.active
      /\ strm'.alive = strm.alive /\ strm'.open = strm.open
      /\ strm'.started = strm.started /\ strm'.registered = strm.registered
      /\ strm'.channels = strm.channels /\ strm'.voice = strm.voice
  BY DEF SndInv, StrmType
<1>7. LifeInv'
  <2>1. StrmStops' <=> StrmStops
    BY <1>4 DEF StrmStops
  <2>2. /\ pc'["main"] = "free" => pc["main"] = "free"
        /\ pc'["sound"] = "exited" => pc["sound"] = "exited"
    BY <1>4 DEF Stops
  <2> QED
    BY <1>4, <1>6, <2>1, <2>2 DEF SndInv, LifeInv
<1>8. pc'["main"] = "seqEnds" => pc["main"] = "seqEnds" /\ c # "main"
  BY <1>1, <1>4 DEF Stops
<1> QED
  BY <1>1, <1>5, <1>6, <1>7, <1>8

\* CancelTask of the header: it waits for a task that is executed, and takes one
\* that is queued out of the lists.
LEMMA CancelHeaderStep ==
  ASSUME SndInv, NEW c \in Client, CancelHeader(c), UNCHANGED seq
  PROVE  SndInv'
<1>1. pc[c] = "cancelHeader" /\ c \notin waiting /\ ~Ready
  BY DEF CancelHeader, Runs
<1>2. /\ \A t \in Task : Executes(t) <=> tm.current = t
      /\ ~At("blocks")
  BY <1>1, WorkerIdle DEF SndInv
<1>3. target \in [Client -> Task \cup {NULL}]
  BY DEF SndInv, ClientInv
<1>4. CASE tm.current = Header
  <2>1. /\ strm' = [strm EXCEPT !.cancel = TRUE]
        /\ waiting' = waiting \cup {c} /\ ClientGoes(c, "headerEnds")
        /\ UNCHANGED <<tm, worker, target, seq>>
    BY <1>4 DEF CancelHeader, CancelCurrent
  <2>2. ~Queued(Header)
    BY <1>2, <1>4, Sorts DEF SndInv, ListInv
  <2> HIDE DEF At, Busy, Queued, Executes
  <2>3. /\ ClientInv' /\ StrmType' /\ LifeInv'
        /\ pc'["main"] = "seqEnds" => pc["main"] = "seqEnds" /\ c # "main"
        /\ strm'.list = strm.list /\ strm'.counter = strm.counter
        /\ strm'.prepared = strm.prepared /\ strm'.active = strm.active
        /\ pc'[c] = "headerEnds" /\ \A d \in Client : d # c => pc'[d] = pc[d]
    <3>1. "headerEnds" \in Stops /\ "headerEnds" \in Waits /\ pc[c] \in Stops
      BY <1>1 DEF Stops, Waits
    <3> QED
      BY <1>3, <2>1, <3>1, StopMoves
  <2> QED
    BY <2>1, <2>2, <2>3, ClientKeeps
<1>5. CASE tm.current # Header
  <2>1. /\ tm' = Dequeue(tm, Header) /\ ClientGoes(c, "cancelData")
        /\ UNCHANGED <<worker, waiting, strm, target, seq>>
    BY <1>5 DEF CancelHeader, CancelCurrent
  <2>2. /\ WorkerInv' /\ ListInv'
        /\ \A u : /\ Queued(u)' <=> Queued(u) /\ u # Header
                  /\ Executes(u)' <=> Executes(u)
    BY <2>1, TaskDequeued, Sorts
  <2>3. ~Executes(Header)
    BY <1>2, <1>5, Sorts
  <2> HIDE DEF Executes, Queued
  <2>4. /\ ~Busy(Header)' /\ \A u : (Busy(u)' => Busy(u)) /\ (Queued(u)' => Queued(u))
        /\ \A u \in DataTask : Busy(u)' <=> Busy(u)
    BY <2>2, <2>3, Sorts DEF Busy
  <2> HIDE DEF At, Busy
  <2>5. ClientInv' /\ StrmType' /\ LifeInv'
        /\ (pc'["main"] = "seqEnds" => pc["main"] = "seqEnds")
    <3>1. "cancelData" \in Stops /\ pc[c] \in Stops
      BY <1>1 DEF Stops
    <3> QED
      BY <1>1, <1>3, <2>1, <3>1, StopMoves
  <2>6. LoadInv'
    BY <2>1, <2>4 DEF SndInv, LoadInv
  <2>7. HeaderInv'
    <3>1. ~Queued(Header)'
      BY <2>2
    <3> QED
      BY <2>4, <3>1 DEF HeaderInv
  <2>8. SeqInv'
    BY <2>1, <2>4, <2>5, SeqSame DEF SndInv
  <2> QED
    BY <2>2, <2>5, <2>6, <2>7, <2>8 DEF SndInv
<1> QED
  BY <1>4, <1>5

\* The wait for the end of a task that is executed.
LEMMA AwaitEndStep ==
  ASSUME SndInv, NEW c \in Client, NEW t, NEW here \in {"headerEnds", "dataEnds"},
         AwaitEnd(c, t, here, "cancelData"), UNCHANGED seq,
         here = "headerEnds" => t = Header
  PROVE  SndInv'
<1>1. /\ pc[c] = here /\ c \notin waiting /\ ~Ready
      /\ UNCHANGED <<tm, worker, strm, seq>>
  BY DEF AwaitEnd, Runs
<1>2. target \in [Client -> Task \cup {NULL}]
  BY DEF SndInv, ClientInv
<1>3. CASE tm.current = t
  <2>1. waiting' = waiting \cup {c} /\ UNCHANGED <<pc, target>>
    BY <1>3 DEF AwaitEnd
  <2> HIDE DEF At, Busy, Queued
  <2>2. ClientInv'
    BY <1>1, <2>1, TasksSame DEF SndInv, ClientInv, Waits
  <2>3. StrmType' /\ LifeInv'
    BY <1>1, <2>1 DEF SndInv, StrmType, LifeInv, StrmStops
  <2> QED
    BY <1>1, <2>1, <2>2, <2>3, ClientKeeps
<1>4. CASE tm.current # t
  <2>1. /\ ClientGoes(c, "cancelData") /\ waiting' = waiting
        /\ target' = [target EXCEPT ![c] = NULL]
    BY <1>4 DEF AwaitEnd
  <2>2. here = "headerEnds" => ~Busy(Header)
    <3>1. ASSUME here = "headerEnds" PROVE ~Queued(Header) /\ ~Executes(Header)
      BY <1>1, <1>4, <3>1, WorkerIdle, Sorts DEF SndInv, HeaderInv
    <3> QED
      BY <3>1 DEF Busy
  <2> HIDE DEF At, Busy, Queued, Executes
  <2>3. /\ target' \in [Client -> Task \cup {NULL}]
        /\ c # "main" => target'["main"] = target["main"]
    BY <1>2, <2>1, Sorts
  <2>4. /\ ClientInv' /\ StrmType' /\ LifeInv'
        /\ pc'["main"] = "seqEnds" => pc["main"] = "seqEnds" /\ c # "main"
        /\ strm'.list = strm.list /\ strm'.counter = strm.counter
        /\ strm'.prepared = strm.prepared /\ strm'.active = strm.active
        /\ pc'[c] = "cancelData" /\ \A d \in Client : d # c => pc'[d] = pc[d]
    <3>1. "cancelData" \in Stops /\ pc[c] \in Stops
      BY <1>1 DEF Stops
    <3> QED
      BY <1>1, <2>1, <2>3, <3>1, StopMoves
  <2> QED
    BY <1>1, <2>2, <2>3, <2>4, ClientKeeps
<1> QED
  BY <1>3, <1>4

\* The last task of the player's list is cancelled: it is waited for, or it
\* leaves both lists.
LEMMA CancelDataStep ==
  ASSUME SndInv, NEW c \in Client, CancelData(c), UNCHANGED seq
  PROVE  SndInv'
<1> DEFINE t == Last(strm.list)
<1>1. pc[c] = "cancelData" /\ c \notin waiting /\ ~Ready /\ strm.list # <<>>
  BY DEF CancelData, Runs
<1>2. /\ \A u \in Task : Executes(u) <=> tm.current = u
      /\ ~At("blocks")
  BY <1>1, WorkerIdle DEF SndInv
<1>3. target \in [Client -> Task \cup {NULL}] /\ ~Busy(Header)
  BY <1>1 DEF SndInv, ClientInv, HeaderInv
<1>4. /\ t \in Range(strm.list) /\ t \in DataTask /\ t \in Task
      /\ strm.list \in Seq(DataTask) /\ IsInjective(strm.list)
      /\ Len(strm.list) \in Nat \ {0}
  <2>1. strm.list \in Seq(DataTask) /\ IsInjective(strm.list)
    BY DEF SndInv, StrmType, LoadInv
  <2>2. Len(strm.list) \in Nat \ {0}
    BY <1>1, <2>1, EmptySeq
  <2>3. Len(strm.list) \in 1 .. Len(strm.list) /\ t = strm.list[Len(strm.list)]
    BY <2>2 DEF Last
  <2>4. t \in Range(strm.list) /\ t \in DataTask
    BY <2>1, <2>3, LenProperties DEF Range
  <2> QED
    BY <2>1, <2>2, <2>4, Sorts
<1>5. CASE tm.current = t
  <2>1. /\ strm' = [strm EXCEPT !.cancel = TRUE]
        /\ waiting' = waiting \cup {c} /\ ClientGoes(c, "dataEnds")
        /\ target' = [target EXCEPT ![c] = t]
        /\ UNCHANGED <<tm, worker, seq>>
    BY <1>5 DEF CancelData, CancelCurrent
  <2> HIDE DEF At, Busy, Queued, Executes, t
  <2>2. /\ target' \in [Client -> Task \cup {NULL}]
        /\ c # "main" => target'["main"] = target["main"]
    BY <1>3, <1>4, <2>1, Sorts
  <2>3. /\ ClientInv' /\ StrmType' /\ LifeInv'
        /\ pc'["main"] = "seqEnds" => pc["main"] = "seqEnds" /\ c # "main"
        /\ strm'.list = strm.list /\ strm'.counter = strm.counter
        /\ strm'.prepared = strm.prepared /\ strm'.active = strm.active
        /\ pc'[c] = "dataEnds" /\ \A d \in Client : d # c => pc'[d] = pc[d]
    <3>1. "dataEnds" \in Stops /\ "dataEnds" \in Waits /\ pc[c] \in Stops
      BY <1>1 DEF Stops, Waits
    <3> QED
      BY <2>1, <2>2, <3>1, StopMoves
  <2> QED
    BY <1>3, <2>1, <2>2, <2>3, ClientKeeps
<1>6. CASE tm.current # t
  <2>1. ~Executes(t) /\ Queued(t)
    <3>1. Busy(t)
      BY <1>4 DEF SndInv, LoadInv
    <3> QED
      BY <1>2, <1>4, <1>6, <3>1 DEF Busy
  <2>2. /\ tm' = Dequeue(tm, t)
        /\ strm' = [strm EXCEPT !.list = RemoveFirst(@, t)]
        /\ UNCHANGED <<worker, waiting, pc, target, seq>>
    BY <1>6, <2>1 DEF CancelData, CancelCurrent, SndInv, StrmType
  <2> HIDE DEF t
  <2>3. /\ WorkerInv' /\ ListInv'
        /\ \A u : /\ Queued(u)' <=> Queued(u) /\ u # t
                  /\ Executes(u)' <=> Executes(u)
    BY <1>4, <2>2, TaskDequeued
  <2>4. At("blocks")' <=> At("blocks")
    BY <2>2 DEF At
  <2>5. At("exited") => At("exited")'
    BY <2>2 DEF At
  <2> HIDE DEF Executes, Queued, At
  <2>6. \A u : (Busy(u)' <=> Busy(u) /\ u # t) /\ (Queued(u)' => Queued(u))
    BY <2>1, <2>3 DEF Busy
  <2> HIDE DEF Busy
  <2>7. /\ RemoveFirst(strm.list, t) \in Seq(DataTask)
        /\ IsInjective(RemoveFirst(strm.list, t))
        /\ Range(RemoveFirst(strm.list, t)) = Range(strm.list) \ {t}
        /\ Len(RemoveFirst(strm.list, t)) = Len(strm.list) - 1
    BY <1>4, RemoveFirstProperties
  <2>8. StrmType' /\ LifeInv'
    <3>1. StrmType'
      BY <2>2, <2>7 DEF SndInv, StrmType
    <3>2. LifeInv'
      BY <2>2 DEF SndInv, StrmType, LifeInv, StrmStops
    <3> QED
      BY <3>1, <3>2
  <2>9. LoadInv'
    <3>1. /\ strm'.list = RemoveFirst(strm.list, t) /\ strm'.counter = strm.counter
          /\ strm'.active = strm.active /\ strm'.prepared = strm.prepared
          /\ strm.counter \in Int
      BY <2>2, Sorts DEF SndInv, StrmType
    <3>2. strm.active /\ ~Busy(Header)'
      BY <1>1, <1>3, <2>6 DEF SndInv, LoadInv
    <3>3. ~strm'.prepared => Len(strm'.list) <= strm'.counter
      BY <1>4, <2>7, <3>1 DEF SndInv, LoadInv
    <3> QED
      BY <2>6, <2>7, <3>1, <3>2, <3>3 DEF SndInv, LoadInv
  <2> QED
    BY <2>2, <2>3, <2>5, <2>6, <2>8, <2>9, LoadKeeps
<1> QED
  BY <1>5, <1>6

\* The end of Stop: nothing of the stream is busy, and the file is closed.
LEMMA CloseFileStep ==
  ASSUME SndInv, NEW c \in Client, CloseFile(c), UNCHANGED seq
  PROVE  SndInv'
<1> DEFINE place == IF c = "main" THEN "free" ELSE "idle"
<1>1. /\ pc[c] = "cancelData" /\ c \notin waiting /\ strm.list = <<>>
      /\ strm' = [strm EXCEPT !.open = FALSE, !.started = FALSE,
                              !.prepared = FALSE, !.active = FALSE]
      /\ ClientGoes(c, place) /\ UNCHANGED <<tm, worker, waiting, target, seq>>
  BY DEF CloseFile, Runs
<1>2. ~Busy(Header)
  BY <1>1 DEF SndInv, HeaderInv
<1>3. /\ pc' \in [Client -> MainPlaces \cup SoundPlaces]
      /\ pc'[c] = place /\ \A d \in Client : d # c => pc'[d] = pc[d]
  BY <1>1, Goes DEF MainPlaces, SoundPlaces
<1>4. \/ /\ c = "main" /\ pc["main"] = "cancelData" /\ pc["sound"] = "idle"
         /\ pc'["main"] = "free" /\ pc'["sound"] = "idle"
      \/ /\ c = "sound" /\ pc["sound"] = "cancelData" /\ pc'["sound"] = "idle"
         /\ pc'["main"] = pc["main"] /\ pc["main"] \notin Stops \cup Ending
  BY <1>1, <1>3, Sorts DEF SndInv, ClientInv, Stops
<1>5. /\ WorkerInv' /\ ListInv'
      /\ At("blocks")' <=> At("blocks")
      /\ At("exited")' <=> At("exited")
      /\ \A u : (Queued(u)' <=> Queued(u)) /\ (Busy(u)' <=> Busy(u))
  BY <1>1, TasksSame
<1> HIDE DEF At, Busy, Queued, place
<1>6. ClientInv'
  BY <1>1, <1>3, <1>4, <1>5, Sorts
     DEF SndInv, ClientInv, MainPlaces, SoundPlaces, Stops, Ending, Waits
<1>7. StrmType'
  BY <1>1 DEF SndInv, StrmType
<1>8. /\ strm'.list = <<>> /\ strm'.counter = strm.counter /\ strm'.open = FALSE
      /\ strm'.prepared = FALSE /\ strm'.active = FALSE
      /\ strm'.started = FALSE /\ strm'.registered = strm.registered
      /\ strm'.alive = strm.alive /\ strm'.channels = strm.channels
      /\ strm'.voice = strm.voice /\ strm.counter >= 0
  BY <1>1, Sorts DEF SndInv, StrmType
<1>9. LifeInv'
  <2>1. ~strm.registered
    BY <1>4 DEF SndInv, LifeInv, StrmStops, Stops
  <2>2. pc'["sound"] \notin Stops
    BY <1>4 DEF Stops
  <2> QED
    BY <1>8, <2>1, <2>2 DEF SndInv, LifeInv
<1>10. LoadInv'
  <2>1. Len(<<>>) = 0
    OBVIOUS
  <2> QED
    BY <1>1, <1>2, <1>5, <1>8, <2>1 DEF SndInv, LoadInv
<1>11. HeaderInv'
  BY <1>2, <1>4, <1>5, Sorts, HeaderSame DEF SndInv
<1>12. SeqInv'
  BY <1>1, <1>4, <1>5, SeqSame DEF SndInv
<1> QED
  BY <1>5, <1>6, <1>7, <1>9, <1>10, <1>11, <1>12 DEF SndInv

\* Every step of Stop.
LEMMA StreamStopsStep ==
  ASSUME SndInv, NEW c \in Client, StreamStops(c) PROVE SndInv'
BY CancelHeaderStep, AwaitEndStep, CancelDataStep, CloseFileStep
   DEF StreamStops, StopStep

-----------------------------------------------------------------------------
(* The sequence sounds. *)

\* A free sound's load task is not busy: Prepare queues it.
LEMMA SeqPrepareStep ==
  ASSUME SndInv, NEW t \in SeqTask, SeqPrepare(t) PROVE SndInv'
<1>1. /\ pc["main"] = "user" /\ seq[t].state = "free"
      /\ seq' = [seq EXCEPT ![t] = [state |-> "loading", callback |-> TRUE]]
      /\ tm' = [tm EXCEPT !.list["middle"] = Append(@, t)]
      /\ worker' = Woken(worker)
      /\ UNCHANGED <<waiting, strm, pc, target>>
  BY DEF SeqPrepare, InMain, AppendTask
<1>2. ~Busy(t) /\ t \in Task /\ t # Header /\ t \notin DataTask
  BY <1>1, Sorts DEF SndInv, SeqInv
<1>3. "middle" \in TaskPriority
  BY DEF TaskPriority
<1> HIDE DEF At, Busy, Queued
<1>4. /\ WorkerInv' /\ ListInv'
      /\ At("blocks")' <=> At("blocks")
      /\ At("exited")' <=> At("exited")
      /\ \A u : /\ Queued(u)' <=> Queued(u) \/ u = t
                /\ Busy(u)' <=> Busy(u) \/ u = t
  BY <1>1, <1>2, <1>3, TaskAppended
<1>5. ClientInv' /\ StrmType' /\ LifeInv'
  BY <1>1, <1>4 DEF SndInv, ClientInv, StrmType, LifeInv, StrmStops
<1>6. LoadInv'
  BY <1>1, <1>2, <1>4 DEF SndInv, LoadInv
<1>7. HeaderInv'
  BY <1>1, <1>2, <1>4 DEF SndInv, HeaderInv
<1>8. SeqInv'
  <2>1. seq' \in [SeqTask -> [state : {"free", "loading", "prepared"},
                              callback : BOOLEAN]]
    BY <1>1 DEF SndInv, SeqInv
  <2>2. \A u \in SeqTask : Busy(u)' => seq'[u].state # "free"
    BY <1>1, <1>4 DEF SndInv, SeqInv
  <2> QED
    BY <1>1, <2>1, <2>2 DEF SeqInv
<1> QED
  BY <1>4, <1>5, <1>6, <1>7, <1>8 DEF SndInv

\* SeqSound::Shutdown waits for a load that is executed, or frees the sound.
LEMMA SeqShutdownStep ==
  ASSUME SndInv, NEW t \in SeqTask, SeqShutdown(t) PROVE SndInv'
<1>1. /\ pc["main"] = "user" /\ ~Ready /\ "main" \notin waiting
      /\ seq[t].state # "free" /\ ~Queued(t) /\ UNCHANGED <<tm, worker, strm>>
  BY DEF SeqShutdown, InMain, Runs
<1>2. \A u \in Task : Executes(u) <=> tm.current = u
  BY <1>1, WorkerIdle DEF SndInv
<1>3. /\ WorkerInv' /\ ListInv'
      /\ At("blocks")' <=> At("blocks")
      /\ At("exited")' <=> At("exited")
      /\ \A u : (Queued(u)' <=> Queued(u)) /\ (Busy(u)' <=> Busy(u))
  BY <1>1, TasksSame
<1>4. tm.current # t => ~Busy(t)
  BY <1>1, <1>2, Sorts DEF Busy
<1> HIDE DEF At, Busy, Queued, Executes
<1>5. StrmType' /\ LoadInv'
  BY <1>1, <1>3 DEF SndInv, StrmType, LoadInv
<1>6. CASE tm.current = t
  <2>1. /\ seq' = [seq EXCEPT ![t].callback = FALSE]
        /\ waiting' = waiting \cup {"main"}
        /\ target' = [target EXCEPT !["main"] = t]
        /\ ClientGoes("main", "seqEnds")
    BY <1>6 DEF SeqShutdown, SeqOnCancel
  <2>2. /\ pc' \in [Client -> MainPlaces \cup SoundPlaces]
        /\ pc'["main"] = "seqEnds" /\ pc'["sound"] = pc["sound"]
        /\ target' \in [Client -> Task \cup {NULL}] /\ target'["main"] = t
    <3>1. target' \in [Client -> Task \cup {NULL}] /\ target'["main"] = t
      BY <2>1, Sorts DEF SndInv, ClientInv
    <3> QED
      BY <2>1, <3>1, Goes, Sorts DEF MainPlaces
  <2>3. ClientInv'
    BY <1>1, <1>3, <2>1, <2>2, Sorts
       DEF SndInv, ClientInv, MainPlaces, Stops, Ending, Waits
  <2>4. LifeInv'
    BY <1>1, <2>2 DEF SndInv, LifeInv, StrmStops, Stops
  <2>5. HeaderInv'
    BY <1>3, <2>2, Sorts DEF SndInv, HeaderInv
  <2>6. SeqInv'
    <3>1. /\ seq' \in [SeqTask -> [state : {"free", "loading", "prepared"},
                                   callback : BOOLEAN]]
          /\ \A u \in SeqTask : seq'[u].state = seq[u].state
      BY <2>1 DEF SndInv, SeqInv
    <3> QED
      BY <1>1, <1>3, <2>2, <3>1 DEF SndInv, SeqInv
  <2> QED
    BY <1>3, <1>5, <2>3, <2>4, <2>5, <2>6 DEF SndInv
<1>7. CASE tm.current # t
  <2>1. /\ seq' = [seq EXCEPT ![t].state = "free"]
        /\ UNCHANGED <<waiting, pc, target>>
    BY <1>7 DEF SeqShutdown
  <2>2. ClientInv' /\ LifeInv' /\ HeaderInv'
    BY <1>1, <1>3, <2>1 DEF SndInv, ClientInv, LifeInv, StrmStops, HeaderInv
  <2>3. SeqInv'
    <3>1. /\ seq' \in [SeqTask -> [state : {"free", "loading", "prepared"},
                                   callback : BOOLEAN]]
          /\ \A u \in SeqTask : u # t => seq'[u] = seq[u]
      BY <2>1 DEF SndInv, SeqInv
    <3> QED
      BY <1>1, <1>3, <1>4, <1>7, <2>1, <3>1 DEF SndInv, SeqInv
  <2> QED
    BY <1>3, <1>5, <2>2, <2>3 DEF SndInv
<1> QED
  BY <1>6, <1>7

\* The load the main thread waited for has ended: the sound is free.
LEMMA SeqCloseStep ==
  ASSUME SndInv, SeqClose PROVE SndInv'
<1> DEFINE t == target["main"]
<1>1. /\ pc["main"] = "seqEnds" /\ ~Ready /\ "main" \notin waiting
      /\ tm.current # t /\ UNCHANGED <<tm, worker, waiting, strm>>
      /\ seq' = [seq EXCEPT ![t].state = "free"]
      /\ target' = [target EXCEPT !["main"] = NULL]
      /\ ClientGoes("main", "user")
  BY DEF SeqClose, Runs
<1>2. t \in SeqTask /\ ~Queued(t)
  BY <1>1 DEF SndInv, SeqInv
<1>3. ~Busy(t)
  BY <1>1, <1>2, WorkerIdle, Sorts DEF SndInv, Busy
<1>4. /\ WorkerInv' /\ ListInv'
      /\ At("blocks")' <=> At("blocks")
      /\ At("exited")' <=> At("exited")
      /\ \A u : (Queued(u)' <=> Queued(u)) /\ (Busy(u)' <=> Busy(u))
  BY <1>1, TasksSame
<1> HIDE DEF At, Busy, Queued, t
<1>5. /\ pc' \in [Client -> MainPlaces \cup SoundPlaces]
      /\ pc'["main"] = "user" /\ pc'["sound"] = pc["sound"]
  BY <1>1, Goes, Sorts DEF MainPlaces
<1>6. target' \in [Client -> Task \cup {NULL}]
  BY <1>1, Sorts DEF SndInv, ClientInv
<1>7. ClientInv'
  BY <1>1, <1>4, <1>5, <1>6, Sorts
     DEF SndInv, ClientInv, MainPlaces, Stops, Ending, Waits
<1>8. StrmType' /\ LoadInv'
  BY <1>1, <1>4 DEF SndInv, StrmType, LoadInv
<1>9. LifeInv'
  BY <1>1, <1>5 DEF SndInv, LifeInv, StrmStops, Stops
<1>10. HeaderInv'
  BY <1>4, <1>5, Sorts DEF SndInv, HeaderInv
<1>11. SeqInv'
  <2>1. /\ seq' \in [SeqTask -> [state : {"free", "loading", "prepared"},
                                 callback : BOOLEAN]]
        /\ \A u \in SeqTask : u # t => seq'[u] = seq[u]
    BY <1>1 DEF SndInv, SeqInv
  <2> QED
    BY <1>3, <1>4, <1>5, <2>1 DEF SndInv, SeqInv
<1> QED
  BY <1>4, <1>7, <1>8, <1>9, <1>10, <1>11 DEF SndInv

-----------------------------------------------------------------------------
(* The sound system goes down and comes up again. *)

\* The main thread goes on while the system goes down, and the sound thread has
\* ended.
LEMMA EndingKeeps ==
  ASSUME SndInv, NEW place \in Ending, ClientGoes("main", place),
         pc["main"] \in Ending \cup {"joinSound"}, pc["sound"] = "exited",
         place = "down" => At("exited")', At("exited") => At("exited")',
         \/ waiting' = waiting /\ "main" \notin waiting
         \/ waiting' = waiting \cup {"main"} /\ place = "awaitAll",
         UNCHANGED target,
         strm'.list = strm.list, strm'.registered = strm.registered,
         strm'.active = strm.active, strm'.alive = strm.alive,
         strm'.open = strm.open, strm'.started = strm.started,
         strm'.prepared = strm.prepared, strm'.channels = strm.channels,
         strm'.voice => strm.voice
  PROVE  /\ ClientInv' /\ LifeInv' /\ HeaderInv'
         /\ pc'["main"] # "seqEnds" /\ ~strm.active /\ strm.list = <<>>
<1>1. /\ pc' \in [Client -> MainPlaces \cup SoundPlaces]
      /\ pc'["main"] = place /\ pc'["sound"] = "exited"
  BY Goes, Sorts DEF Ending, MainPlaces
<1>2. ~strm.active /\ strm.list = <<>>
  BY DEF SndInv, LifeInv, LoadInv
<1> HIDE DEF At
<1>3. ClientInv'
  BY <1>1, Sorts DEF SndInv, ClientInv, MainPlaces, SoundPlaces, Stops, Ending, Waits
<1>4. LifeInv'
  BY <1>1, <1>2 DEF SndInv, LifeInv, StrmStops, Stops, Ending
<1>5. HeaderInv'
  BY <1>1, Sorts DEF HeaderInv, Ending
<1> QED
  BY <1>1, <1>2, <1>3, <1>4, <1>5 DEF Ending

\* The main thread waits: JoinSound and AwaitAll.
LEMMA JoinsStep ==
  ASSUME SndInv, JoinSound \/ AwaitAll PROVE SndInv'
<1>1. /\ UNCHANGED <<tm, worker, strm, target, seq>> /\ "main" \notin waiting
      /\ pc["main"] \in Ending \cup {"joinSound"} /\ pc["sound"] = "exited"
  BY DEF JoinSound, AwaitAll, Runs, Ending, SndInv, ClientInv
<1>2. At("exited")' <=> At("exited")
  BY <1>1 DEF At
<1>3. ASSUME NEW place \in {"cancelAll", "destroy"}, ClientGoes("main", place),
             waiting' = waiting
      PROVE  SndInv'
  <2> HIDE DEF At, Busy, Queued
  <2>1. /\ ClientInv' /\ LifeInv' /\ HeaderInv'
        /\ pc'["main"] # "seqEnds"
    BY <1>1, <1>2, <1>3, EndingKeeps DEF Ending
  <2>2. /\ WorkerInv' /\ ListInv'
        /\ At("blocks")' <=> At("blocks")
        /\ \A u : (Queued(u)' <=> Queued(u)) /\ (Busy(u)' <=> Busy(u))
    BY <1>1, TasksSame
  <2>3. StrmType' /\ LoadInv' /\ SeqInv'
    BY <1>1, <2>1, <2>2 DEF SndInv, StrmType, LoadInv, SeqInv
  <2> QED
    BY <2>1, <2>2, <2>3 DEF SndInv
<1>4. ASSUME pc["main"] = "awaitAll", waiting' = waiting \cup {"main"}, UNCHANGED pc
      PROVE  SndInv'
  <2> HIDE DEF At, Busy, Queued
  <2>1. ClientInv' /\ StrmType' /\ LifeInv'
    BY <1>1, <1>2, <1>4, Sorts
       DEF SndInv, ClientInv, StrmType, LifeInv, StrmStops, Waits
  <2> QED
    BY <1>1, <1>4, <2>1, ClientKeeps
<1> QED
  BY <1>3, <1>4 DEF JoinSound, AwaitAll

\* CancelAllTask empties the lists, and the main thread waits for the task that
\* is executed.
LEMMA CancelAllTaskStep ==
  ASSUME SndInv, CancelAllTask PROVE SndInv'
<1> DEFINE m == [p \in TaskPriority |-> <<>>]
<1>1. /\ pc["main"] = "cancelAll" /\ "main" \notin waiting
      /\ tm' = [tm EXCEPT !.list = m] /\ UNCHANGED <<worker, target>>
      /\ strm' = [strm EXCEPT
                    !.list = Without(@, {t \in Task : Queued(t)}),
                    !.cancel = @ \/ tm.current \in {Header} \cup DataTask]
  BY DEF CancelAllTask, Runs
<1>2. pc["sound"] = "exited" /\ ~strm.active
  BY <1>1 DEF SndInv, ClientInv, LifeInv, Ending
<1>3. strm.list = <<>> /\ ~Busy(Header)
  BY <1>2 DEF SndInv, LoadInv
<1>4. Without(<<>>, {t \in Task : Queued(t)}) = <<>>
  <2>1. Range(<<>>) = {}
    BY DEF Range
  <2> QED
    BY <2>1 DEF Without
<1>5. strm' = [strm EXCEPT !.cancel = @ \/ tm.current \in {Header} \cup DataTask]
  BY <1>1, <1>3, <1>4 DEF SndInv, StrmType
<1>6. Lists(m) /\ \A u : ~Linked(m, u)
  BY Empty
<1> HIDE DEF m
<1>7. /\ tm'.list = m /\ tm'.current = tm.current
      /\ tm' \in [list : [TaskPriority -> Seq(Task)],
                  current : Task \cup {NULL},
                  cancelWait : BOOLEAN, finish : BOOLEAN]
  BY <1>1, <1>6 DEF SndInv, ListInv, Lists
<1>8. /\ WorkerInv' /\ \A u : Executes(u)' <=> Executes(u)
      /\ At("blocks")' <=> At("blocks")
      /\ At("exited")' <=> At("exited")
  BY <1>1, <1>7, WorkerWoken DEF SndInv
<1>9. \A u : ~Queued(u)'
  BY <1>6, <1>7 DEF Queued, Linked
<1>10. \A u : Busy(u)' <=> Executes(u)
  <2> HIDE DEF Queued, Executes
  <2> QED
    BY <1>8, <1>9 DEF Busy
<1>11. \A u : Executes(u) => Busy(u)
  BY DEF Busy
<1> HIDE DEF Queued, Executes, At, Busy
<1>12. ListInv'
  BY <1>6, <1>7, <1>9 DEF ListInv
<1>13. /\ StrmType' /\ strm'.list = strm.list
       /\ strm'.registered = strm.registered
       /\ strm'.active = strm.active /\ strm'.alive = strm.alive
       /\ strm'.open = strm.open /\ strm'.started = strm.started
       /\ strm'.prepared = strm.prepared /\ strm'.channels = strm.channels
       /\ strm'.voice = strm.voice /\ strm'.counter = strm.counter
  BY <1>5 DEF SndInv, StrmType
<1>14. /\ ClientInv' /\ LifeInv' /\ HeaderInv'
       /\ pc'["main"] # "seqEnds"
  <2>1. PICK place \in {"awaitAll", "destroy"} :
          /\ ClientGoes("main", place)
          /\ waiting' = IF place = "awaitAll" THEN waiting \cup {"main"}
                        ELSE waiting
    <3>1. CASE tm.current # NULL
      BY <3>1 DEF CancelAllTask
    <3>2. CASE tm.current = NULL
      BY <3>2 DEF CancelAllTask
    <3> QED
      BY <3>1, <3>2
  <2> QED
    BY <1>1, <1>2, <1>8, <1>13, <2>1, EndingKeeps DEF Ending
<1>15. LoadInv'
  <2>1. \A u \in DataTask : ~Busy(u)' /\ (u \in Range(strm.list) <=> Busy(u))
    BY <1>3, <1>10, <1>11 DEF SndInv, LoadInv, Range
  <2>2. ~Busy(Header)'
    BY <1>3, <1>10, <1>11
  <2>3. \A u \in DataTask : u \notin Range(strm.list)
    BY <1>3 DEF Range
  <2> QED
    BY <1>2, <1>3, <1>8, <1>13, <2>1, <2>2, <2>3 DEF SndInv, LoadInv
<1>16. SeqInv'
  <2> DEFINE told == [t \in SeqTask |->
                        IF Queued(t) THEN Notified(seq[t], FALSE) ELSE seq[t]]
  <2>1. seq' = SeqOnCancel(told, tm.current)
    BY DEF CancelAllTask
  <2>2. /\ told \in [SeqTask -> [state : {"free", "loading", "prepared"},
                                 callback : BOOLEAN]]
        /\ \A t \in SeqTask : ~Queued(t) => told[t] = seq[t]
    BY DEF SndInv, SeqInv, Notified
  <2> HIDE DEF told
  <2>3. /\ seq' \in [SeqTask -> [state : {"free", "loading", "prepared"},
                                 callback : BOOLEAN]]
        /\ \A t \in SeqTask : seq'[t].state = told[t].state
    BY <2>1, <2>2 DEF SeqOnCancel
  <2>4. ASSUME NEW t \in SeqTask, Busy(t)' PROVE seq'[t].state # "free"
    <3>1. Executes(t) /\ ~Queued(t)
      BY <1>10, <2>4, Sorts DEF SndInv, ListInv
    <3> QED
      BY <1>11, <2>2, <2>3, <3>1 DEF SndInv, SeqInv
  <2> QED
    BY <1>14, <2>3, <2>4 DEF SeqInv
<1> QED
  BY <1>8, <1>12, <1>13, <1>14, <1>15, <1>16 DEF SndInv

\* TaskThread::Destroy tells the task thread to end.
LEMMA DestroyStep ==
  ASSUME SndInv, Destroy PROVE SndInv'
<1>1. /\ pc["main"] = "destroy" /\ "main" \notin waiting
      /\ tm' = [[tm EXCEPT !.finish = TRUE] EXCEPT !.cancelWait = TRUE]
      /\ worker' = Woken(worker) /\ ClientGoes("main", "joinTask")
      /\ UNCHANGED <<waiting, strm, target, seq>>
  BY DEF Destroy, Runs, CancelWaitTask
<1>2. pc["sound"] = "exited"
  BY <1>1 DEF SndInv, ClientInv, Ending
<1>3. /\ tm'.list = tm.list /\ tm'.current = tm.current
      /\ tm' \in [list : [TaskPriority -> Seq(Task)],
                  current : Task \cup {NULL},
                  cancelWait : BOOLEAN, finish : BOOLEAN]
  BY <1>1 DEF SndInv, ListInv
<1>4. /\ WorkerInv' /\ \A u : Executes(u)' <=> Executes(u)
      /\ At("blocks")' <=> At("blocks")
      /\ At("exited")' <=> At("exited")
  BY <1>1, <1>3, WorkerWoken DEF SndInv
<1> HIDE DEF Queued, Executes, At, Busy
<1>5. /\ ListInv'
      /\ \A t \in Task : (Queued(t)' <=> Queued(t)) /\ (Busy(t)' <=> Busy(t))
  BY <1>3, <1>4, PlaceKeeps
<1>6. /\ ClientInv' /\ LifeInv' /\ HeaderInv'
      /\ pc'["main"] # "seqEnds"
  BY <1>1, <1>2, <1>4, EndingKeeps DEF Ending
<1>7. StrmType' /\ LoadInv'
  BY <1>1, <1>4, <1>5, LoadSame DEF SndInv, StrmType
<1>8. SeqInv'
  BY <1>1, <1>5, <1>6, SeqSame, Sorts DEF SndInv
<1> QED
  BY <1>4, <1>5, <1>6, <1>7, <1>8 DEF SndInv

\* The task thread has ended, and the voices are freed.
LEMMA JoinTaskStep ==
  ASSUME SndInv, JoinTask PROVE SndInv'
<1>1. /\ pc["main"] = "joinTask" /\ At("exited") /\ ClientGoes("main", "down")
      /\ strm' = [strm EXCEPT !.voice = FALSE]
      /\ UNCHANGED <<tm, worker, waiting, target, seq>>
  BY DEF JoinTask
<1>2. pc["sound"] = "exited" /\ "main" \notin waiting
  BY <1>1 DEF SndInv, ClientInv, Ending, Waits
<1>3. /\ WorkerInv' /\ ListInv'
      /\ At("blocks")' <=> At("blocks")
      /\ At("exited")' <=> At("exited")
      /\ \A u : (Queued(u)' <=> Queued(u)) /\ (Busy(u)' <=> Busy(u))
  BY <1>1, TasksSame
<1> HIDE DEF Queued, At, Busy
<1>4. /\ StrmType' /\ strm'.list = strm.list
      /\ strm'.registered = strm.registered
      /\ strm'.active = strm.active /\ strm'.alive = strm.alive
      /\ strm'.open = strm.open /\ strm'.started = strm.started
      /\ strm'.prepared = strm.prepared /\ strm'.channels = strm.channels
      /\ ~strm'.voice /\ strm'.counter = strm.counter
  BY <1>1 DEF SndInv, StrmType
<1>5. /\ ClientInv' /\ LifeInv' /\ HeaderInv'
      /\ pc'["main"] # "seqEnds"
  BY <1>1, <1>2, <1>3, <1>4, EndingKeeps DEF Ending
<1>6. LoadInv' /\ SeqInv'
  BY <1>1, <1>3, <1>4, <1>5 DEF SndInv, LoadInv, SeqInv
<1> QED
  BY <1>3, <1>4, <1>5, <1>6 DEF SndInv

\* InitSoundSystem: two new threads, and nothing is left from before.
LEMMA InitSoundSystemStep ==
  ASSUME SndInv, InitSoundSystem PROVE SndInv'
<1>1. /\ pc["main"] = "down" /\ tm' = [tm EXCEPT !.finish = FALSE]
      /\ worker' = [at |-> "test", task |-> NULL]
      /\ pc' = [main |-> "user", sound |-> "idle"]
      /\ UNCHANGED <<waiting, strm, target, seq>>
  BY DEF InitSoundSystem
<1>2. /\ pc["sound"] = "exited" /\ At("exited") /\ ~strm.active /\ waiting = {}
  <2>1. pc["sound"] = "exited" /\ At("exited")
    BY <1>1 DEF SndInv, ClientInv, Ending
  <2>2. waiting = {}
    <3> SUFFICES ASSUME NEW c \in waiting PROVE FALSE
      OBVIOUS
    <3>1. pc[c] \in Waits /\ c \in {"main", "sound"}
      BY Sorts DEF SndInv, ClientInv
    <3> QED
      BY <1>1, <2>1, <3>1 DEF Waits
  <2> QED
    BY <2>1, <2>2 DEF SndInv, LifeInv
<1>3. worker.at = "exited" /\ tm.current = NULL /\ worker.task = NULL
  BY <1>2 DEF SndInv, WorkerInv, At, Idling
<1>4. /\ tm'.list = tm.list /\ tm'.current = NULL
      /\ tm' \in [list : [TaskPriority -> Seq(Task)],
                  current : Task \cup {NULL},
                  cancelWait : BOOLEAN, finish : BOOLEAN]
  BY <1>1, <1>3 DEF SndInv, ListInv
<1>5. WorkerInv'
  BY <1>1, <1>4 DEF WorkerInv, At, Idling, WorkerPlaces
<1>6. \A t \in Task : ~Executes(t)' /\ ~Executes(t)
  BY <1>1, <1>3 DEF Executes
<1>7. ~At("blocks")' /\ ~At("blocks")
  BY <1>1, <1>3 DEF At
<1> HIDE DEF Queued, Executes, At, Busy
<1>8. /\ ListInv'
      /\ \A t \in Task : (Queued(t)' <=> Queued(t)) /\ (Busy(t)' <=> Busy(t))
  BY <1>4, <1>5, <1>6, PlaceKeeps
<1>9. ClientInv'
  <2>1. /\ pc' \in [Client -> MainPlaces \cup SoundPlaces]
        /\ pc'["main"] = "user" /\ pc'["sound"] = "idle"
    BY <1>1, Sorts DEF MainPlaces, SoundPlaces
  <2> QED
    BY <1>1, <1>2, <2>1
       DEF SndInv, ClientInv, MainPlaces, SoundPlaces, Stops, Ending
<1>10. StrmType' /\ LifeInv'
  BY <1>1, <1>2 DEF SndInv, StrmType, LifeInv, StrmStops, Stops
<1>11. LoadInv'
  BY <1>1, <1>7, <1>8, LoadSame DEF SndInv
<1>12. HeaderInv'
  BY <1>1, Sorts DEF HeaderInv
<1>13. SeqInv'
  BY <1>1, <1>8, Sorts, SeqSame DEF SndInv
<1> QED
  BY <1>5, <1>8, <1>9, <1>10, <1>11, <1>12, <1>13 DEF SndInv

-----------------------------------------------------------------------------
(* The theorems. *)

\* Before the first call nothing is queued and nobody waits.
LEMMA InitSound ==
  ASSUME Init PROVE SndInv
<1>1. /\ tm = [list |-> [p \in TaskPriority |-> <<>>], current |-> NULL,
               cancelWait |-> FALSE, finish |-> FALSE]
      /\ worker = [at |-> "test", task |-> NULL] /\ waiting = {}
      /\ pc = [c \in Client |-> IF c = "main" THEN "user" ELSE "idle"]
      /\ target = [c \in Client |-> NULL]
      /\ seq = [t \in SeqTask |-> [state |-> "free", callback |-> FALSE]]
  BY DEF Init, TaskInit
<1>2. Lists(tm.list) /\ \A u : ~Linked(tm.list, u)
  BY <1>1, Empty
<1>3. \A u : ~Queued(u) /\ ~Executes(u) /\ ~Busy(u)
  BY <1>1, <1>2 DEF Busy, Queued, Linked, Executes
<1>4. WorkerInv
  BY <1>1 DEF WorkerInv, At, Idling, WorkerPlaces
<1>5. ListInv
  <2>1. tm.list \in [TaskPriority -> Seq(Task)]
    BY <1>2 DEF Lists
  <2> HIDE DEF Queued, Executes
  <2> QED
    BY <1>1, <1>2, <1>3, <2>1 DEF ListInv
<1>6. ClientInv
  BY <1>1, Sorts DEF ClientInv, MainPlaces, SoundPlaces, Stops, Ending
<1>7. StrmType /\ strm.list = <<>>
  <2>1. <<>> \in Seq(DataTask) /\ 0 \in 0 .. Blocks
    BY EmptySeq, Sorts
  <2> QED
    BY <2>1 DEF Init, StrmInit, StrmType
<1>8. LifeInv
  BY <1>1, Sorts DEF Init, StrmInit, LifeInv, StrmStops, Stops
<1>9. LoadInv
  <2>1. Range(<<>>) = {} /\ IsInjective(<<>>) /\ Len(<<>>) = 0
    BY DEF Range, IsInjective
  <2>2. strm.counter = 0
    BY DEF Init, StrmInit
  <2> HIDE DEF Busy
  <2> QED
    BY <1>3, <1>7, <2>1, <2>2 DEF LoadInv
<1>10. HeaderInv /\ SeqInv
  <2> HIDE DEF Busy, Queued
  <2> QED
    BY <1>1, <1>3, Sorts DEF HeaderInv, SeqInv
<1> QED
  BY <1>4, <1>5, <1>6, <1>7, <1>8, <1>9, <1>10 DEF SndInv

\* Every step keeps the invariant.
LEMMA NextSound ==
  ASSUME SndInv, [Next]_vars PROVE SndInv'
<1>1. CASE UNCHANGED vars
  <2>1. /\ WorkerInv' /\ ListInv'
        /\ At("blocks")' <=> At("blocks")
        /\ At("exited")' <=> At("exited")
        /\ \A u : (Queued(u)' <=> Queued(u)) /\ (Busy(u)' <=> Busy(u))
    BY <1>1, TasksSame DEF vars
  <2> HIDE DEF Queued, At, Busy
  <2>2. StrmType' /\ LifeInv' /\ LoadInv'
    BY <1>1, <2>1 DEF vars, SndInv, StrmType, LifeInv, StrmStops, LoadInv
  <2> QED
    BY <1>1, <2>1, <2>2, LoadKeeps DEF vars
<1>2. ASSUME StreamCalls, UNCHANGED seq PROVE SndInv'
  BY <1>2, PrepareStep, StartStep, EntersStep, UpdateBufferStep, ReleasesStep
     DEF StreamCalls
<1>3. ASSUME MainStops PROVE SndInv'
  BY <1>3, ReleasesStep, DestroyPlayerStep, SeqCloseStep DEF MainStops
<1>4. ASSUME SystemStops PROVE SndInv'
  BY <1>4, ReleasesStep, JoinsStep, CancelAllTaskStep, DestroyStep, JoinTaskStep
     DEF SystemStops
<1>5. ASSUME ShutdownSoundSystem PROVE SndInv'
  BY <1>5, EntersStep DEF ShutdownSoundSystem
<1> QED
  BY <1>1, <1>2, <1>3, <1>4, <1>5, WorksStep, LoadsStep, StreamStopsStep,
     SeqPrepareStep, SeqShutdownStep, InitSoundSystemStep DEF Next

\* The invariant holds in every state of every behaviour.
THEOREM SoundInvariant == Spec => []SndInv
BY InitSound, NextSound, PTL DEF Spec

\* The task thread reads only open files, and works only for sounds in use:
\* Stop and Shutdown wait for the end of a task that is executed
\* (TaskManager::CancelTask).
THEOREM FilesStayOpen == Spec => []WorkerFileOpen
<1>1. SndInv => WorkerFileOpen
  <2> SUFFICES ASSUME SndInv PROVE WorkerFileOpen
    OBVIOUS
  <2>1. \A t : Executes(t) => Busy(t)
    BY DEF Busy
  <2> HIDE DEF Executes, Busy
  <2>2. strm.active => strm.open
    BY DEF SndInv, LifeInv, StrmType
  <2>3. Busy(Header) => strm.active
    BY DEF SndInv, LoadInv
  <2>4. \A t \in DataTask : Busy(t) => strm.active
    <3>1. Range(<<>>) = {}
      BY DEF Range
    <3> QED
      BY <3>1 DEF SndInv, LoadInv
  <2>5. \A t \in SeqTask : Busy(t) => seq[t].state # "free"
    BY DEF SndInv, SeqInv
  <2> QED
    BY <2>1, <2>2, <2>3, <2>4, <2>5 DEF WorkerFileOpen
<1> QED
  BY <1>1, SoundInvariant, PTL

\* The fields have their types, a task is linked at most once, and the player's
\* list holds exactly the data tasks that are queued or executed, each once.
THEOREM DataTasksStayExact == Spec => []DataTasksExact
<1>1. SndInv => DataTasksExact
  <2> SUFFICES ASSUME SndInv PROVE DataTasksExact
    OBVIOUS
  <2> DEFINE h == tm.list["high"]
             i == tm.list["middle"]
             l == tm.list["low"]
  <2>1. TypeOK
    <3>1. /\ tm.list \in [TaskPriority -> Seq(Task)]
          /\ tm.cancelWait \in BOOLEAN /\ tm.finish \in BOOLEAN
      BY DEF SndInv, ListInv
    <3>2. /\ tm.current \in {NULL, worker.task}
          /\ worker.at \in WorkerPlaces /\ worker.task \in Task \cup {NULL}
      BY DEF SndInv, WorkerInv
    <3>3. /\ pc["main"] \in MainPlaces /\ pc["sound"] \in SoundPlaces
          /\ \A c \in waiting :
               pc[c] \in {"headerEnds", "dataEnds", "seqEnds", "awaitAll"}
      BY DEF SndInv, ClientInv, Waits
    <3>4. strm.counter \in 0 .. Blocks
      BY DEF SndInv, StrmType
    <3>5. \A t \in SeqTask : seq[t].state \in {"free", "loading", "prepared"}
      BY DEF SndInv, SeqInv
    <3> QED
      BY <3>1, <3>2, <3>3, <3>4, <3>5 DEF TypeOK
  <2>2. /\ h \in Seq(Task) /\ i \in Seq(Task) /\ l \in Seq(Task)
        /\ IsInjective(h) /\ IsInjective(i) /\ IsInjective(l)
        /\ Range(h) \cap Range(i) = {} /\ Range(h) \cap Range(l) = {}
        /\ Range(i) \cap Range(l) = {}
    <3>1. /\ Lists(tm.list) /\ "high" \in TaskPriority
          /\ "middle" \in TaskPriority /\ "low" \in TaskPriority
      BY DEF SndInv, ListInv, TaskPriority
    <3> QED
      BY <3>1 DEF Lists
  <2>3. IsInjective(h \o i \o l)
    <3> HIDE DEF h, i, l
    <3>1. /\ h \o i \in Seq(Task) /\ IsInjective(h \o i)
          /\ Range(h \o i) = Range(h) \cup Range(i)
      BY <2>2, ConcatInjective
    <3>2. Range(h \o i) \cap Range(l) = {}
      BY <2>2, <3>1
    <3> QED
      BY <2>2, <3>1, <3>2, ConcatInjective
  <2>4. /\ IsInjective(strm.list)
        /\ \A t \in DataTask : t \in Range(strm.list) <=> (Queued(t) \/ Executes(t))
    <3> HIDE DEF Queued, Executes
    <3> QED
      BY DEF SndInv, LoadInv, Busy
  <2> HIDE DEF Queued, Executes
  <2> QED
    BY <2>1, <2>3, <2>4 DEF DataTasksExact
<1> QED
  BY <1>1, SoundInvariant, PTL

\* A freed stream is unregistered, closed and silent, and no task of it is
\* queued or executed (~StrmPlayer).
THEOREM FreedStreamsAreClean == Spec => []FreedIsClean
<1>1. SndInv => FreedIsClean
  <2> SUFFICES ASSUME SndInv, ~strm.alive PROVE FreedIsClean
    BY DEF FreedIsClean
  <2>1. /\ ~strm.active /\ ~strm.registered /\ ~strm.open
        /\ ~strm.channels /\ ~strm.voice
    BY DEF SndInv, LifeInv, StrmType
  <2>2. strm.list = <<>> /\ ~Busy(Header)
    BY <2>1 DEF SndInv, LoadInv
  <2>3. \A t \in DataTask : ~Busy(t)
    <3>1. Range(<<>>) = {}
      BY DEF Range
    <3> QED
      BY <2>2, <3>1 DEF SndInv, LoadInv
  <2>4. \A t : ~Busy(t) => ~Queued(t) /\ ~Executes(t)
    BY DEF Busy
  <2> HIDE DEF Busy, Queued, Executes
  <2> QED
    BY <2>1, <2>2, <2>3, <2>4 DEF FreedIsClean
<1> QED
  BY <1>1, SoundInvariant, PTL
=============================================================================
