-------------------------- MODULE OSKernel_proofs ---------------------------
(***************************************************************************)
(* What the functions of the kernel do to the scheduler's data, for every  *)
(* set of threads, mutexes and queues and every number of priorities.      *)
(*                                                                         *)
(* A function of the kernel takes threads off their queues, changes them   *)
(* and puts them on other queues.  Good(kk, L) is what holds of the        *)
(* scheduler's data in between: every thread is where its state says, but  *)
(* for those of L, which are in no queue.  There is one lemma for each     *)
(* function, from SetRun to Terminate, which says that the data is good    *)
(* after it and which of its fields have changed.                          *)
(***************************************************************************)
EXTENDS OSThread, DataFacts, FiniteSetTheorems

-----------------------------------------------------------------------------
(* The list operations on mutexQueue. *)

\* Unlink removes one element of a list without duplicates and nothing else.
LEMMA UnlinkProperties ==
    ASSUME NEW S, NEW s \in Seq(S), IsInjective(s), NEW x \in Range(s)
    PROVE  /\ Unlink(s, x) \in Seq(S)
           /\ IsInjective(Unlink(s, x))
           /\ Range(Unlink(s, x)) = Range(s) \ {x}
<1> DEFINE i == CHOOSE n \in 1 .. Len(s) : s[n] = x
<1>1. i \in 1 .. Len(s) /\ s[i] = x
  BY DEF Range
<1>2. Unlink(s, x) = RemoveAt(s, i)
  BY DEF Unlink
<1> HIDE DEF i
<1> QED
  BY <1>1, <1>2, RemoveAtInjective

\* The fields of the mutexes have the values that the code gives them.
OwnershipType ==
    /\ owner \in [Mutex -> Thread \cup {NULL}]
    /\ lock \in [Mutex -> 0 .. MaxLock]
    /\ mutexQueue \in [Thread -> Seq(Mutex)]

-----------------------------------------------------------------------------
(* The invariant of the scheduler's data. *)

Queues == RunQueues \cup BlockingQueues

Kernel ==
    [current : Thread \cup {NULL}, RunQueueHint : BOOLEAN, Reschedule : Nat,
     RunQueueBits : SUBSET Priority, q : [Queues -> Seq(Thread)],
     state : [Thread -> States], suspend : [Thread -> Nat],
     base : [Thread -> Priority],
     priority : [Thread -> 0 .. OS_PRIORITY_MAX + 1],
     queue : [Thread -> Queues \cup {NULL}],
     mutex : [Thread -> Mutex \cup {NULL}],
     detached : SUBSET Thread, active : SUBSET Thread,
     alarms : SUBSET Thread]

\* The state of t asks for a place in the queue q.
In(kk, q, t) ==
    \/ /\ kk.state[t] = "READY" /\ kk.suspend[t] = 0
       /\ q = RunQueue(kk.priority[t])
    \/ kk.state[t] = "SLEEPING" /\ q = kk.queue[t]

\* The fields of a thread fit each other.
Sound(kk, t) ==
    /\ kk.state[t] = "READY" /\ kk.suspend[t] = 0
         => kk.queue[t] = RunQueue(kk.priority[t])
    /\ kk.state[t] = "SLEEPING" => kk.queue[t] \in BlockingQueues
    /\ kk.state[t] = "RUNNING" => t = kk.current /\ kk.suspend[t] = 0
    /\ kk.state[t] \in {"READY", "RUNNING", "SLEEPING"} /\ kk.suspend[t] = 0
         => kk.priority[t] \in Priority
    /\ kk.state[t] = "SLEEPING" /\ kk.suspend[t] > 0
         => kk.priority[t] = OS_PRIORITY_MAX + 1

SortedBy(s, prio) ==
    \A i, j \in DOMAIN s : i < j => prio[s[i]] <= prio[s[j]]

BitsExact(kk) ==
    kk.RunQueueBits = {p \in Priority : kk.q[RunQueue(p)] # <<>>}

Good(kk, L) ==
    /\ kk \in Kernel
    /\ \A q \in Queues : IsInjective(kk.q[q])
    /\ \A q \in Queues, t \in Thread :
         t \in Range(kk.q[q]) <=> t \notin L /\ In(kk, q, t)
    /\ BitsExact(kk)
    /\ \A q \in BlockingQueues : SortedBy(kk.q[q], kk.priority)
    /\ \A t \in Thread \ L : Sound(kk, t)

-----------------------------------------------------------------------------
(* Sequences. *)

\* InsertAt puts an element at a position and keeps the others in order.
LEMMA InsertAtProperties ==
  ASSUME NEW S, NEW s \in Seq(S), NEW i \in 1 .. Len(s) + 1, NEW e \in S
  PROVE  /\ InsertAt(s, i, e) \in Seq(S)
         /\ Len(InsertAt(s, i, e)) = Len(s) + 1
         /\ \A j \in 1 .. Len(s) + 1 :
              InsertAt(s, i, e)[j] = IF j < i THEN s[j]
                                     ELSE IF j = i THEN e ELSE s[j - 1]
<1> DEFINE a == SubSeq(s, 1, i - 1)
           b == <<e>>
           c == SubSeq(s, i, Len(s))
           n == Len(s)
<1>1. n \in Nat /\ i \in 1 .. n + 1
  OBVIOUS
<1>2. /\ a \in Seq(S) /\ Len(a) = i - 1
      /\ \A j \in 1 .. i - 1 : a[j] = s[j]
  BY <1>1, SubSeqProperties
<1>3. b \in Seq(S) /\ Len(b) = 1 /\ b[1] = e
  OBVIOUS
<1>4. /\ c \in Seq(S) /\ Len(c) = n - i + 1
      /\ \A j \in 1 .. n - i + 1 : c[j] = s[i + j - 1]
  <2>1. CASE i <= n
    BY <1>1, <2>1, SubSeqProperties
  <2>2. CASE i = n + 1
    BY <1>1, <2>2, SubSeqProperties
  <2> QED
    BY <1>1, <2>1, <2>2
<1>5. InsertAt(s, i, e) = a \o b \o c
  BY DEF InsertAt
<1> HIDE DEF a, b, c
<1> DEFINE d == a \o b
<1>6. /\ d \in Seq(S) /\ Len(d) = Len(a) + Len(b)
      /\ \A j \in 1 .. Len(a) + Len(b) :
           d[j] = IF j <= Len(a) THEN a[j] ELSE b[j - Len(a)]
  <2>1. a \in Seq(S) /\ b \in Seq(S)
    BY <1>2, <1>3
  <2> QED
    BY <2>1, ConcatProperties
<1> HIDE DEF d
<1>7. /\ d \o c \in Seq(S) /\ Len(d \o c) = Len(d) + Len(c)
      /\ \A j \in 1 .. Len(d) + Len(c) :
           (d \o c)[j] = IF j <= Len(d) THEN d[j] ELSE c[j - Len(d)]
  <2>1. d \in Seq(S) /\ c \in Seq(S)
    BY <1>4, <1>6
  <2> QED
    BY <2>1, ConcatProperties
<1> DEFINE r == d \o c
<1>8. r = InsertAt(s, i, e)
  BY <1>5 DEF d
<1> HIDE DEF r, n
<1>9. Len(d) = i /\ Len(d) + Len(c) = n + 1
  BY <1>1, <1>2, <1>3, <1>4, <1>6
<1>10. ASSUME NEW j \in 1 .. n + 1
       PROVE  r[j] = IF j < i THEN s[j] ELSE IF j = i THEN e ELSE s[j - 1]
  <2>1. r[j] = IF j <= i THEN d[j] ELSE c[j - i]
    BY <1>7, <1>9 DEF r
  <2>2. CASE j < i
    <3>1. d[j] = a[j] /\ a[j] = s[j]
      BY <1>1, <1>2, <1>3, <1>6, <2>2
    <3> QED
      BY <1>1, <2>1, <2>2, <3>1
  <2>3. CASE j = i
    <3>1. d[j] = b[j - (i - 1)] /\ j - (i - 1) = 1
      BY <1>1, <1>2, <1>3, <1>6, <2>3
    <3> QED
      BY <1>1, <1>3, <2>1, <2>3, <3>1
  <2>4. CASE j > i
    <3>1. j - i \in 1 .. n - i + 1 /\ i + (j - i) - 1 = j - 1
      BY <1>1, <2>4
    <3> QED
      BY <1>1, <1>4, <2>1, <2>4, <3>1
  <2> QED
    BY <1>1, <2>2, <2>3, <2>4
<1>11. Len(r) = n + 1 /\ r \in Seq(S)
  BY <1>7, <1>9 DEF r
<1> QED
  BY <1>8, <1>10, <1>11 DEF n

\* A list without duplicates stays one when a new element is inserted.
LEMMA InsertNewProperties ==
  ASSUME NEW S, NEW s \in Seq(S), IsInjective(s), NEW x \in S \ Range(s),
         NEW i \in 1 .. Len(s) + 1, NEW r, r = InsertAt(s, i, x)
  PROVE  r \in Seq(S) /\ IsInjective(r) /\ Range(r) = Range(s) \cup {x}
<1> DEFINE n == Len(s)
<1>1. DOMAIN s = 1 .. n /\ n \in Nat /\ i \in 1 .. n + 1
  OBVIOUS
<1>2. /\ r \in Seq(S) /\ Len(r) = n + 1
      /\ \A j \in 1 .. n + 1 : r[j] = IF j < i THEN s[j]
                                      ELSE IF j = i THEN x ELSE s[j - 1]
  <2>1. x \in S
    OBVIOUS
  <2>2. /\ InsertAt(s, i, x) \in Seq(S)
        /\ Len(InsertAt(s, i, x)) = Len(s) + 1
        /\ \A j \in 1 .. Len(s) + 1 :
             InsertAt(s, i, x)[j] = IF j < i THEN s[j]
                                    ELSE IF j = i THEN x ELSE s[j - 1]
    BY ONLY <2>1, s \in Seq(S), i \in 1 .. Len(s) + 1, InsertAtProperties
  <2> QED
    BY <2>2
<1>3. DOMAIN r = 1 .. n + 1
  BY <1>2
<1> HIDE DEF n
<1>4. \A j \in 1 .. n + 1 :
        /\ j < i => r[j] = s[j] /\ j \in 1 .. n
        /\ j = i => r[j] = x
        /\ j > i => r[j] = s[j - 1] /\ j - 1 \in 1 .. n
  BY <1>1, <1>2
<1>5. \A j \in 1 .. n : s[j] # x
  BY <1>1 DEF Range
<1>6. \A u, v \in 1 .. n : s[u] = s[v] => u = v
  BY <1>1 DEF IsInjective
<1>7. ASSUME NEW u \in 1 .. n + 1, NEW v \in 1 .. n + 1, r[u] = r[v]
      PROVE  u = v
  <2>1. CASE u = i \/ v = i
    BY <1>1, <1>4, <1>5, <1>7, <2>1
  <2>2. CASE u < i /\ v < i
    BY <1>4, <1>6, <1>7, <2>2
  <2>3. CASE u < i /\ v > i
    <3>1. s[u] = s[v - 1]
      BY <1>4, <1>7, <2>3
    <3>2. u = v - 1
      BY <1>4, <1>6, <2>3, <3>1
    <3> QED
      BY <1>1, <2>3, <3>2
  <2>4. CASE u > i /\ v < i
    <3>1. s[u - 1] = s[v]
      BY <1>4, <1>7, <2>4
    <3>2. u - 1 = v
      BY <1>4, <1>6, <2>4, <3>1
    <3> QED
      BY <1>1, <2>4, <3>2
  <2>5. CASE u > i /\ v > i
    <3>1. s[u - 1] = s[v - 1]
      BY <1>4, <1>7, <2>5
    <3>2. u - 1 = v - 1
      BY <1>4, <1>6, <2>5, <3>1
    <3> QED
      BY <3>2
  <2> QED
    BY <1>1, <2>1, <2>2, <2>3, <2>4, <2>5
<1>8. Range(r) = Range(s) \cup {x}
  <2>1. ASSUME NEW y \in Range(r) PROVE y \in Range(s) \cup {x}
    <3>1. PICK j \in 1 .. n + 1 : r[j] = y
      BY <1>3 DEF Range
    <3>2. CASE j = i
      BY <1>4, <3>1, <3>2
    <3>3. CASE j # i
      <4>1. \E h \in 1 .. n : s[h] = y
        BY <1>1, <1>4, <3>1, <3>3
      <4> QED
        BY <1>1, <4>1 DEF Range
    <3> QED
      BY <3>2, <3>3
  <2>2. ASSUME NEW y \in Range(s) PROVE y \in Range(r)
    <3>1. PICK j \in 1 .. n : s[j] = y
      BY <1>1 DEF Range
    <3>2. CASE j < i
      BY <1>1, <1>3, <1>4, <3>1, <3>2 DEF Range
    <3>3. CASE j >= i
      <4>1. j + 1 \in 1 .. n + 1 /\ j + 1 > i /\ (j + 1) - 1 = j
        BY <1>1, <3>3
      <4>2. r[j + 1] = y
        BY <1>4, <3>1, <4>1
      <4> QED
        BY <1>3, <4>1, <4>2 DEF Range
    <3> QED
      BY <1>1, <3>2, <3>3
  <2>3. x \in Range(r)
    BY <1>1, <1>3, <1>4 DEF Range
  <2> QED
    BY <2>1, <2>2, <2>3
<1> QED
  BY <1>2, <1>3, <1>7, <1>8 DEF IsInjective

\* The insertion by priority finds a place, and one that keeps the list in
\* order.
LEMMA InsertByPriorityProperties ==
  ASSUME NEW s \in Seq(Thread), IsInjective(s), NEW t \in Thread \ Range(s),
         NEW prio \in [Thread -> Nat], SortedBy(s, prio),
         NEW r, r = InsertByPriority(s, prio, t)
  PROVE  /\ r \in Seq(Thread) /\ IsInjective(r)
         /\ Range(r) = Range(s) \cup {t} /\ SortedBy(r, prio)
<1> DEFINE n == Len(s)
           later == {i \in 1 .. n : prio[s[i]] > prio[t]}
           i == IF later = {} THEN n + 1 ELSE Min(later)
<1>1. r = InsertAt(s, i, t)
  BY DEF InsertByPriority
<1>2. n \in Nat /\ DOMAIN s = 1 .. n /\ \A j \in 1 .. n : s[j] \in Thread
  OBVIOUS
<1>3. later # {} => Min(later) \in later /\ \A j \in later : Min(later) <= j
  <2> SUFFICES ASSUME later # {}
               PROVE  Min(later) \in later /\ \A j \in later : Min(later) <= j
    OBVIOUS
  <2>1. later \in SUBSET Nat
    BY <1>2
  <2> HIDE DEF later
  <2>2. \E m \in later : \A j \in later : m <= j
    BY <2>1, LeastElement
  <2> QED
    BY <2>2 DEF Min
<1>4. /\ i \in 1 .. n + 1
      /\ \A j \in 1 .. n : j < i => prio[s[j]] <= prio[t]
      /\ i <= n => prio[s[i]] > prio[t]
  <2>1. CASE later = {}
    BY <1>2, <2>1
  <2>2. CASE later # {}
    <3> DEFINE m == Min(later)
    <3>1. i = m /\ m \in 1 .. n /\ prio[s[m]] > prio[t]
          /\ \A j \in 1 .. n : prio[s[j]] > prio[t] => m <= j
      BY <1>3, <2>2
    <3> HIDE DEF m
    <3>2. ASSUME NEW j \in 1 .. n, j < m PROVE prio[s[j]] <= prio[t]
      <4>1. ~(prio[s[j]] > prio[t])
        BY <1>2, <3>1, <3>2
      <4> QED
        BY <1>2, <4>1
    <3>3. m \in 1 .. n + 1 /\ (m <= n => prio[s[m]] > prio[t])
      BY <1>2, <3>1
    <3> HIDE DEF i
    <3> QED
      BY <3>1, <3>2, <3>3
  <2> QED
    BY <2>1, <2>2
<1> HIDE DEF i, later
<1>5. /\ r \in Seq(Thread) /\ IsInjective(r)
      /\ Range(r) = Range(s) \cup {t}
  BY <1>1, <1>4, InsertNewProperties
<1>6. /\ Len(r) = n + 1
      /\ \A j \in 1 .. n + 1 : r[j] = IF j < i THEN s[j]
                                      ELSE IF j = i THEN t ELSE s[j - 1]
  <2>1. i \in 1 .. Len(s) + 1 /\ t \in Thread
    BY <1>4
  <2>2. /\ Len(InsertAt(s, i, t)) = Len(s) + 1
        /\ \A j \in 1 .. Len(s) + 1 :
             InsertAt(s, i, t)[j] = IF j < i THEN s[j]
                                    ELSE IF j = i THEN t ELSE s[j - 1]
    BY ONLY <2>1, s \in Seq(Thread), InsertAtProperties
  <2> QED
    BY <1>1, <2>2
<1>7. DOMAIN r = 1 .. n + 1
  BY <1>5, <1>6
<1> HIDE DEF n
<1>8. \A u, v \in 1 .. n : u < v => prio[s[u]] <= prio[s[v]]
  BY <1>2 DEF SortedBy
<1>9. \A j \in 1 .. n : prio[s[j]] \in Nat /\ prio[t] \in Nat
  BY <1>2
<1>10. \A j \in 1 .. n : j >= i => prio[t] <= prio[s[j]]
  <2> SUFFICES ASSUME NEW j \in 1 .. n, j >= i PROVE prio[t] <= prio[s[j]]
    OBVIOUS
  <2>1. i \in 1 .. n /\ prio[s[i]] > prio[t]
    BY <1>2, <1>4
  <2>2. j = i \/ prio[s[i]] <= prio[s[j]]
    BY <1>8, <2>1
  <2> QED
    BY <1>9, <2>1, <2>2
<1>11. ASSUME NEW u \in 1 .. n + 1, NEW v \in 1 .. n + 1, u < v
       PROVE  prio[r[u]] <= prio[r[v]]
  <2>1. CASE v < i
    <3>1. r[u] = s[u] /\ r[v] = s[v] /\ u \in 1 .. n /\ v \in 1 .. n
      BY <1>2, <1>4, <1>6, <1>11, <2>1
    <3> QED
      BY <1>8, <1>11, <3>1
  <2>2. CASE v = i
    <3>1. r[u] = s[u] /\ r[v] = t /\ u \in 1 .. n
      BY <1>2, <1>4, <1>6, <1>11, <2>2
    <3> QED
      BY <1>4, <1>11, <2>2, <3>1
  <2>3. CASE u = i
    <3>1. r[u] = t /\ r[v] = s[v - 1] /\ v - 1 \in 1 .. n /\ v - 1 >= i
      BY <1>2, <1>4, <1>6, <1>11, <2>3
    <3> QED
      BY <1>10, <3>1
  <2>4. CASE u < i /\ v > i
    <3>1. r[u] = s[u] /\ r[v] = s[v - 1] /\ u \in 1 .. n /\ v - 1 \in 1 .. n
          /\ v - 1 >= i
      BY <1>2, <1>4, <1>6, <2>4
    <3>2. prio[s[u]] <= prio[t] /\ prio[t] <= prio[s[v - 1]]
      BY <1>4, <1>10, <2>4, <3>1
    <3> QED
      BY <1>9, <3>1, <3>2
  <2>5. CASE u > i
    <3>1. r[u] = s[u - 1] /\ r[v] = s[v - 1] /\ u - 1 \in 1 .. n
          /\ v - 1 \in 1 .. n /\ u - 1 < v - 1
      BY <1>2, <1>4, <1>6, <1>11, <2>5
    <3> QED
      BY <1>8, <3>1
  <2> QED
    BY <1>2, <1>4, <1>11, <2>1, <2>2, <2>3, <2>4, <2>5
<1>12. SortedBy(r, prio)
  BY <1>7, <1>11 DEF SortedBy
<1> QED
  BY <1>5, <1>12

\* Unlinking keeps the order, whatever becomes of the priority of the one that
\* is unlinked.
LEMMA UnlinkSorted ==
  ASSUME NEW s \in Seq(Thread), IsInjective(s), NEW t \in Range(s),
         NEW prio, SortedBy(s, prio), NEW new,
         \A u \in Thread \ {t} : new[u] = prio[u]
  PROVE  SortedBy(Unlink(s, t), new)
<1> DEFINE n == Len(s)
           i == CHOOSE j \in 1 .. Len(s) : s[j] = t
           r == Unlink(s, t)
<1>1. DOMAIN s = 1 .. n /\ n \in Nat /\ \A j \in 1 .. n : s[j] \in Thread
  OBVIOUS
<1>2. i \in 1 .. n /\ s[i] = t
  BY <1>1 DEF Range
<1>3. r = RemoveAt(s, i)
  BY DEF Unlink
<1> HIDE DEF i, r
<1>4. /\ r \in Seq(Thread) /\ Len(r) = n - 1
      /\ \A j \in 1 .. n - 1 : r[j] = IF j < i THEN s[j] ELSE s[j + 1]
  BY <1>2, <1>3, RemoveAtProperties
<1>5. DOMAIN r = 1 .. n - 1
  BY <1>4
<1> HIDE DEF n
<1>6. \A j \in 1 .. n : j # i => s[j] # t
  BY <1>1, <1>2 DEF IsInjective
<1> DEFINE f(j) == IF j < i THEN j ELSE j + 1
<1>7. \A j \in 1 .. n - 1 :
        f(j) \in 1 .. n /\ r[j] = s[f(j)] /\ s[f(j)] \in Thread \ {t}
  <2> TAKE j \in 1 .. n - 1
  <2>1. f(j) \in 1 .. n /\ r[j] = s[f(j)] /\ f(j) # i
    BY <1>1, <1>2, <1>4
  <2> HIDE DEF f
  <2> QED
    BY <1>1, <1>6, <2>1
<1>8. \A u, v \in 1 .. n - 1 : u < v => f(u) < f(v)
  BY <1>1, <1>2
<1> HIDE DEF f
<1>9. ASSUME NEW u \in 1 .. n - 1, NEW v \in 1 .. n - 1, u < v
      PROVE  new[r[u]] <= new[r[v]]
  <2>1. prio[s[f(u)]] <= prio[s[f(v)]]
    BY <1>1, <1>7, <1>8, <1>9 DEF SortedBy
  <2> QED
    BY <1>7, <2>1
<1> QED
  BY <1>5, <1>9 DEF SortedBy, r

\* A list is empty when it has no member.
LEMMA EmptyRange ==
  ASSUME NEW S, NEW s \in Seq(S)
  PROVE  s = <<>> <=> Range(s) = {}
<1>1. DOMAIN s = 1 .. Len(s) /\ Len(s) \in Nat
  OBVIOUS
<1>2. ASSUME s = <<>> PROVE Range(s) = {}
  BY <1>2 DEF Range
<1>3. ASSUME s # <<>> PROVE Range(s) # {}
  <2>1. Len(s) # 0
    BY <1>3, EmptySeq
  <2>2. 1 \in DOMAIN s
    BY <1>1, <2>1
  <2> QED
    BY <2>2 DEF Range
<1> QED
  BY <1>2, <1>3

-----------------------------------------------------------------------------
(* The queues and who is in them. *)

\* The names of the queues are different.
LEMMA QueueNames ==
  /\ \A p, r : RunQueue(p) = RunQueue(r) => p = r
  /\ \A t, u : JoinQueue(t) = JoinQueue(u) => t = u
  /\ \A m, n : MutexWait(m) = MutexWait(n) => m = n
  /\ \A p : RunQueue(p) \notin BlockingQueues
  /\ \A p \in Priority : RunQueue(p) \in Queues
  /\ \A t \in Thread : JoinQueue(t) \in BlockingQueues
  /\ \A m \in Mutex : MutexWait(m) \in BlockingQueues
  /\ \A u \in UserQueue : WaitQueue(u) \in BlockingQueues
  /\ \A t, m : JoinQueue(t) # MutexWait(m)
  /\ \A u, m : WaitQueue(u) # MutexWait(m)
  /\ \A u, t : WaitQueue(u) # JoinQueue(t)
  /\ BlockingQueues \subseteq Queues
BY DEF RunQueue, JoinQueue, MutexWait, WaitQueue, Queues, RunQueues,
       BlockingQueues

\* The fields of the scheduler's record.
LEMMA Fields ==
  ASSUME NEW kk \in Kernel
  PROVE  /\ kk.current \in Thread \cup {NULL} /\ kk.RunQueueHint \in BOOLEAN
         /\ kk.Reschedule \in Nat /\ kk.RunQueueBits \in SUBSET Priority
         /\ kk.q \in [Queues -> Seq(Thread)]
         /\ kk.state \in [Thread -> States] /\ kk.suspend \in [Thread -> Nat]
         /\ kk.base \in [Thread -> Priority]
         /\ kk.priority \in [Thread -> 0 .. OS_PRIORITY_MAX + 1]
         /\ kk.queue \in [Thread -> Queues \cup {NULL}]
         /\ kk.mutex \in [Thread -> Mutex \cup {NULL}]
         /\ kk.detached \in SUBSET Thread /\ kk.active \in SUBSET Thread
         /\ kk.alarms \in SUBSET Thread
BY DEF Kernel

\* The priorities are natural numbers, and every base priority is more urgent
\* than that of a suspended sleeper.
LEMMA PriorityNumbers ==
  /\ OS_PRIORITY_MAX \in Nat /\ Priority \subseteq Nat
  /\ 0 .. OS_PRIORITY_MAX + 1 \subseteq Nat
  /\ \A p : p \in Priority <=> p \in Nat /\ p <= OS_PRIORITY_MAX
  /\ \A p \in 0 .. OS_PRIORITY_MAX + 1 : p <= OS_PRIORITY_MAX + 1
BY KernelAssumption DEF Priority

\* Nothing that decides about the place of t is different.
SameAt(kk, r, t) ==
    /\ r.state[t] = kk.state[t] /\ r.suspend[t] = kk.suspend[t]
    /\ r.priority[t] = kk.priority[t] /\ r.queue[t] = kk.queue[t]

\* If only t has changed it is enough to look at t and its queues.
LEMMA Rebuild ==
  ASSUME NEW kk, NEW L, Good(kk, L), NEW r \in Kernel, NEW t \in Thread, NEW M,
         \A u \in Thread \ {t} :
            /\ SameAt(kk, r, u) /\ (u \in M <=> u \in L)
            /\ u \notin L /\ r.state[u] = "RUNNING" => u = r.current,
         \A q \in Queues :
            /\ IsInjective(r.q[q])
            /\ \A u \in Thread \ {t} :
                 u \in Range(r.q[q]) <=> u \in Range(kk.q[q])
            /\ t \in Range(r.q[q]) <=> t \notin M /\ In(r, q, t),
         BitsExact(r), \A q \in BlockingQueues : SortedBy(r.q[q], r.priority),
         t \notin M => Sound(r, t)
  PROVE  Good(r, M)
<1>1. ASSUME NEW q \in Queues, NEW u \in Thread
      PROVE  u \in Range(r.q[q]) <=> u \notin M /\ In(r, q, u)
  <2>1. CASE u = t
    BY <2>1
  <2>2. CASE u # t
    <3>1. In(r, q, u) <=> In(kk, q, u)
      BY <2>2 DEF In, SameAt
    <3>2. u \in Range(kk.q[q]) <=> u \notin L /\ In(kk, q, u)
      BY DEF Good
    <3> QED
      BY <2>2, <3>1, <3>2
  <2> QED
    BY <2>1, <2>2
<1>2. ASSUME NEW u \in Thread \ M PROVE Sound(r, u)
  <2>1. CASE u = t
    BY <2>1
  <2>2. CASE u # t
    <3>1. u \notin L /\ SameAt(kk, r, u)
      BY <2>2
    <3>2. Sound(kk, u)
      BY <3>1 DEF Good
    <3>3. r.state[u] = "RUNNING" => u = r.current
      BY <2>2, <3>1
    <3> QED
      BY <3>1, <3>2, <3>3 DEF Sound, SameAt
  <2> QED
    BY <2>1, <2>2
<1> QED
  BY <1>1, <1>2 DEF Good

\* A thread asks for one place only.
LEMMA OneQueue ==
  ASSUME NEW kk, NEW t, NEW q, NEW p, In(kk, q, t), In(kk, p, t)
  PROVE  p = q
BY DEF In

\* An order is kept where the priorities are kept.
LEMMA SortedSame ==
  ASSUME NEW s \in Seq(Thread), NEW old, NEW new, SortedBy(s, old),
         \A u \in Range(s) : new[u] = old[u]
  PROVE  SortedBy(s, new)
BY DEF SortedBy, Range

\* Taking a thread off its queue.
LEMMA TakeOff ==
  ASSUME NEW kk, NEW L, Good(kk, L), NEW t \in Thread \ L,
         NEW q \in Queues, In(kk, q, t), NEW r \in Kernel,
         NEW s \in Seq(Thread), r.q = [kk.q EXCEPT ![q] = s],
         IsInjective(s), Range(s) = Range(kk.q[q]) \ {t},
         q \in BlockingQueues => SortedBy(s, r.priority), BitsExact(r),
         \A u \in Thread \ {t} : SameAt(kk, r, u), r.current = kk.current
  PROVE  Good(r, L \cup {t})
<1>1. /\ kk \in Kernel
      /\ \A p \in Queues : kk.q[p] \in Seq(Thread) /\ IsInjective(kk.q[p])
      /\ \A p \in Queues, u \in Thread :
           u \in Range(kk.q[p]) <=> u \notin L /\ In(kk, p, u)
      /\ \A p \in BlockingQueues : SortedBy(kk.q[p], kk.priority)
  BY Fields DEF Good
<1>2. /\ r.q[q] = s
      /\ \A p \in Queues \ {q} : r.q[p] = kk.q[p]
  BY <1>1, Fields
<1>3. t \in Range(kk.q[q]) /\ \A p \in Queues \ {q} : t \notin Range(kk.q[p])
  BY <1>1, OneQueue
<1>4. ASSUME NEW p \in Queues
      PROVE  /\ IsInjective(r.q[p]) /\ t \notin Range(r.q[p])
             /\ \A u \in Thread \ {t} :
                  u \in Range(r.q[p]) <=> u \in Range(kk.q[p])
  BY <1>1, <1>2, <1>3
<1>5. \A u \in Thread \ {t} : r.priority[u] = kk.priority[u]
  BY DEF SameAt
<1>6. ASSUME NEW p \in BlockingQueues
      PROVE  SortedBy(r.q[p], r.priority)
  <2>1. p \in Queues
    BY QueueNames
  <2>2. CASE p = q
    BY <1>2, <1>6, <2>2
  <2>3. CASE p # q
    <3>1. \A u \in Range(kk.q[p]) : u \in Thread \ {t}
      BY <1>1, <1>3, <2>1, <2>3 DEF Range
    <3>2. \A u \in Range(kk.q[p]) : r.priority[u] = kk.priority[u]
      BY <1>5, <3>1
    <3>3. /\ kk.q[p] \in Seq(Thread) /\ SortedBy(kk.q[p], kk.priority)
          /\ r.q[p] = kk.q[p]
      BY <1>1, <1>2, <1>6, <2>1, <2>3
    <3> QED
      BY <3>2, <3>3, SortedSame
  <2> QED
    BY <2>2, <2>3
<1> DEFINE M == L \cup {t}
<1>7. \A u \in Thread \ {t} :
         /\ SameAt(kk, r, u) /\ (u \in M <=> u \in L)
         /\ u \notin L /\ r.state[u] = "RUNNING" => u = r.current
  BY DEF Good, Sound, SameAt
<1>8. t \in M
  OBVIOUS
<1> HIDE DEF M
<1>9. Good(r, M)
  BY <1>4, <1>6, <1>7, <1>8, Rebuild
<1> QED
  BY <1>9 DEF M

\* Putting a thread on the queue its state asks for, or at another place of the
\* queue it is in.
LEMMA PutOn ==
  ASSUME NEW kk, NEW L, Good(kk, L), NEW t \in Thread,
         NEW q \in Queues, t \in L \/ In(kk, q, t),
         NEW r \in Kernel, NEW s \in Seq(Thread),
         r.q = [kk.q EXCEPT ![q] = s], IsInjective(s),
         Range(s) = Range(kk.q[q]) \cup {t},
         q \in BlockingQueues => SortedBy(s, r.priority),
         BitsExact(r), \A u \in Thread \ {t} : SameAt(kk, r, u),
         In(r, q, t), Sound(r, t), r.current = kk.current
  PROVE  Good(r, L \ {t})
<1>1. /\ kk \in Kernel
      /\ \A p \in Queues : kk.q[p] \in Seq(Thread) /\ IsInjective(kk.q[p])
      /\ \A p \in Queues \ {q} : t \notin Range(kk.q[p])
      /\ \A p \in BlockingQueues : SortedBy(kk.q[p], kk.priority)
  BY Fields, OneQueue DEF Good
<1>2. r.q[q] = s /\ \A p \in Queues \ {q} : r.q[p] = kk.q[p]
  BY <1>1, Fields
<1>3. ASSUME NEW p \in Queues
      PROVE  /\ IsInjective(r.q[p])
             /\ \A u \in Thread \ {t} :
                  u \in Range(r.q[p]) <=> u \in Range(kk.q[p])
             /\ t \in Range(r.q[p]) <=> In(r, p, t)
  <2>1. CASE p = q
    BY <1>2, <2>1
  <2>2. CASE p # q
    <3>1. ~In(r, p, t)
      BY <2>2, OneQueue
    <3> QED
      BY <1>1, <1>2, <2>2, <3>1
  <2> QED
    BY <2>1, <2>2
<1>4. ASSUME NEW p \in BlockingQueues
      PROVE  SortedBy(r.q[p], r.priority)
  <2>1. p \in Queues
    BY QueueNames
  <2>2. CASE p = q
    BY <1>2, <1>4, <2>2
  <2>3. CASE p # q
    <3>1. \A u \in Range(kk.q[p]) : u \in Thread \ {t}
      BY <1>1, <2>1, <2>3 DEF Range
    <3>2. \A u \in Range(kk.q[p]) : r.priority[u] = kk.priority[u]
      BY <3>1 DEF SameAt
    <3> QED
      BY <1>1, <1>2, <1>4, <2>1, <2>3, <3>2, SortedSame
  <2> QED
    BY <2>2, <2>3
<1> DEFINE M == L \ {t}
<1>5. \A u \in Thread \ {t} :
         /\ SameAt(kk, r, u) /\ (u \in M <=> u \in L)
         /\ u \notin L /\ r.state[u] = "RUNNING" => u = r.current
  BY DEF Good, Sound, SameAt
<1>6. t \notin M
  OBVIOUS
<1> HIDE DEF M
<1>7. Good(r, M)
  BY <1>3, <1>4, <1>5, <1>6, Rebuild
<1> QED
  BY <1>7 DEF M

\* Changing a thread that is in no queue, and the current thread.
LEMMA Change ==
  ASSUME NEW kk, NEW L, Good(kk, L), NEW t \in Thread, NEW M,
         t \in L \/ \A q \in Queues : ~In(kk, q, t),
         NEW r \in Kernel, r.q = kk.q, r.RunQueueBits = kk.RunQueueBits,
         \A u \in Thread \ {t} :
            /\ SameAt(kk, r, u) /\ (u \in M <=> u \in L)
            /\ u \notin L /\ r.state[u] = "RUNNING" => u = r.current,
         t \notin M => Sound(r, t) /\ \A q \in Queues : ~In(r, q, t)
  PROVE  Good(r, M)
<1>1. /\ kk \in Kernel
      /\ \A p \in Queues : kk.q[p] \in Seq(Thread) /\ IsInjective(kk.q[p])
      /\ \A p \in Queues : t \notin Range(kk.q[p])
      /\ \A p \in BlockingQueues : SortedBy(kk.q[p], kk.priority)
  BY Fields DEF Good
<1>2. BitsExact(r)
  BY DEF Good, BitsExact
<1>3. ASSUME NEW p \in BlockingQueues
      PROVE  SortedBy(r.q[p], r.priority)
  <2>1. p \in Queues
    BY QueueNames
  <2>2. \A u \in Range(kk.q[p]) : u \in Thread \ {t}
    BY <1>1, <2>1 DEF Range
  <2>3. \A u \in Range(kk.q[p]) : r.priority[u] = kk.priority[u]
    BY <2>2 DEF SameAt
  <2> QED
    BY <1>1, <1>3, <2>1, <2>3, SortedSame
<1> QED
  BY <1>1, <1>2, <1>3, Rebuild

\* Changing nothing but the fields that do not decide about places.
LEMMA Unmoved ==
  ASSUME NEW kk, NEW L, Good(kk, L),
         NEW r \in Kernel, r.q = kk.q, r.RunQueueBits = kk.RunQueueBits,
         \A u \in Thread :
            /\ SameAt(kk, r, u)
            /\ u \notin L /\ r.state[u] = "RUNNING" => u = r.current
  PROVE  Good(r, L)
<1>1. \A q \in Queues, t \in Thread : In(r, q, t) <=> In(kk, q, t)
  BY DEF In, SameAt
<1>2. \A t \in Thread \ L : Sound(r, t)
  <2> TAKE t \in Thread \ L
  <2>1. Sound(kk, t) /\ SameAt(kk, r, t)
        /\ (r.state[t] = "RUNNING" => t = r.current)
    BY DEF Good
  <2> QED
    BY <2>1 DEF Sound, SameAt
<1>3. \A p \in BlockingQueues : SortedBy(r.q[p], r.priority)
  <2> TAKE p \in BlockingQueues
  <2>1. /\ p \in Queues /\ kk.q[p] \in Seq(Thread)
        /\ SortedBy(kk.q[p], kk.priority)
    BY QueueNames, Fields DEF Good
  <2>2. \A u \in Range(kk.q[p]) : r.priority[u] = kk.priority[u]
    BY <2>1 DEF Range, SameAt
  <2> QED
    BY <2>1, <2>2, SortedSame
<1>4. BitsExact(r)
  BY DEF Good, BitsExact
<1> QED
  BY <1>1, <1>2, <1>3, <1>4 DEF Good

-----------------------------------------------------------------------------
(* What the functions of the kernel leave as it was. *)

\* A preemption that is due is carried out or remembered.
Remembered(kk) ==
    kk.current \in Thread /\ kk.state[kk.current] = "RUNNING"
      => kk.RunQueueHint
           \/ \A p \in kk.RunQueueBits : kk.priority[kk.current] <= p

\* The fields that no function changes on the way.
Frame(kk, r) ==
    /\ r.Reschedule = kk.Reschedule /\ r.base = kk.base /\ r.mutex = kk.mutex
    /\ r.detached = kk.detached /\ r.active = kk.active
    /\ r.alarms = kk.alarms

\* Only priorities, and the places they decide about, have changed.
Repriced(kk, r) ==
    /\ Frame(kk, r) /\ r.current = kk.current
    /\ r.state = kk.state /\ r.suspend = kk.suspend
    /\ \A t \in Thread :
         kk.state[t] = "SLEEPING" => r.queue[t] = kk.queue[t]
    /\ kk.RunQueueHint => r.RunQueueHint
    /\ Remembered(kk) => Remembered(r)

\* One change of priorities after another.
LEMMA RepricedTrans ==
  ASSUME NEW a, NEW b, NEW c, Repriced(a, b), Repriced(b, c)
  PROVE  Repriced(a, c)
BY DEF Repriced, Frame

\* SetRun appends a ready thread to the run queue of its priority.
LEMMA SetRunEffect ==
  ASSUME NEW kk, NEW L, Good(kk, L), NEW t \in Thread, t \in L,
         kk.state[t] = "READY", kk.suspend[t] = 0, kk.priority[t] \in Priority,
         NEW r, r = SetRun(kk, t)
  PROVE  /\ Good(r, L \ {t}) /\ Frame(kk, r) /\ r.RunQueueHint
         /\ r.current = kk.current /\ r.state = kk.state
         /\ r.suspend = kk.suspend /\ r.priority = kk.priority
         /\ \A u \in Thread \ {t} : r.queue[u] = kk.queue[u]
<1> DEFINE p == kk.priority[t]
           q == RunQueue(p)
           s == Append(kk.q[q], t)
           b == kk.RunQueueBits \cup {p}
<1>1. /\ kk \in Kernel /\ p \in Priority
      /\ q \in Queues /\ q \notin BlockingQueues
  BY QueueNames DEF Good
<1>2. r = [kk EXCEPT !.queue = [kk.queue EXCEPT ![t] = q],
                     !.q = [kk.q EXCEPT ![q] = s],
                     !.RunQueueBits = b,
                     !.RunQueueHint = TRUE]
  BY <1>1, Fields DEF SetRun
<1>3. /\ kk.q[q] \in Seq(Thread) /\ IsInjective(kk.q[q])
      /\ t \notin Range(kk.q[q])
  BY <1>1, Fields DEF Good
<1> HIDE DEF p, q
<1>4. s \in Seq(Thread) /\ IsInjective(s) /\ Range(s) = Range(kk.q[q]) \cup {t}
  BY <1>3, AppendNewProperties
<1>5. b \in SUBSET Priority /\ b = kk.RunQueueBits \cup {p}
  BY <1>1, Fields
<1> HIDE DEF s, b
<1>6. /\ r.queue = [kk.queue EXCEPT ![t] = q]
      /\ r.q = [kk.q EXCEPT ![q] = s]
      /\ r.RunQueueBits = b
      /\ r.RunQueueHint /\ r.current = kk.current
      /\ r.state = kk.state /\ r.suspend = kk.suspend
      /\ r.priority = kk.priority /\ Frame(kk, r)
  BY <1>1, <1>2 DEF Kernel, Frame
<1>7. /\ r.queue \in [Thread -> Queues \cup {NULL}]
      /\ r.q \in [Queues -> Seq(Thread)]
  <2>1. r.queue \in [Thread -> Queues \cup {NULL}]
    BY <1>1, <1>6, Fields
  <2>2. r.q \in [Queues -> Seq(Thread)]
    BY <1>1, <1>4, <1>6, Fields
  <2> QED
    BY <2>1, <2>2
<1>8. r \in Kernel
  BY <1>1, <1>2, <1>7, <1>5 DEF Kernel
<1>9. \A u \in Thread \ {t} : SameAt(kk, r, u) /\ r.queue[u] = kk.queue[u]
  BY <1>1, <1>6, Fields DEF SameAt
<1>10. BitsExact(r)
  <2>1. s # <<>>
    BY <1>3, <1>4, EmptyRange
  <2>2. /\ r.q[q] = s
        /\ \A x \in Priority \ {p} :
             r.q[RunQueue(x)] = kk.q[RunQueue(x)]
    BY <1>1, <1>6, Fields, QueueNames DEF q
  <2>3. kk.RunQueueBits = {x \in Priority : kk.q[RunQueue(x)] # <<>>}
    BY DEF Good, BitsExact
  <2> QED
    BY <1>1, <1>6, <1>5, <2>1, <2>2, <2>3 DEF BitsExact, q
<1>11. In(r, q, t) /\ Sound(r, t)
  <2>1. r.queue[t] = q
    BY <1>1, <1>6, Fields
  <2>2. q = RunQueue(r.priority[t])
    BY <1>6 DEF p, q
  <2> QED
    BY <1>1, <1>6, <2>1, <2>2 DEF In, Sound, p
<1>12. Good(r, L \ {t})
  BY <1>1, <1>4, <1>6, <1>8, <1>9, <1>10, <1>11, PutOn
<1> QED
  BY <1>6, <1>9, <1>12

\* UnsetRun takes a thread off its run queue, also one whose suspension count
\* was set just before.
LEMMA UnsetRunEffect ==
  ASSUME NEW k0, NEW L, Good(k0, L), NEW t \in Thread \ L,
         k0.state[t] = "READY", k0.suspend[t] = 0,
         NEW kk \in Kernel, kk.q = k0.q, kk.RunQueueBits = k0.RunQueueBits,
         kk.queue = k0.queue, kk.priority = k0.priority,
         kk.current = k0.current,
         \A u \in Thread \ {t} : SameAt(k0, kk, u),
         NEW r, r = UnsetRun(kk, t)
  PROVE  /\ Good(r, L \cup {t}) /\ Frame(kk, r)
         /\ r.current = kk.current /\ r.state = kk.state
         /\ r.suspend = kk.suspend /\ r.priority = kk.priority
         /\ r.RunQueueHint = kk.RunQueueHint
         /\ r.RunQueueBits \subseteq kk.RunQueueBits
         /\ \A u \in Thread \ {t} : r.queue[u] = kk.queue[u]
<1> DEFINE p == kk.priority[t]
           q == RunQueue(p)
           s == Unlink(kk.q[q], t)
           b == IF s = <<>> THEN kk.RunQueueBits \ {p} ELSE kk.RunQueueBits
<1>1. k0 \in Kernel /\ k0.queue[t] = q /\ p \in Priority
  BY DEF Good, Sound
<1>2. q \in Queues /\ q \notin BlockingQueues /\ kk.queue[t] = q
  BY <1>1, QueueNames
<1>3. r = [kk EXCEPT !.q = [kk.q EXCEPT ![q] = s],
                     !.RunQueueBits = b,
                     !.queue = [kk.queue EXCEPT ![t] = NULL]]
  BY <1>2, Fields DEF UnsetRun
<1>4. In(k0, q, t)
  BY DEF In
<1>5. kk.q[q] \in Seq(Thread) /\ IsInjective(kk.q[q]) /\ t \in Range(kk.q[q])
  BY <1>1, <1>2, <1>4, Fields DEF Good
<1> HIDE DEF p, q
<1>6. s \in Seq(Thread) /\ IsInjective(s) /\ Range(s) = Range(kk.q[q]) \ {t}
  BY <1>5, UnlinkProperties
<1> HIDE DEF s
<1>7. b \in SUBSET Priority /\ b \subseteq kk.RunQueueBits
  BY Fields
<1>8. BitsExact(kk)
  BY DEF Good, BitsExact
<1>9. kk.q[q] # <<>>
  BY <1>5, EmptyRange
<1>10. b = {x \in Priority : IF x = p THEN s # <<>>
                             ELSE kk.q[RunQueue(x)] # <<>>}
  BY <1>1, <1>8, <1>9 DEF BitsExact, q
<1> HIDE DEF b
<1>11. /\ r.queue = [kk.queue EXCEPT ![t] = NULL]
       /\ r.q = [kk.q EXCEPT ![q] = s]
       /\ r.RunQueueBits = b
       /\ r.RunQueueHint = kk.RunQueueHint /\ r.current = kk.current
       /\ r.state = kk.state /\ r.suspend = kk.suspend
       /\ r.priority = kk.priority /\ Frame(kk, r)
  BY <1>3 DEF Kernel, Frame
<1>12. /\ r.queue \in [Thread -> Queues \cup {NULL}]
       /\ r.q \in [Queues -> Seq(Thread)]
  <2>1. r.queue \in [Thread -> Queues \cup {NULL}]
    BY <1>11, Fields
  <2>2. r.q \in [Queues -> Seq(Thread)]
    <3>1. kk.q \in [Queues -> Seq(Thread)]
      BY Fields
    <3> QED
      BY <1>2, <1>6, <1>11, <3>1
  <2> QED
    BY <2>1, <2>2
<1>13. r \in Kernel
  BY <1>3, <1>7, <1>11, <1>12 DEF Kernel
<1>14. \A u \in Thread \ {t} : SameAt(k0, r, u) /\ r.queue[u] = kk.queue[u]
  BY <1>11, Fields DEF SameAt
<1>15. BitsExact(r)
  <2>1. /\ r.q[q] = s
        /\ \A x \in Priority \ {p} :
             r.q[RunQueue(x)] = kk.q[RunQueue(x)]
    BY <1>2, <1>11, Fields, QueueNames DEF q
  <2> QED
    BY <1>10, <1>11, <2>1 DEF BitsExact, q
<1>16. Good(r, L \cup {t})
  BY <1>2, <1>4, <1>6, <1>11, <1>13, <1>14, <1>15, TakeOff
<1> QED
  BY <1>7, <1>11, <1>14, <1>16

\* The current thread runs.
Fits(kk) == kk.current \in Thread => kk.state[kk.current] = "RUNNING"

\* No thread that could run is more urgent than the current one.
Settled(kk) ==
    kk.current \in Thread /\ kk.state[kk.current] = "RUNNING"
      => \A p \in kk.RunQueueBits : kk.priority[kk.current] <= p

\* What a call may do to other threads on its way: it wakes and switches, but
\* neither suspends nor ends a thread nor puts one to sleep.
Follows(kk, r) ==
    /\ Frame(kk, r)
    /\ \A t \in Thread :
         /\ r.suspend[t] <= kk.suspend[t]
         /\ Terminated(kk, t) \/ Terminated(r, t) => r.state[t] = kk.state[t]
         /\ r.state[t] = "SLEEPING"
              => kk.state[t] = "SLEEPING" /\ r.queue[t] = kk.queue[t]
    /\ kk.Reschedule > 0 => r.current = kk.current
    /\ \/ Fits(r)
       \/ /\ r.current = kk.current
          /\ r.state[r.current] = kk.state[r.current]
    /\ Remembered(kk) => Remembered(r)

\* One function after another.
LEMMA FollowsTrans ==
  ASSUME NEW a \in Kernel, NEW b \in Kernel, NEW c \in Kernel,
         Follows(a, b), Follows(b, c)
  PROVE  Follows(a, c)
<1>1. Frame(a, c)
  BY DEF Follows, Frame
<1>2. ASSUME NEW t \in Thread
      PROVE  /\ c.suspend[t] <= a.suspend[t]
             /\ Terminated(a, t) \/ Terminated(c, t) => c.state[t] = a.state[t]
             /\ c.state[t] = "SLEEPING"
                  => a.state[t] = "SLEEPING" /\ c.queue[t] = a.queue[t]
  <2>1. c.suspend[t] \in Nat /\ b.suspend[t] \in Nat /\ a.suspend[t] \in Nat
    BY Fields
  <2>2. c.suspend[t] <= b.suspend[t] /\ b.suspend[t] <= a.suspend[t]
    BY DEF Follows
  <2>3. Terminated(a, t) \/ Terminated(c, t) => c.state[t] = a.state[t]
    BY DEF Follows, Terminated
  <2>4. c.state[t] = "SLEEPING"
          => a.state[t] = "SLEEPING" /\ c.queue[t] = a.queue[t]
    BY DEF Follows
  <2> QED
    BY <2>1, <2>2, <2>3, <2>4
<1>3. a.Reschedule > 0 => c.current = a.current
  BY DEF Follows, Frame
<1>4. \/ Fits(c)
      \/ c.current = a.current /\ c.state[c.current] = a.state[c.current]
  BY DEF Follows, Fits
<1>5. Remembered(a) => Remembered(c)
  BY DEF Follows
<1> QED
  BY <1>1, <1>2, <1>3, <1>4, <1>5 DEF Follows

\* Doing nothing is one.
LEMMA FollowsSelf ==
  ASSUME NEW a \in Kernel
  PROVE  Follows(a, a)
<1>1. \A t \in Thread : a.suspend[t] <= a.suspend[t]
  BY Fields
<1> QED
  BY <1>1 DEF Follows, Frame

\* A change of priorities does no more.
LEMMA RepricedFollows ==
  ASSUME NEW a \in Kernel, NEW b, Repriced(a, b)
  PROVE  Follows(a, b)
<1>1. \A t \in Thread : b.suspend[t] <= a.suspend[t]
  BY Fields DEF Repriced
<1> QED
  BY <1>1 DEF Repriced, Follows, Terminated

-----------------------------------------------------------------------------
(* The switch. *)

\* SwitchThread loads a most urgent thread.
LEMMA SwitchEffect ==
  ASSUME NEW kk, Good(kk, {}), kk.RunQueueBits # {},
         \A u \in Thread : kk.state[u] # "RUNNING",
         NEW r, r = SwitchThread(kk)
  PROVE  /\ Good(r, {}) /\ Frame(kk, r)
         /\ r.current \in Thread /\ r.state[r.current] = "RUNNING"
         /\ kk.state[r.current] = "READY"
         /\ \A u \in Thread \ {r.current} :
              r.state[u] = kk.state[u] /\ r.queue[u] = kk.queue[u]
         /\ r.suspend = kk.suspend /\ r.priority = kk.priority
         /\ Settled(r)
<1> DEFINE p == Min(kk.RunQueueBits)
           q == RunQueue(p)
           next == Head(kk.q[q])
           s == Tail(kk.q[q])
           b == IF s = <<>> THEN kk.RunQueueBits \ {p} ELSE kk.RunQueueBits
           a == [kk EXCEPT !.q = [kk.q EXCEPT ![q] = s], !.RunQueueBits = b]
           c == [a EXCEPT !.RunQueueHint = FALSE,
                          !.queue = [kk.queue EXCEPT ![next] = NULL],
                          !.state = [kk.state EXCEPT ![next] = "RUNNING"],
                          !.current = next]
<1>1. kk \in Kernel /\ kk.RunQueueBits \in SUBSET Nat
  BY Fields, PriorityNumbers DEF Good
<1>2. p \in kk.RunQueueBits /\ \A x \in kk.RunQueueBits : p <= x
  <2>1. \E m \in kk.RunQueueBits : \A x \in kk.RunQueueBits : m <= x
    BY <1>1, LeastElement
  <2> QED
    BY <2>1 DEF Min
<1>3. /\ p \in Priority /\ q \in Queues /\ q \notin BlockingQueues
      /\ kk.q[q] # <<>> /\ kk.q[q] \in Seq(Thread) /\ IsInjective(kk.q[q])
  <2>1. p \in Priority
    BY <1>1, <1>2, Fields
  <2> HIDE DEF p
  <2>2. q \in Queues /\ q \notin BlockingQueues
    BY <2>1, QueueNames
  <2>3. kk.q[q] # <<>>
    BY <1>2, <2>1 DEF Good, BitsExact
  <2> HIDE DEF q
  <2> QED
    BY <1>1, <2>1, <2>2, <2>3, Fields DEF Good
<1>4. r = c
  BY <1>1, <1>3, Fields DEF SwitchThread
<1> HIDE DEF p
<1>5. \A x \in Priority : RunQueue(x) = q <=> x = p
  BY QueueNames
<1>6. BitsExact(kk)
  BY DEF Good
<1> HIDE DEF q
<1>7. /\ s \in Seq(Thread) /\ next \in Range(kk.q[q]) /\ IsInjective(s)
      /\ Range(s) = Range(kk.q[q]) \ {next}
  BY <1>3, TailProperties
<1>8. next \in Thread
  BY <1>3, <1>7 DEF Range
<1> HIDE DEF next, s
<1>9. /\ In(kk, q, next) /\ kk.state[next] = "READY"
      /\ kk.suspend[next] = 0 /\ kk.priority[next] = p
  <2>1. In(kk, q, next) /\ Sound(kk, next)
    BY <1>3, <1>7, <1>8 DEF Good
  <2>2. kk.state[next] # "SLEEPING"
    BY <1>3, <2>1 DEF In, Sound
  <2>3. q = RunQueue(kk.priority[next])
    BY <2>1, <2>2 DEF In
  <2> QED
    BY <2>1, <2>2, <2>3, QueueNames DEF In, q
<1>10. b \in SUBSET Priority /\ b \subseteq kk.RunQueueBits
  BY <1>1, Fields
<1>11. b = {x \in Priority : IF x = p THEN s # <<>>
                             ELSE kk.q[RunQueue(x)] # <<>>}
  BY <1>2, <1>3, <1>6 DEF BitsExact
<1> HIDE DEF b
<1>12. [kk.q EXCEPT ![q] = s] \in [Queues -> Seq(Thread)]
  BY <1>1, <1>3, <1>7, Fields
<1>13. a \in Kernel
  BY <1>1, <1>10, <1>12 DEF Kernel
<1>14. /\ a.q = [kk.q EXCEPT ![q] = s] /\ a.RunQueueBits = b
       /\ a.state = kk.state /\ a.suspend = kk.suspend
       /\ a.priority = kk.priority /\ a.queue = kk.queue
       /\ a.current = kk.current /\ Frame(kk, a)
  BY <1>1 DEF Kernel, Frame
<1>15. BitsExact(a)
  <2>1. /\ a.q[q] = s
        /\ \A x \in Priority \ {p} :
             a.q[RunQueue(x)] = kk.q[RunQueue(x)]
    BY <1>1, <1>3, <1>5, <1>14, Fields, QueueNames
  <2> QED
    BY <1>3, <1>5, <1>11, <1>14, <2>1 DEF BitsExact
<1>16. Good(a, {next})
  <2>1. \A u \in Thread \ {next} : SameAt(kk, a, u)
    BY <1>14 DEF SameAt
  <2>2. Good(a, {} \cup {next})
    BY <1>3, <1>7, <1>8, <1>9, <1>13, <1>14, <1>15, <2>1, TakeOff
  <2> QED
    BY <2>2
<1>17. /\ [kk.queue EXCEPT ![next] = NULL] \in [Thread -> Queues \cup {NULL}]
       /\ [kk.state EXCEPT ![next] = "RUNNING"] \in [Thread -> States]
  <2>1. kk.state \in [Thread -> States] /\ "RUNNING" \in States
    BY <1>1, Fields DEF States
  <2> QED
    BY <1>1, <2>1, Fields
<1>18. /\ c.q = a.q /\ c.RunQueueBits = a.RunQueueBits
       /\ c.state = [kk.state EXCEPT ![next] = "RUNNING"]
       /\ c.queue = [kk.queue EXCEPT ![next] = NULL]
       /\ c.suspend = a.suspend /\ c.priority = a.priority
       /\ c.current = next /\ Frame(a, c)
  BY <1>13 DEF Kernel, Frame
<1> HIDE DEF a
<1>19. c \in Kernel
  BY <1>8, <1>13, <1>17 DEF Kernel
<1> HIDE DEF c
<1>20. \A u \in Thread \ {next} :
          c.state[u] = kk.state[u] /\ c.queue[u] = kk.queue[u]
  BY <1>1, <1>18, Fields
<1>21. c.state[next] = "RUNNING"
  BY <1>1, <1>8, <1>18, Fields
<1>22. Good(c, {})
  <2>1. \A u \in Thread \ {next} :
           /\ SameAt(a, c, u) /\ (u \in {} <=> u \in {next})
           /\ u \notin {next} /\ c.state[u] = "RUNNING" => u = c.current
    BY <1>14, <1>18, <1>20 DEF SameAt
  <2>2. Sound(c, next)
    BY <1>3, <1>9, <1>14, <1>18, <1>21 DEF Sound
  <2>3. \A x \in Queues : ~In(c, x, next)
    BY <1>21 DEF In
  <2>4. next \in {next} /\ c.q = a.q /\ c.RunQueueBits = a.RunQueueBits
    BY <1>18
  <2> QED
    BY <1>8, <1>16, <1>19, <2>1, <2>2, <2>3, <2>4, Change
<1>23. Frame(kk, c)
  BY <1>14, <1>18 DEF Frame
<1>24. Settled(c)
  BY <1>2, <1>9, <1>10, <1>14, <1>18 DEF Settled
<1> QED
  BY <1>4, <1>8, <1>9, <1>14, <1>18, <1>20, <1>21, <1>22, <1>23, <1>24

\* The current thread goes back to its run queue before the switch.
LEMMA PreemptEffect ==
  ASSUME NEW kk, Good(kk, {}), kk.current \in Thread,
         kk.state[kk.current] = "RUNNING", NEW r,
         r = SetRun([kk EXCEPT !.state[kk.current] = "READY"], kk.current)
  PROVE  /\ Good(r, {}) /\ Frame(kk, r) /\ r.current = kk.current
         /\ r.state[kk.current] = "READY"
         /\ \A u \in Thread \ {kk.current} :
              r.state[u] = kk.state[u] /\ r.queue[u] = kk.queue[u]
         /\ r.suspend = kk.suspend /\ r.priority = kk.priority
<1> DEFINE t == kk.current
           x == [kk EXCEPT !.state = [kk.state EXCEPT ![t] = "READY"]]
<1>1. kk \in Kernel /\ Sound(kk, t)
  BY DEF Good
<1>2. r = SetRun(x, t)
  BY <1>1, Fields
<1>3. [kk.state EXCEPT ![t] = "READY"] \in [Thread -> States]
  <2>1. kk.state \in [Thread -> States] /\ "READY" \in States
    BY <1>1, Fields DEF States
  <2> QED
    BY <2>1
<1>4. /\ x.q = kk.q /\ x.RunQueueBits = kk.RunQueueBits
      /\ x.state = [kk.state EXCEPT ![t] = "READY"]
      /\ x.suspend = kk.suspend /\ x.priority = kk.priority
      /\ x.queue = kk.queue /\ x.current = t /\ Frame(kk, x)
  BY <1>1 DEF Kernel, Frame
<1>5. x \in Kernel
  BY <1>1, <1>3 DEF Kernel
<1> HIDE DEF x
<1>6. /\ x.state[t] = "READY"
      /\ \A u \in Thread \ {t} : x.state[u] = kk.state[u]
  BY <1>1, <1>4, Fields
<1>7. Good(x, {t})
  <2>1. \A u \in Thread \ {t} :
           /\ SameAt(kk, x, u) /\ (u \in {t} <=> u \in {})
           /\ u \notin {} /\ x.state[u] = "RUNNING" => u = x.current
    BY <1>4, <1>6 DEF SameAt, Good, Sound
  <2>2. \A q \in Queues : ~In(kk, q, t)
    BY DEF In
  <2>3. t \in Thread /\ t \in {t} /\ x.q = kk.q
        /\ x.RunQueueBits = kk.RunQueueBits
    BY <1>4
  <2> QED
    BY <1>5, <2>1, <2>2, <2>3, Change
<1>8. x.suspend[t] = 0 /\ x.priority[t] \in Priority
  BY <1>1, <1>4 DEF Sound
<1>9. /\ Good(r, {t} \ {t}) /\ Frame(x, r)
      /\ r.current = x.current /\ r.state = x.state
      /\ r.suspend = x.suspend /\ r.priority = x.priority
      /\ \A u \in Thread \ {t} : r.queue[u] = x.queue[u]
  <2> DEFINE L == {t}
  <2>1. t \in L /\ t \in Thread /\ Good(x, L)
    BY <1>7
  <2> HIDE DEF L, t
  <2>2. /\ Good(r, L \ {t}) /\ Frame(x, r)
        /\ r.current = x.current /\ r.state = x.state
        /\ r.suspend = x.suspend /\ r.priority = x.priority
        /\ \A u \in Thread \ {t} : r.queue[u] = x.queue[u]
    BY <1>2, <1>6, <1>8, <2>1, SetRunEffect
  <2> QED
    BY <2>2 DEF L
<1>10. Good(r, {})
  <2>1. {t} \ {t} = {}
    OBVIOUS
  <2> QED
    BY <1>9, <2>1
<1> QED
  BY <1>4, <1>6, <1>9, <1>10 DEF Frame

\* SelectThread leaves a most urgent thread running, unless the scheduler is
\* disabled, and moves the one that ran to its run queue.
LEMMA SelectEffect ==
  ASSUME NEW kk, Good(kk, {}), NEW yield \in BOOLEAN,
         NEW r, r = SelectThread(kk, yield)
  PROVE  /\ Good(r, {}) /\ Follows(kk, r)
         /\ kk.Reschedule = 0 => Fits(r) /\ Settled(r)
<1> DEFINE t == kk.current
           keeps == /\ kk.state[t] = "RUNNING"
                    /\ ~yield
                    /\ \A p \in kk.RunQueueBits : kk.priority[t] <= p
           stopped == IF kk.state[t] = "RUNNING"
                      THEN SetRun([kk EXCEPT !.state[t] = "READY"], t)
                      ELSE kk
<1>1. kk \in Kernel /\ NULL \notin Thread /\ t \in Thread \cup {NULL}
  BY Fields, KernelAssumption DEF Good
<1>2. CASE kk.Reschedule > 0 \/ t = NULL \/ keeps
  <2>1. r = kk
    BY <1>2 DEF SelectThread
  <2>2. t = NULL \/ keeps => Fits(kk) /\ Settled(kk)
    BY <1>1 DEF Fits, Settled
  <2>3. kk.Reschedule = 0 => Fits(kk) /\ Settled(kk)
    BY <1>2, <2>2
  <2> QED
    BY <1>1, <2>1, <2>3, FollowsSelf
<1>3. CASE ~(kk.Reschedule > 0 \/ t = NULL \/ keeps)
  <2>1. r = IF stopped.RunQueueBits = {}
            THEN [stopped EXCEPT !.current = NULL]
            ELSE SwitchThread(stopped)
    BY <1>3 DEF SelectThread
  <2>2. t \in Thread
    BY <1>1, <1>3
  <2>3. /\ Good(stopped, {}) /\ Frame(kk, stopped) /\ stopped.current = t
        /\ stopped.suspend = kk.suspend
        /\ \A u \in Thread : stopped.state[u] # "RUNNING"
        /\ \A u \in Thread :
             \/ /\ stopped.state[u] = kk.state[u]
                /\ stopped.queue[u] = kk.queue[u]
             \/ kk.state[u] = "RUNNING" /\ stopped.state[u] = "READY"
    <3>1. \A u \in Thread \ {t} : kk.state[u] # "RUNNING"
      BY DEF Good, Sound
    <3>2. CASE kk.state[t] = "RUNNING"
      <4>1. /\ Good(stopped, {}) /\ Frame(kk, stopped) /\ stopped.current = t
            /\ stopped.state[t] = "READY"
            /\ \A u \in Thread \ {t} : /\ stopped.state[u] = kk.state[u]
                                       /\ stopped.queue[u] = kk.queue[u]
            /\ stopped.suspend = kk.suspend
        BY <2>2, <3>2, PreemptEffect
      <4> HIDE DEF stopped
      <4> QED
        BY <3>1, <3>2, <4>1
    <3>3. CASE kk.state[t] # "RUNNING"
      <4>1. stopped = kk
        BY <3>3
      <4> HIDE DEF stopped
      <4> QED
        BY <3>1, <3>3, <4>1 DEF Frame
    <3> QED
      BY <3>2, <3>3
  <2> HIDE DEF stopped
  <2>4. CASE stopped.RunQueueBits = {}
    <3>1. r = [stopped EXCEPT !.current = NULL]
      BY <2>1, <2>4
    <3>2. stopped \in Kernel
      BY <2>3 DEF Good
    <3>3. /\ r.q = stopped.q /\ r.RunQueueBits = stopped.RunQueueBits
          /\ r.current = NULL
          /\ r.state = stopped.state /\ r.suspend = stopped.suspend
          /\ r.priority = stopped.priority /\ r.queue = stopped.queue
          /\ Frame(stopped, r)
      BY <3>1, <3>2 DEF Kernel, Frame
    <3>4. r \in Kernel
      BY <3>1, <3>2 DEF Kernel
    <3>5. \A u \in Thread :
            /\ SameAt(stopped, r, u)
            /\ u \notin {} /\ r.state[u] = "RUNNING" => u = r.current
      BY <2>3, <3>3 DEF SameAt
    <3>6. Good(r, {})
      BY <2>3, <3>3, <3>4, <3>5, Unmoved
    <3>7. Fits(r) /\ Settled(r) /\ Remembered(r)
      BY <1>1, <3>3 DEF Fits, Settled, Remembered
    <3>8. \A u \in Thread : r.suspend[u] <= kk.suspend[u]
      BY <1>1, <2>3, <3>3, Fields
    <3>9. \A u \in Thread :
            /\ Terminated(kk, u) \/ Terminated(r, u)
                 => r.state[u] = kk.state[u]
            /\ r.state[u] = "SLEEPING"
                 => kk.state[u] = "SLEEPING" /\ r.queue[u] = kk.queue[u]
      BY <2>3, <3>3 DEF Terminated
    <3>10. Follows(kk, r)
      BY <1>3, <2>3, <3>3, <3>7, <3>8, <3>9 DEF Follows, Frame
    <3> QED
      BY <3>6, <3>7, <3>10
  <2>5. CASE stopped.RunQueueBits # {}
    <3>1. r = SwitchThread(stopped)
      BY <2>1, <2>5
    <3>2. /\ Good(r, {}) /\ Frame(stopped, r)
          /\ r.current \in Thread /\ r.state[r.current] = "RUNNING"
          /\ stopped.state[r.current] = "READY"
          /\ \A u \in Thread \ {r.current} :
               r.state[u] = stopped.state[u] /\ r.queue[u] = stopped.queue[u]
          /\ r.suspend = stopped.suspend
          /\ Settled(r)
      BY <2>3, <2>5, <3>1, SwitchEffect
    <3>3. Fits(r) /\ Remembered(r)
      BY <3>2 DEF Fits, Settled, Remembered
    <3>4. \A u \in Thread : r.suspend[u] <= kk.suspend[u]
      BY <1>1, <2>3, <3>2, Fields
    <3>5. \A u \in Thread :
            /\ Terminated(kk, u) \/ Terminated(r, u)
                 => r.state[u] = kk.state[u]
            /\ r.state[u] = "SLEEPING"
                 => kk.state[u] = "SLEEPING" /\ r.queue[u] = kk.queue[u]
      <4> TAKE u \in Thread
      <4>1. CASE u = r.current
        BY <2>3, <3>2, <4>1 DEF Terminated
      <4>2. CASE u # r.current
        BY <2>3, <3>2, <4>2 DEF Terminated
      <4> QED
        BY <4>1, <4>2
    <3>6. Follows(kk, r)
      BY <1>3, <2>3, <3>2, <3>3, <3>4, <3>5 DEF Follows, Frame
    <3> QED
      BY <3>2, <3>3, <3>6
  <2> QED
    BY <2>4, <2>5
<1> QED
  BY <1>2, <1>3

\* __OSReschedule carries out a switch that the hint asks for.
LEMMA RescheduleEffect ==
  ASSUME NEW kk, Good(kk, {}), NEW r, r = __OSReschedule(kk)
  PROVE  /\ Good(r, {}) /\ Follows(kk, r)
         /\ kk.Reschedule = 0 /\ kk.RunQueueHint => Fits(r)
         /\ kk.Reschedule = 0 /\ Remembered(kk) => Settled(r)
<1>1. kk \in Kernel
  BY DEF Good
<1>2. CASE kk.RunQueueHint
  <2>1. r = SelectThread(kk, FALSE)
    BY <1>2 DEF __OSReschedule
  <2> QED
    BY <2>1, SelectEffect
<1>3. CASE ~kk.RunQueueHint
  <2>1. r = kk
    BY <1>3 DEF __OSReschedule
  <2>2. Remembered(kk) => Settled(kk)
    BY <1>3 DEF Remembered, Settled
  <2> QED
    BY <1>1, <1>3, <2>1, <2>2, FollowsSelf
<1> QED
  BY <1>2, <1>3

-----------------------------------------------------------------------------
(* Priorities. *)

\* An effective priority is that of a thread that is not suspended.
LEMMA EffectivePriorityType ==
  ASSUME NEW kk \in Kernel, NEW mq \in [Thread -> Seq(Mutex)], NEW t \in Thread
  PROVE  __OSGetEffectivePriority(kk, mq, t) \in Priority
<1> DEFINE waited == {m \in Range(mq[t]) : kk.q[MutexWait(m)] # <<>>}
           S == {kk.base[t]}
                  \cup {kk.priority[Head(kk.q[MutexWait(m)])] : m \in waited}
<1>1. kk.base[t] \in S /\ kk.base[t] \in Priority
  BY Fields
<1>2. ASSUME NEW m \in waited
      PROVE  kk.priority[Head(kk.q[MutexWait(m)])] \in Nat
  <2>1. m \in Mutex /\ kk.q[MutexWait(m)] # <<>>
    BY DEF Range
  <2>2. MutexWait(m) \in Queues
    BY <2>1, QueueNames
  <2>3. kk.q[MutexWait(m)] \in Seq(Thread)
    BY <2>2, Fields
  <2>4. Head(kk.q[MutexWait(m)]) \in Thread
    BY <2>1, <2>3, HeadTailProperties
  <2> QED
    BY <2>4, Fields, PriorityNumbers
<1>3. S \in SUBSET Nat
  BY <1>1, <1>2, PriorityNumbers
<1> HIDE DEF S
<1>4. \E x \in S : \A y \in S : x <= y
  BY <1>1, <1>3, LeastElement
<1>5. Min(S) \in S /\ \A y \in S : Min(S) <= y
  BY <1>4 DEF Min
<1>6. Min(S) \in Nat /\ Min(S) <= kk.base[t]
  BY <1>1, <1>3, <1>5
<1>7. Min(S) \in Priority
  BY <1>1, <1>6, PriorityNumbers
<1> QED
  BY <1>7 DEF __OSGetEffectivePriority, S

\* A sleeper that gets another priority goes to another place of its queue.
LEMMA RequeueEffect ==
  ASSUME NEW k0, NEW L, Good(k0, L), NEW t \in Thread \ L,
         k0.state[t] = "SLEEPING",
         NEW kk \in Kernel, kk.q = k0.q, kk.RunQueueBits = k0.RunQueueBits,
         kk.queue = k0.queue, kk.priority = k0.priority,
         kk.state = k0.state, kk.current = k0.current,
         \A u \in Thread \ {t} : SameAt(k0, kk, u),
         NEW p \in 0 .. OS_PRIORITY_MAX + 1,
         kk.suspend[t] = 0 => p \in Priority,
         kk.suspend[t] > 0 => p = OS_PRIORITY_MAX + 1,
         NEW r, r = Requeue(kk, t, p)
  PROVE  /\ Good(r, L) /\ Frame(kk, r)
         /\ r.current = kk.current /\ r.state = kk.state
         /\ r.suspend = kk.suspend /\ r.queue = kk.queue
         /\ r.RunQueueHint = kk.RunQueueHint
         /\ r.RunQueueBits = kk.RunQueueBits
         /\ r.priority[t] = p
         /\ \A u \in Thread \ {t} : r.priority[u] = kk.priority[u]
<1> DEFINE q == kk.queue[t]
           prio == [kk.priority EXCEPT ![t] = p]
           rest == Unlink(kk.q[q], t)
           s == InsertByPriority(rest, prio, t)
<1>1. q \in BlockingQueues /\ q \in Queues /\ In(k0, q, t)
  BY QueueNames DEF Good, Sound, In
<1>2. /\ kk.q[q] \in Seq(Thread) /\ IsInjective(kk.q[q])
      /\ t \in Range(kk.q[q]) /\ SortedBy(kk.q[q], kk.priority)
  BY <1>1, Fields DEF Good
<1>3. r = [kk EXCEPT !.priority = prio, !.q = [kk.q EXCEPT ![q] = s]]
  BY <1>1, Fields DEF Requeue
<1>4. prio \in [Thread -> 0 .. OS_PRIORITY_MAX + 1] /\ prio[t] = p
      /\ \A u \in Thread \ {t} : prio[u] = kk.priority[u]
  BY Fields
<1>5. prio \in [Thread -> Nat]
  BY <1>4, PriorityNumbers
<1> HIDE DEF prio, q
<1>6. /\ rest \in Seq(Thread) /\ IsInjective(rest)
      /\ Range(rest) = Range(kk.q[q]) \ {t}
  BY <1>2, UnlinkProperties
<1>7. SortedBy(rest, prio)
  BY <1>2, <1>4, UnlinkSorted
<1> HIDE DEF rest
<1>8. /\ s \in Seq(Thread) /\ IsInjective(s)
      /\ Range(s) = Range(rest) \cup {t} /\ SortedBy(s, prio)
  <2>1. t \in Thread \ Range(rest)
    BY <1>6
  <2> QED
    BY <1>5, <1>6, <1>7, <2>1, InsertByPriorityProperties
<1> HIDE DEF s
<1>9. Range(s) = Range(k0.q[q]) \cup {t}
  BY <1>2, <1>6, <1>8
<1>10. [kk.q EXCEPT ![q] = s] \in [Queues -> Seq(Thread)]
  BY <1>1, <1>8, Fields
<1>11. r \in Kernel
  BY <1>3, <1>4, <1>10 DEF Kernel
<1>12. /\ r.q = [kk.q EXCEPT ![q] = s] /\ r.priority = prio
       /\ r.current = kk.current /\ r.state = kk.state
       /\ r.suspend = kk.suspend /\ r.queue = kk.queue
       /\ r.RunQueueHint = kk.RunQueueHint
       /\ r.RunQueueBits = kk.RunQueueBits /\ Frame(kk, r)
  BY <1>3 DEF Kernel, Frame
<1>13. BitsExact(r)
  <2>1. \A x \in Priority : r.q[RunQueue(x)] = k0.q[RunQueue(x)]
    BY <1>1, <1>12, Fields, QueueNames
  <2> QED
    BY <1>12, <2>1 DEF BitsExact, Good
<1>14. \A u \in Thread \ {t} : SameAt(k0, r, u)
  BY <1>4, <1>12 DEF SameAt
<1>15. In(r, q, t) /\ Sound(r, t)
  <2>1. r.suspend[t] \in Nat
    BY <1>11, Fields
  <2> QED
    BY <1>1, <1>4, <1>12, <2>1 DEF In, Sound, q
<1>16. Good(r, L \ {t})
  BY <1>1, <1>8, <1>9, <1>11, <1>12, <1>13, <1>14, <1>15, PutOn
<1>17. L \ {t} = L
  OBVIOUS
<1> QED
  BY <1>4, <1>12, <1>16, <1>17

\* SetEffectivePriority keeps every thread where it belongs.
LEMMA SetEffectivePriorityEffect ==
  ASSUME NEW kk, NEW L, Good(kk, L), NEW t \in Thread \ L,
         kk.suspend[t] = 0, NEW p \in Priority,
         NEW r, r = SetEffectivePriority(kk, t, p)
  PROVE  Good(r, L) /\ Repriced(kk, r)
<1> DEFINE prio == [kk.priority EXCEPT ![t] = p]
<1>1. kk \in Kernel /\ p \in 0 .. OS_PRIORITY_MAX + 1 /\ Sound(kk, t)
  BY PriorityNumbers DEF Good
<1>2. prio \in [Thread -> 0 .. OS_PRIORITY_MAX + 1] /\ prio[t] = p
      /\ \A u \in Thread \ {t} : prio[u] = kk.priority[u]
  BY <1>1, Fields
<1>3. CASE kk.state[t] = "READY"
  <2> DEFINE a == UnsetRun(kk, t)
             b == [a EXCEPT !.priority = [a.priority EXCEPT ![t] = p]]
  <2>1. /\ Good(a, L \cup {t}) /\ Frame(kk, a)
        /\ a.current = kk.current /\ a.state = kk.state
        /\ a.suspend = kk.suspend /\ a.priority = kk.priority
        /\ \A u \in Thread \ {t} : a.queue[u] = kk.queue[u]
    <3>1. \A u \in Thread \ {t} : SameAt(kk, kk, u)
      BY DEF SameAt
    <3> QED
      BY <1>1, <1>3, <3>1, UnsetRunEffect
  <2>2. r = SetRun([a EXCEPT !.priority[t] = p], t)
    BY <1>3 DEF SetEffectivePriority
  <2> HIDE DEF a
  <2>3. a \in Kernel
    BY <2>1 DEF Good
  <2>4. r = SetRun(b, t)
    BY <2>2, <2>3, Fields
  <2>5. /\ b.q = a.q /\ b.RunQueueBits = a.RunQueueBits
        /\ b.state = a.state /\ b.suspend = a.suspend
        /\ b.queue = a.queue /\ b.current = a.current
        /\ b.priority = prio /\ Frame(a, b)
    BY <2>1, <2>3 DEF Kernel, Frame
  <2>6. b \in Kernel
    BY <1>2, <2>1, <2>3 DEF Kernel
  <2> HIDE DEF b, prio
  <2> DEFINE M == L \cup {t}
  <2>7. t \in M /\ M \ {t} = L /\ Good(a, M)
    BY <2>1
  <2> HIDE DEF M
  <2>8. Good(b, M)
    <3>1. \A u \in Thread \ {t} :
            /\ SameAt(a, b, u) /\ (u \in M <=> u \in M)
            /\ u \notin M /\ b.state[u] = "RUNNING" => u = b.current
      BY <1>2, <2>1, <2>5, <2>7 DEF SameAt, Good, Sound
    <3> QED
      BY <2>5, <2>6, <2>7, <3>1, Change
  <2>9. b.state[t] = "READY" /\ b.suspend[t] = 0 /\ b.priority[t] \in Priority
    BY <1>2, <1>3, <2>1, <2>5
  <2>10. /\ Good(r, M \ {t}) /\ Frame(b, r) /\ r.RunQueueHint
         /\ r.current = b.current /\ r.state = b.state
         /\ r.suspend = b.suspend
         /\ \A u \in Thread \ {t} : r.queue[u] = b.queue[u]
    BY <2>4, <2>7, <2>8, <2>9, SetRunEffect
  <2>11. \A u \in Thread :
           kk.state[u] = "SLEEPING" => r.queue[u] = kk.queue[u]
    BY <1>3, <2>1, <2>5, <2>10
  <2> QED
    BY <2>1, <2>5, <2>7, <2>10, <2>11 DEF Repriced, Frame, Remembered
<1>4. CASE kk.state[t] = "SLEEPING"
  <2>1. r = Requeue(kk, t, p)
    BY <1>4 DEF SetEffectivePriority
  <2>2. \A u \in Thread \ {t} : SameAt(kk, kk, u)
    BY DEF SameAt
  <2>3. /\ Good(r, L) /\ Frame(kk, r)
        /\ r.current = kk.current /\ r.state = kk.state
        /\ r.suspend = kk.suspend /\ r.queue = kk.queue
        /\ r.RunQueueHint = kk.RunQueueHint
        /\ r.RunQueueBits = kk.RunQueueBits
        /\ \A u \in Thread \ {t} : r.priority[u] = kk.priority[u]
    BY <1>1, <1>4, <2>1, <2>2, RequeueEffect
  <2>4. Remembered(kk) => Remembered(r)
    BY <1>4, <2>3 DEF Remembered
  <2> QED
    BY <2>3, <2>4 DEF Repriced
<1>5. CASE kk.state[t] = "RUNNING"
  <2>1. r = [kk EXCEPT !.RunQueueHint = TRUE, !.priority = prio]
    BY <1>1, <1>5, Fields DEF SetEffectivePriority
  <2>2. /\ r.q = kk.q /\ r.RunQueueBits = kk.RunQueueBits
        /\ r.state = kk.state /\ r.suspend = kk.suspend
        /\ r.queue = kk.queue /\ r.current = kk.current
        /\ r.priority = prio /\ r.RunQueueHint /\ Frame(kk, r)
    BY <1>1, <2>1 DEF Kernel, Frame
  <2>3. r \in Kernel
    BY <1>1, <1>2, <2>1, Zenon DEF Kernel
  <2> HIDE DEF prio
  <2>4. Sound(r, t) /\ \A q \in Queues : ~In(r, q, t) /\ ~In(kk, q, t)
    BY <1>1, <1>2, <1>5, <2>2 DEF Sound, In
  <2>5. \A u \in Thread \ {t} :
          /\ SameAt(kk, r, u) /\ (u \in L <=> u \in L)
          /\ u \notin L /\ r.state[u] = "RUNNING" => u = r.current
    BY <1>2, <2>2 DEF SameAt, Good, Sound
  <2>6. Good(r, L)
    BY <2>2, <2>3, <2>4, <2>5, Change
  <2> QED
    BY <2>2, <2>6 DEF Repriced, Remembered
<1>6. CASE kk.state[t] \notin {"READY", "SLEEPING", "RUNNING"}
  <2>1. r = kk
    BY <1>6 DEF SetEffectivePriority
  <2> QED
    BY <2>1 DEF Repriced, Frame
<1> QED
  BY <1>3, <1>4, <1>5, <1>6

-----------------------------------------------------------------------------
(* The walks. *)

\* A step of a walk at which the priority p is wanted.
WalkStep(s, p) ==
    IF \/ s.at = NULL
       \/ s.k.suspend[s.at] > 0
       \/ s.k.priority[s.at] = p
    THEN s
    ELSE [k  |-> SetEffectivePriority(s.k, s.at, p),
          at |-> BlockedBy(s.k, s.at)]

\* What the two walks want of the thread u.
EffectiveOf(s, u) == __OSGetEffectivePriority(s, mutexQueue, u)
AtMost(p, s, u) == IF s.priority[u] > p THEN p ELSE s.priority[u]

IsUpdate(f, kk, t) ==
    f = [n \in 0 .. WalkBound |->
           IF n = 0 THEN [k |-> kk, at |-> t]
           ELSE WalkStep(f[n - 1], EffectiveOf(f[n - 1].k, f[n - 1].at))]

IsPromotion(f, kk, t, p) ==
    f = [n \in 0 .. WalkBound |->
           IF n = 0 THEN [k |-> kk, at |-> t]
           ELSE WalkStep(f[n - 1], AtMost(p, f[n - 1].k, f[n - 1].at))]

\* UpdatePriority and __OSPromoteThread as sequences of steps.
LEMMA UpdateIsWalk ==
  ASSUME NEW kk, NEW t
  PROVE  UpdatePriority(kk, t) = (CHOOSE f : IsUpdate(f, kk, t))[WalkBound].k
BY DEF UpdatePriority, Walk, IsUpdate, WalkStep, EffectiveOf

\* The same for __OSPromoteThread.
LEMMA PromotionIsWalk ==
  ASSUME NEW kk, NEW t, NEW p
  PROVE  __OSPromoteThread(kk, t, p)
           = (CHOOSE f : IsPromotion(f, kk, t, p))[WalkBound].k
BY DEF __OSPromoteThread, Walk, IsPromotion, WalkStep, AtMost

\* The owners of waited for mutexes are threads.
LEMMA BlockedByType ==
  ASSUME OwnershipType, NEW kk \in Kernel, NEW t \in Thread
  PROVE  BlockedBy(kk, t) \in Thread \cup {NULL}
<1>1. kk.mutex[t] \in Mutex \cup {NULL}
  BY Fields
<1> QED
  BY <1>1 DEF BlockedBy, OwnershipType

\* The threads of C are not in L, and the walk does not leave them.
ClosedFor(C, kk, L) ==
    /\ C \subseteq Thread \ L
    /\ \A t \in C : BlockedBy(kk, t) \in C \cup {NULL}

\* The states of a walk through C that began in kk.
Reached(kk, L, C) ==
    {s \in [k : Kernel, at : C \cup {NULL}] :
       Good(s.k, L) /\ Repriced(kk, s.k)}

\* No step of a walk leaves them.
LEMMA WalkStepReaches ==
  ASSUME NEW kk, NEW L, NEW C, ClosedFor(C, kk, L),
         NEW s \in Reached(kk, L, C), NEW p,
         s.at # NULL /\ s.k.priority[s.at] # p => p \in Priority
  PROVE  WalkStep(s, p) \in Reached(kk, L, C)
<1> DEFINE x == SetEffectivePriority(s.k, s.at, p)
           b == BlockedBy(s.k, s.at)
<1>1. CASE \/ s.at = NULL \/ s.k.suspend[s.at] > 0 \/ s.k.priority[s.at] = p
  BY <1>1 DEF WalkStep
<1>2. CASE ~(\/ s.at = NULL \/ s.k.suspend[s.at] > 0 \/ s.k.priority[s.at] = p)
  <2>1. s.k \in Kernel /\ s.at \in C /\ Good(s.k, L) /\ Repriced(kk, s.k)
    BY <1>2 DEF Reached
  <2>2. s.at \in Thread \ L
    BY <2>1 DEF ClosedFor
  <2>3. s.k.suspend[s.at] = 0
    BY <1>2, <2>1, <2>2, Fields
  <2>4. Good(x, L) /\ Repriced(s.k, x)
    BY <1>2, <2>1, <2>2, <2>3, SetEffectivePriorityEffect
  <2> HIDE DEF x
  <2>5. x \in Kernel /\ Repriced(kk, x)
    BY <2>1, <2>4, RepricedTrans DEF Good
  <2>6. b = BlockedBy(kk, s.at)
    BY <2>1 DEF BlockedBy, Repriced, Frame
  <2>7. b \in C \cup {NULL}
    BY <2>1, <2>6 DEF ClosedFor
  <2>8. WalkStep(s, p) = [k |-> x, at |-> b]
    BY <1>2 DEF WalkStep, x
  <2> HIDE DEF b
  <2> QED
    BY <2>4, <2>5, <2>7, <2>8 DEF Reached
<1> QED
  BY <1>1, <1>2

\* The bound of the walks is a number.
LEMMA WalkBoundType == WalkBound \in Nat
<1>1. Cardinality(Thread) \in Nat
  BY KernelAssumption, FS_CardinalityType
<1> QED
  BY <1>1 DEF WalkBound

\* A walk begins at its first thread.
LEMMA FirstReached ==
  ASSUME NEW kk, NEW L, NEW C, Good(kk, L), NEW t \in C \cup {NULL}
  PROVE  [k |-> kk, at |-> t] \in Reached(kk, L, C)
BY DEF Reached, Good, Repriced, Frame

\* f is a walk through C that begins in kk at t and leaves r behind.
WalksTo(f, kk, L, C, t, r) ==
    /\ f[0] = [k |-> kk, at |-> t]
    /\ \A n \in 0 .. WalkBound : f[n] \in Reached(kk, L, C)
    /\ r = f[WalkBound].k

\* UpdatePriority walks, and wants the effective priority of every thread.
LEMMA UpdateWalks ==
  ASSUME OwnershipType, NEW kk, NEW L, Good(kk, L),
         NEW C, ClosedFor(C, kk, L), NEW t \in C \cup {NULL},
         NEW r, r = UpdatePriority(kk, t)
  PROVE  \E f : /\ WalksTo(f, kk, L, C, t, r)
                /\ \A n \in 1 .. WalkBound :
                     f[n] = WalkStep(f[n - 1],
                                     EffectiveOf(f[n - 1].k, f[n - 1].at))
<1> DEFINE S == Reached(kk, L, C)
           Wanted(s) == EffectiveOf(s.k, s.at)
           step == [s \in S |-> WalkStep(s, Wanted(s))]
           first == [k |-> kk, at |-> t]
           F == CHOOSE f : IsUpdate(f, kk, t)
<1>1. first \in S
  BY FirstReached
<1>2. ASSUME NEW s \in S PROVE WalkStep(s, Wanted(s)) \in S
  <2>1. s.at # NULL => Wanted(s) \in Priority
    <3>1. s.k \in Kernel /\ (s.at # NULL => s.at \in Thread)
      BY DEF Reached, ClosedFor
    <3> QED
      BY <3>1, EffectivePriorityType DEF EffectiveOf, OwnershipType
  <2> HIDE DEF Wanted
  <2> QED
    BY <2>1, WalkStepReaches
<1> HIDE DEF S, first
<1>3. step \in [S -> S]
  BY <1>2
<1>4. \E f : IsUpdate(f, kk, t)
  <2>1. PICK f \in [0 .. WalkBound -> S] : Iterates(f, first, step, WalkBound)
    BY <1>1, <1>3, WalkBoundType, Iteration
  <2>2. \A n \in 1 .. WalkBound : f[n] = WalkStep(f[n - 1], Wanted(f[n - 1]))
    <3> TAKE n \in 1 .. WalkBound
    <3>1. n - 1 \in 0 .. WalkBound
      BY WalkBoundType
    <3>2. f[n - 1] \in S
      BY <2>1, <3>1
    <3> QED
      BY <2>1, <3>2 DEF Iterates
  <2> DEFINE g == [n \in 0 .. WalkBound |->
                     IF n = 0 THEN first
                     ELSE WalkStep(f[n - 1], Wanted(f[n - 1]))]
  <2>3. \A n \in 0 .. WalkBound : f[n] = g[n]
    <3> TAKE n \in 0 .. WalkBound
    <3>1. CASE n = 0
      BY <2>1, <3>1 DEF Iterates
    <3>2. CASE n # 0
      <4>1. n \in 1 .. WalkBound
        BY <3>2, WalkBoundType
      <4> QED
        BY <2>2, <3>2, <4>1
    <3> QED
      BY <3>1, <3>2
  <2>4. f = g
    <3> HIDE DEF Wanted
    <3>1. DOMAIN g = 0 .. WalkBound /\ g = [n \in 0 .. WalkBound |-> g[n]]
      OBVIOUS
    <3> HIDE DEF g
    <3> QED
      BY <2>1, <2>3, <3>1
  <2>5. IsUpdate(f, kk, t)
    BY <2>4 DEF IsUpdate, first
  <2> QED
    BY <2>5
<1>5. IsUpdate(F, kk, t)
  BY <1>4
<1> HIDE DEF F
<1>6. F = [n \in 0 .. WalkBound |->
             IF n = 0 THEN first ELSE WalkStep(F[n - 1], Wanted(F[n - 1]))]
  BY <1>5 DEF IsUpdate, first
<1> HIDE DEF Wanted
<1>7. /\ F[0] = first
      /\ \A n \in 1 .. WalkBound : F[n] = WalkStep(F[n - 1], Wanted(F[n - 1]))
  <2>1. \A n \in 0 .. WalkBound :
          F[n] = IF n = 0 THEN first ELSE WalkStep(F[n - 1], Wanted(F[n - 1]))
    BY <1>6
  <2> QED
    BY <2>1, WalkBoundType
<1>8. \A n \in 0 .. WalkBound : F[n] \in S
  <2>1. F[0] \in S
    BY <1>1, <1>7
  <2>2. \A n \in 1 .. WalkBound : F[n - 1] \in S => F[n] \in S
    BY <1>2, <1>7
  <2> QED
    BY <2>1, <2>2, WalkBoundType, Reach
<1>9. r = F[WalkBound].k
  BY UpdateIsWalk DEF F
<1>10. WalksTo(F, kk, L, C, t, r)
  BY <1>7, <1>8, <1>9 DEF WalksTo, S, first
<1> QED
  BY <1>7, <1>10 DEF Wanted

\* A walk gives threads other priorities and places, no more.
LEMMA WalkEffect ==
  ASSUME NEW kk, NEW L, NEW C, NEW t, NEW r,
         NEW f, WalksTo(f, kk, L, C, t, r)
  PROVE  Good(r, L) /\ Repriced(kk, r)
<1>1. f[WalkBound] \in Reached(kk, L, C) /\ r = f[WalkBound].k
  BY WalkBoundType DEF WalksTo
<1> QED
  BY <1>1 DEF Reached

\* UpdatePriority does.
LEMMA UpdatePriorityEffect ==
  ASSUME OwnershipType, NEW kk, NEW L, Good(kk, L),
         NEW C, ClosedFor(C, kk, L), NEW t \in C \cup {NULL},
         NEW r, r = UpdatePriority(kk, t)
  PROVE  Good(r, L) /\ Repriced(kk, r)
<1>1. \E f : WalksTo(f, kk, L, C, t, r)
  BY UpdateWalks
<1> QED
  BY <1>1, WalkEffect

\* __OSPromoteThread walks, and wants no priority above p.
LEMMA PromotionWalks ==
  ASSUME NEW kk, NEW L, Good(kk, L), NEW p \in Priority,
         NEW C, ClosedFor(C, kk, L), NEW t \in C \cup {NULL},
         NEW r, r = __OSPromoteThread(kk, t, p)
  PROVE  \E f : /\ WalksTo(f, kk, L, C, t, r)
                /\ \A n \in 1 .. WalkBound :
                     f[n] = WalkStep(f[n - 1],
                                     AtMost(p, f[n - 1].k, f[n - 1].at))
<1> DEFINE S == Reached(kk, L, C)
           Wanted(s) == AtMost(p, s.k, s.at)
           step == [s \in S |-> WalkStep(s, Wanted(s))]
           first == [k |-> kk, at |-> t]
           F == CHOOSE f : IsPromotion(f, kk, t, p)
<1>1. first \in S
  BY FirstReached
<1>2. ASSUME NEW s \in S PROVE WalkStep(s, Wanted(s)) \in S
  <2>1. s.at # NULL /\ s.k.priority[s.at] # Wanted(s)
          => Wanted(s) \in Priority
    BY DEF AtMost
  <2> HIDE DEF Wanted
  <2> QED
    BY <2>1, WalkStepReaches
<1> HIDE DEF S, first
<1>3. step \in [S -> S]
  BY <1>2
<1>4. \E f : IsPromotion(f, kk, t, p)
  <2>1. PICK f \in [0 .. WalkBound -> S] : Iterates(f, first, step, WalkBound)
    BY <1>1, <1>3, WalkBoundType, Iteration
  <2>2. \A n \in 1 .. WalkBound : f[n] = WalkStep(f[n - 1], Wanted(f[n - 1]))
    <3> TAKE n \in 1 .. WalkBound
    <3>1. n - 1 \in 0 .. WalkBound
      BY WalkBoundType
    <3>2. f[n - 1] \in S
      BY <2>1, <3>1
    <3> QED
      BY <2>1, <3>2 DEF Iterates
  <2> DEFINE g == [n \in 0 .. WalkBound |->
                     IF n = 0 THEN first
                     ELSE WalkStep(f[n - 1], Wanted(f[n - 1]))]
  <2>3. \A n \in 0 .. WalkBound : f[n] = g[n]
    <3> TAKE n \in 0 .. WalkBound
    <3>1. CASE n = 0
      BY <2>1, <3>1 DEF Iterates
    <3>2. CASE n # 0
      <4>1. n \in 1 .. WalkBound
        BY <3>2, WalkBoundType
      <4> QED
        BY <2>2, <3>2, <4>1
    <3> QED
      BY <3>1, <3>2
  <2>4. f = g
    <3> HIDE DEF Wanted
    <3>1. DOMAIN g = 0 .. WalkBound /\ g = [n \in 0 .. WalkBound |-> g[n]]
      OBVIOUS
    <3> HIDE DEF g
    <3> QED
      BY <2>1, <2>3, <3>1
  <2>5. IsPromotion(f, kk, t, p)
    BY <2>4 DEF IsPromotion, first
  <2> QED
    BY <2>5
<1>5. IsPromotion(F, kk, t, p)
  BY <1>4
<1> HIDE DEF F
<1>6. F = [n \in 0 .. WalkBound |->
             IF n = 0 THEN first ELSE WalkStep(F[n - 1], Wanted(F[n - 1]))]
  BY <1>5 DEF IsPromotion, first
<1> HIDE DEF Wanted
<1>7. /\ F[0] = first
      /\ \A n \in 1 .. WalkBound : F[n] = WalkStep(F[n - 1], Wanted(F[n - 1]))
  <2>1. \A n \in 0 .. WalkBound :
          F[n] = IF n = 0 THEN first ELSE WalkStep(F[n - 1], Wanted(F[n - 1]))
    BY <1>6
  <2> QED
    BY <2>1, WalkBoundType
<1>8. \A n \in 0 .. WalkBound : F[n] \in S
  <2>1. F[0] \in S
    BY <1>1, <1>7
  <2>2. \A n \in 1 .. WalkBound : F[n - 1] \in S => F[n] \in S
    BY <1>2, <1>7
  <2> QED
    BY <2>1, <2>2, WalkBoundType, Reach
<1>9. r = F[WalkBound].k
  BY PromotionIsWalk DEF F
<1>10. WalksTo(F, kk, L, C, t, r)
  BY <1>7, <1>8, <1>9 DEF WalksTo, S, first
<1> QED
  BY <1>7, <1>10 DEF Wanted

\* Neither does __OSPromoteThread do more.
LEMMA PromotionEffect ==
  ASSUME NEW kk, NEW L, Good(kk, L), NEW p \in Priority,
         NEW C, ClosedFor(C, kk, L), NEW t \in C \cup {NULL},
         NEW r, r = __OSPromoteThread(kk, t, p)
  PROVE  Good(r, L) /\ Repriced(kk, r)
<1>1. \E f : WalksTo(f, kk, L, C, t, r)
  BY PromotionWalks
<1> QED
  BY <1>1, WalkEffect

\* Nothing that decides about places has changed.
LEMMA Alike ==
  ASSUME NEW kk, NEW L, Good(kk, L), NEW r \in Kernel,
         r.q = kk.q, r.RunQueueBits = kk.RunQueueBits,
         r.priority = kk.priority,
         \A u \in Thread, q \in Queues : In(r, q, u) <=> In(kk, q, u),
         \A u \in Thread \ L : Sound(r, u)
  PROVE  Good(r, L)
BY DEF Good, BitsExact

\* The set of all threads is closed under waiting.
LEMMA AllClosed ==
  ASSUME OwnershipType, NEW kk \in Kernel
  PROVE  ClosedFor(Thread, kk, {})
BY BlockedByType DEF ClosedFor

\* UpdateBlocker changes priorities only.
LEMMA UpdateBlockerEffect ==
  ASSUME OwnershipType, NEW kk, NEW L, Good(kk, L),
         NEW C, ClosedFor(C, kk, L), NEW t,
         kk.mutex[t] # NULL => owner[kk.mutex[t]] \in C \cup {NULL},
         NEW r, r = UpdateBlocker(kk, t)
  PROVE  Good(r, L) /\ Repriced(kk, r)
<1>1. CASE kk.mutex[t] = NULL
  <2>1. r = kk
    BY <1>1 DEF UpdateBlocker
  <2> QED
    BY <2>1 DEF Repriced, Frame
<1>2. CASE kk.mutex[t] # NULL
  <2>1. r = UpdatePriority(kk, owner[kk.mutex[t]])
    BY <1>2 DEF UpdateBlocker
  <2> QED
    BY <1>2, <2>1, UpdatePriorityEffect
<1> QED
  BY <1>1, <1>2

-----------------------------------------------------------------------------
(* Sleeping. *)

\* c sleeps in the queue q, and nothing else has happened.
FallsAsleep(kk, x, c, q) ==
    /\ x.suspend = kk.suspend /\ x.priority = kk.priority
    /\ x.current = kk.current /\ x.RunQueueHint /\ Frame(kk, x)
    /\ x.state[c] = "SLEEPING" /\ x.queue[c] = q
    /\ \A u \in Thread \ {c} :
         x.state[u] = kk.state[u] /\ x.queue[u] = kk.queue[u]

\* SleepThread puts the current thread in the queue, and then switches.
LEMMA SleepParts ==
  ASSUME NEW kk, Good(kk, {}), NEW c \in Thread, c = kk.current,
         kk.state[c] = "RUNNING", NEW q \in BlockingQueues,
         NEW r, r = SleepThread(kk, q)
  PROVE  \E x : /\ Good(x, {}) /\ FallsAsleep(kk, x, c, q)
                /\ r = __OSReschedule(x)
<1> DEFINE s == InsertByPriority(kk.q[q], kk.priority, c)
           x == [kk EXCEPT !.state = [kk.state EXCEPT ![c] = "SLEEPING"],
                           !.queue = [kk.queue EXCEPT ![c] = q],
                           !.q = [kk.q EXCEPT ![q] = s],
                           !.RunQueueHint = TRUE]
<1>1. kk \in Kernel /\ q \in Queues
  BY QueueNames DEF Good
<1>2. r = __OSReschedule(x)
  BY <1>1, Fields DEF SleepThread
<1>3. /\ kk.q[q] \in Seq(Thread) /\ IsInjective(kk.q[q])
      /\ c \notin Range(kk.q[q]) /\ SortedBy(kk.q[q], kk.priority)
      /\ Sound(kk, c)
  <2>1. ~In(kk, q, c)
    BY DEF In
  <2>2. c \notin Range(kk.q[q])
    BY <1>1, <2>1 DEF Good
  <2>3. kk.q[q] \in Seq(Thread) /\ Sound(kk, c)
    BY <1>1, Fields DEF Good
  <2> QED
    BY <1>1, <2>2, <2>3 DEF Good
<1>4. kk.priority \in [Thread -> Nat]
  BY <1>1, Fields, PriorityNumbers
<1>5. /\ s \in Seq(Thread) /\ IsInjective(s)
      /\ Range(s) = Range(kk.q[q]) \cup {c} /\ SortedBy(s, kk.priority)
  BY <1>3, <1>4, InsertByPriorityProperties
<1> HIDE DEF s
<1>6. /\ [kk.state EXCEPT ![c] = "SLEEPING"] \in [Thread -> States]
      /\ [kk.queue EXCEPT ![c] = q] \in [Thread -> Queues \cup {NULL}]
      /\ [kk.q EXCEPT ![q] = s] \in [Queues -> Seq(Thread)]
  <2>1. "SLEEPING" \in States /\ kk.state \in [Thread -> States]
    BY <1>1, Fields DEF States
  <2>2. [kk.q EXCEPT ![q] = s] \in [Queues -> Seq(Thread)]
    BY <1>1, <1>5, Fields
  <2> QED
    BY <1>1, <2>1, <2>2, Fields
<1>7. x \in Kernel
  BY <1>1, <1>6 DEF Kernel
<1>8. /\ x.q = [kk.q EXCEPT ![q] = s] /\ x.RunQueueBits = kk.RunQueueBits
      /\ x.state = [kk.state EXCEPT ![c] = "SLEEPING"]
      /\ x.queue = [kk.queue EXCEPT ![c] = q]
      /\ x.suspend = kk.suspend /\ x.priority = kk.priority
      /\ x.current = kk.current /\ x.RunQueueHint /\ Frame(kk, x)
  BY <1>1 DEF Kernel, Frame
<1> HIDE DEF x
<1>9. /\ x.state[c] = "SLEEPING" /\ x.queue[c] = q
      /\ \A u \in Thread \ {c} :
           x.state[u] = kk.state[u] /\ x.queue[u] = kk.queue[u]
  BY <1>1, <1>8, Fields
<1> DEFINE L == {c}
<1>10. Good(kk, L)
  <2>1. \A u \in Thread \ {c} :
          /\ SameAt(kk, kk, u) /\ (u \in L <=> u \in {})
          /\ u \notin {} /\ kk.state[u] = "RUNNING" => u = kk.current
    BY DEF SameAt, Good, Sound
  <2>2. c \in L
    OBVIOUS
  <2> HIDE DEF L
  <2>3. \A p \in Queues : ~In(kk, p, c)
    BY DEF In
  <2> QED
    BY <1>1, <2>1, <2>2, <2>3, Change
<1>11. c \in L /\ L \ {c} = {}
  OBVIOUS
<1> HIDE DEF L
<1>12. BitsExact(x)
  <2>1. \A p \in Priority : x.q[RunQueue(p)] = kk.q[RunQueue(p)]
    BY <1>1, <1>8, Fields, QueueNames
  <2> QED
    BY <1>8, <2>1 DEF BitsExact, Good
<1>13. \A u \in Thread \ {c} : SameAt(kk, x, u)
  BY <1>8, <1>9 DEF SameAt
<1>14. In(x, q, c) /\ Sound(x, c)
  BY <1>3, <1>8, <1>9 DEF In, Sound
<1>15. Good(x, L \ {c})
  BY <1>1, <1>5, <1>7, <1>8, <1>10, <1>11, <1>12, <1>13, <1>14, PutOn
<1>16. FallsAsleep(kk, x, c, q)
  BY <1>8, <1>9 DEF FallsAsleep
<1>17. Good(x, {})
  BY <1>11, <1>15
<1> QED
  BY <1>2, <1>16, <1>17

\* SleepThread puts the current thread, and no other, into the queue, and
\* switches.
LEMMA SleepEffect ==
  ASSUME NEW kk, Good(kk, {}), NEW c \in Thread, c = kk.current,
         kk.state[c] = "RUNNING", kk.Reschedule = 0,
         NEW q \in BlockingQueues, NEW r, r = SleepThread(kk, q)
  PROVE  /\ Good(r, {}) /\ Frame(kk, r) /\ Fits(r) /\ Settled(r)
         /\ \A t \in Thread :
              /\ r.suspend[t] <= kk.suspend[t]
              /\ Terminated(kk, t) \/ Terminated(r, t)
                   => r.state[t] = kk.state[t]
              /\ r.state[t] = "SLEEPING" =>
                   \/ kk.state[t] = "SLEEPING" /\ r.queue[t] = kk.queue[t]
                   \/ t = c /\ r.queue[t] = q
<1>1. PICK x : /\ Good(x, {}) /\ FallsAsleep(kk, x, c, q)
               /\ r = __OSReschedule(x)
  BY SleepParts
<1>2. r = __OSReschedule(x)
  BY <1>1
<1>3. /\ x.suspend = kk.suspend /\ x.priority = kk.priority
      /\ x.current = kk.current /\ x.RunQueueHint /\ Frame(kk, x)
  BY <1>1 DEF FallsAsleep
<1>4. /\ x.state[c] = "SLEEPING" /\ x.queue[c] = q
      /\ \A u \in Thread \ {c} :
           x.state[u] = kk.state[u] /\ x.queue[u] = kk.queue[u]
  BY <1>1 DEF FallsAsleep
<1>5. /\ Good(r, {}) /\ Follows(x, r) /\ Fits(r)
      /\ (Remembered(x) => Settled(r))
  BY <1>1, <1>2, <1>3, RescheduleEffect DEF Frame
<1>6. Remembered(x)
  BY <1>3 DEF Remembered
<1>7. ASSUME NEW t \in Thread
      PROVE  /\ r.suspend[t] <= kk.suspend[t]
             /\ Terminated(kk, t) \/ Terminated(r, t)
                  => r.state[t] = kk.state[t]
             /\ r.state[t] = "SLEEPING" =>
                  \/ kk.state[t] = "SLEEPING" /\ r.queue[t] = kk.queue[t]
                  \/ t = c /\ r.queue[t] = q
  BY <1>3, <1>4, <1>5 DEF Follows, Terminated
<1> QED
  BY <1>3, <1>5, <1>6, <1>7 DEF Follows, Frame

-----------------------------------------------------------------------------
(* Waking. *)

\* What OSWakeupThread does to one waiter.
Wake(s, t) ==
    LET r == [s EXCEPT !.state[t] = "READY"]
    IN  IF s.suspend[t] <= 0 THEN SetRun(r, t) ELSE r

\* f wakes the threads of seq at the places of a set, the last place last.
IsWaking(f, first, seq) ==
    f = [s \in SUBSET DOMAIN seq |->
           IF s = {} THEN first
           ELSE Wake(f[s \ {Max(s)}], seq[Max(s)])]

\* OSWakeupThread as a sequence of steps.
LEMMA WakeupIsFold ==
  ASSUME NEW kk, NEW q
  PROVE  WakeupThread(kk, q)
           = __OSReschedule(
               (CHOOSE f : IsWaking(f, [kk EXCEPT !.q[q] = <<>>], kk.q[q]))
                 [DOMAIN kk.q[q]])
BY DEF WakeupThread, FoldLeft, MapThenFoldSet, IsWaking, Wake

\* Max is the greatest place of a set of places.
LEMMA LastPlace ==
  ASSUME NEW n \in Nat, NEW s \in SUBSET (1 .. n), s # {}
  PROVE  Max(s) \in s /\ \A i \in s : i <= Max(s)
<1>1. \E m \in s : \A i \in s : m >= i
  BY GreatestElement
<1>2. Max(s) \in s /\ \A i \in s : Max(s) >= i
  BY <1>1 DEF Max
<1> QED
  BY <1>2

\* There is such a function.
LEMMA WakingExists ==
  ASSUME NEW first, NEW seq, NEW n \in Nat, DOMAIN seq = 1 .. n
  PROVE  \E f : IsWaking(f, first, seq)
<1> DEFINE Next1(f, s) == IF s = {} THEN first
                          ELSE Wake(f[s \ {Max(s)}], seq[Max(s)])
           Part(f, m) == f = [s \in SUBSET (1 .. m) |-> Next1(f, s)]
           T == {m \in Nat : \E f : Part(f, m)}
<1>1. 0 \in T
  <2> DEFINE f == [s \in SUBSET (1 .. 0) |-> first]
  <2>1. \A s \in SUBSET (1 .. 0) : s = {}
    OBVIOUS
  <2>2. f = [s \in SUBSET (1 .. 0) |-> Next1(f, s)]
    BY <2>1
  <2> QED
    BY <2>2
<1>2. ASSUME NEW m \in Nat, m \in T PROVE m + 1 \in T
  <2>1. PICK f : Part(f, m)
    BY <1>2
  <2> DEFINE g == [s \in SUBSET (1 .. m + 1) |->
                     IF m + 1 \in s THEN Wake(f[s \ {m + 1}], seq[m + 1])
                     ELSE f[s]]
             h == [s \in SUBSET (1 .. m + 1) |-> Next1(g, s)]
  <2>2. \A s \in SUBSET (1 .. m) : s \in SUBSET (1 .. m + 1) /\ g[s] = f[s]
    OBVIOUS
  <2>3. \A s \in SUBSET (1 .. m) : f[s] = Next1(f, s)
    <3> HIDE DEF Next1
    <3> QED
      BY <2>1
  <2>4. ASSUME NEW s \in SUBSET (1 .. m + 1) PROVE g[s] = Next1(g, s)
    <3>1. CASE s = {}
      <4>1. s \in SUBSET (1 .. m)
        BY <3>1
      <4>2. Next1(f, s) = first /\ Next1(g, s) = first
        BY <3>1
      <4> QED
        BY <2>2, <2>3, <4>1, <4>2
    <3>2. CASE m + 1 \in s
      <4>1. Max(s) = m + 1
        <5>1. Max(s) \in s /\ m + 1 <= Max(s)
          BY <3>2, LastPlace
        <5>2. Max(s) \in 1 .. m + 1
          BY <5>1
        <5> QED
          BY <5>1, <5>2
      <4>2. s \ {m + 1} \in SUBSET (1 .. m)
        OBVIOUS
      <4>3. g[s \ {m + 1}] = f[s \ {m + 1}]
        BY <2>2, <4>2
      <4>4. g[s] = Wake(f[s \ {m + 1}], seq[m + 1])
        BY <3>2
      <4>5. Next1(g, s) = Wake(g[s \ {Max(s)}], seq[Max(s)])
        BY <3>2
      <4> QED
        BY <4>1, <4>3, <4>4, <4>5
    <3>3. CASE s # {} /\ m + 1 \notin s
      <4>1. s \in SUBSET (1 .. m) /\ s \ {Max(s)} \in SUBSET (1 .. m)
        <5>1. \A i \in s : i \in 1 .. m + 1 /\ i # m + 1
          BY <3>3
        <5>2. \A i \in s : i \in 1 .. m
          BY <5>1
        <5> QED
          BY <5>2
      <4>2. g[s] = f[s] /\ g[s \ {Max(s)}] = f[s \ {Max(s)}]
        BY <2>2, <4>1
      <4>3. f[s] = Wake(f[s \ {Max(s)}], seq[Max(s)])
        BY <2>3, <3>3, <4>1
      <4>4. Next1(g, s) = Wake(g[s \ {Max(s)}], seq[Max(s)])
        BY <3>3
      <4> QED
        BY <4>2, <4>3, <4>4
    <3> QED
      BY <3>1, <3>2, <3>3
  <2>5. g = [s \in SUBSET (1 .. m + 1) |-> g[s]]
    OBVIOUS
  <2> HIDE DEF g, Next1
  <2>6. g = h
    BY <2>4, <2>5
  <2>7. Part(g, m + 1)
    BY <2>6
  <2> QED
    BY <2>7
<1> HIDE DEF T
<1>3. n \in T
  BY <1>1, <1>2, Induction
<1>4. PICK f : f = [s \in SUBSET (1 .. n) |-> Next1(f, s)]
  BY <1>3 DEF T
<1> QED
  BY <1>4 DEF IsWaking

\* The threads of U have been made ready, and nothing else.
Woken(kk, s, U) ==
    /\ Frame(kk, s) /\ s.current = kk.current
    /\ s.suspend = kk.suspend /\ s.priority = kk.priority
    /\ \A u \in U : s.state[u] = "READY"
    /\ \A u \in Thread \ U :
         s.state[u] = kk.state[u] /\ s.queue[u] = kk.queue[u]
    /\ kk.RunQueueHint \/ (\E u \in U : kk.suspend[u] = 0) => s.RunQueueHint
    /\ Remembered(kk) => Remembered(s)

\* Waking one thread that is in no queue.
LEMMA WakeEffect ==
  ASSUME NEW s, NEW L, Good(s, L), NEW t \in Thread, t \in L,
         s.suspend[t] = 0 => s.priority[t] \in Priority,
         NEW r, r = Wake(s, t)
  PROVE  Good(r, L \ {t}) /\ Woken(s, r, {t})
<1> DEFINE mid == [s EXCEPT !.state[t] = "READY"]
<1>1. s \in Kernel
  BY DEF Good
<1>2. mid \in Kernel
  <2> DEFINE st == [s.state EXCEPT ![t] = "READY"]
  <2>1. s.state \in [Thread -> States]
    BY <1>1, Fields
  <2>2. st \in [Thread -> States]
    BY <2>1 DEF States
  <2>3. mid = [s EXCEPT !.state = st]
    BY <1>1 DEF Kernel
  <2> HIDE DEF st, mid
  <2> QED
    BY <1>1, <2>2, <2>3 DEF Kernel
<1>3. /\ mid.q = s.q /\ mid.RunQueueBits = s.RunQueueBits
      /\ mid.current = s.current /\ mid.suspend = s.suspend
      /\ mid.priority = s.priority /\ mid.queue = s.queue
      /\ mid.RunQueueHint = s.RunQueueHint /\ Frame(s, mid)
      /\ mid.state = [s.state EXCEPT ![t] = "READY"]
  BY <1>1 DEF Kernel, Frame
<1>4. mid.state[t] = "READY" /\ \A u \in Thread \ {t} : SameAt(s, mid, u)
  BY <1>1, <1>3, Fields DEF SameAt
<1>5. \A u \in Thread \ {t} :
         u \notin L /\ mid.state[u] = "RUNNING" => u = mid.current
  BY <1>3, <1>4 DEF Good, Sound, SameAt
<1>6. s.suspend[t] \in Nat
  BY <1>1, Fields
<1>7. s.suspend[t] <= 0 <=> s.suspend[t] = 0
  BY <1>6
<1> DEFINE M == L \ {t}
<1>8. Good(r, M) /\ Woken(s, r, {t})
  <2>1. CASE s.suspend[t] = 0
    <3>1. r = SetRun(mid, t)
      BY <1>7, <2>1 DEF Wake
    <3>2. Good(mid, L)
      <4> HIDE DEF mid, M
      <4>1. mid.q = s.q /\ mid.RunQueueBits = s.RunQueueBits
        BY <1>3
      <4>2. \A u \in Thread \ {t} :
              /\ SameAt(s, mid, u) /\ (u \in L <=> u \in L)
              /\ u \notin L /\ mid.state[u] = "RUNNING" => u = mid.current
        BY <1>4, <1>5
      <4> QED
        BY <1>2, <4>1, <4>2, Change
    <3>3. /\ Good(r, M) /\ Frame(mid, r) /\ r.RunQueueHint
          /\ r.current = mid.current /\ r.state = mid.state
          /\ r.suspend = mid.suspend /\ r.priority = mid.priority
          /\ \A u \in Thread \ {t} : r.queue[u] = mid.queue[u]
      <4> HIDE DEF mid
      <4>1. /\ mid.state[t] = "READY" /\ mid.suspend[t] = 0
            /\ mid.priority[t] \in Priority
        BY <1>3, <1>4, <2>1
      <4> QED
        BY <3>1, <3>2, <4>1, SetRunEffect
    <3> HIDE DEF mid
    <3>4. Frame(s, r)
      BY <1>3, <3>3 DEF Frame
    <3>5. \A u \in Thread \ {t} :
             r.state[u] = s.state[u] /\ r.queue[u] = s.queue[u]
      BY <1>3, <1>4, <3>3 DEF SameAt
    <3>6. Remembered(r)
      BY <3>3 DEF Remembered
    <3> QED
      BY <1>3, <1>4, <3>3, <3>4, <3>5, <3>6 DEF Woken
  <2>2. CASE s.suspend[t] # 0
    <3>1. r = mid
      BY <1>7, <2>2 DEF Wake
    <3> HIDE DEF mid
    <3>2. Sound(mid, t) /\ \A q \in Queues : ~In(mid, q, t)
      BY <1>3, <1>4, <2>2 DEF Sound, In
    <3>3. \A u \in Thread \ {t} : u \in M <=> u \in L
      OBVIOUS
    <3>4. Good(mid, M)
      <4> HIDE DEF M
      <4>1. mid.q = s.q /\ mid.RunQueueBits = s.RunQueueBits
        BY <1>3
      <4>2. \A u \in Thread \ {t} :
              /\ SameAt(s, mid, u) /\ (u \in M <=> u \in L)
              /\ u \notin L /\ mid.state[u] = "RUNNING" => u = mid.current
        BY <1>4, <1>5, <3>3
      <4> QED
        BY <1>2, <3>2, <4>1, <4>2, Change
    <3>5. \A u \in Thread \ {t} :
             mid.state[u] = s.state[u] /\ mid.queue[u] = s.queue[u]
      BY <1>3, <1>4 DEF SameAt
    <3>6. Remembered(s) => Remembered(mid)
      <4>1. CASE mid.current = t
        BY <1>4, <4>1 DEF Remembered
      <4>2. CASE mid.current # t
        BY <1>3, <3>5, <4>2 DEF Remembered
      <4> QED
        BY <4>1, <4>2
    <3> QED
      BY <1>3, <1>4, <2>2, <3>1, <3>4, <3>5, <3>6 DEF Woken
  <2> QED
    BY <2>1, <2>2
<1> QED
  BY <1>8

\* Emptying a wait queue leaves its threads without a place.
LEMMA EmptyQueue ==
  ASSUME NEW kk, Good(kk, {}), NEW q \in BlockingQueues,
         NEW r, r = [kk EXCEPT !.q[q] = <<>>]
  PROVE  Good(r, Range(kk.q[q])) /\ Woken(kk, r, {})
<1> DEFINE e == [kk.q EXCEPT ![q] = <<>>]
           L == Range(kk.q[q])
<1>1. kk \in Kernel /\ kk.q \in [Queues -> Seq(Thread)] /\ q \in Queues
  BY Fields, QueueNames DEF Good
<1>2. <<>> \in Seq(Thread)
  OBVIOUS
<1>3. /\ e \in [Queues -> Seq(Thread)] /\ e[q] = <<>>
      /\ \A p \in Queues \ {q} : e[p] = kk.q[p]
  BY <1>1, <1>2
<1>4. r = [kk EXCEPT !.q = e]
  BY <1>1 DEF Kernel
<1> HIDE DEF e
<1>5. r \in Kernel
  BY <1>1, <1>3, <1>4 DEF Kernel
<1>6. /\ r.q = e /\ r.current = kk.current /\ r.RunQueueBits = kk.RunQueueBits
      /\ r.RunQueueHint = kk.RunQueueHint /\ r.state = kk.state
      /\ r.suspend = kk.suspend /\ r.priority = kk.priority
      /\ r.queue = kk.queue /\ Frame(kk, r)
  BY <1>1, <1>4 DEF Kernel, Frame
<1>7. \A p, t : In(r, p, t) <=> In(kk, p, t)
  BY <1>6 DEF In
<1>8. Range(<<>>) = {} /\ IsInjective(<<>>)
  BY DEF Range, IsInjective
<1>9. \A p \in Queues : IsInjective(r.q[p])
  BY <1>3, <1>6, <1>8 DEF Good
<1>10. ASSUME NEW p \in Queues, NEW t \in Thread
       PROVE  t \in Range(r.q[p]) <=> t \notin L /\ In(r, p, t)
  <2>1. t \in L <=> In(kk, q, t)
    BY <1>1 DEF Good
  <2>2. t \in Range(kk.q[p]) <=> In(kk, p, t)
    BY DEF Good
  <2>3. CASE p = q
    BY <1>3, <1>6, <1>7, <1>8, <2>1, <2>3
  <2>4. CASE p # q
    <3>1. r.q[p] = kk.q[p]
      BY <1>3, <1>6, <2>4
    <3>2. In(kk, p, t) => ~In(kk, q, t)
      BY <2>4, OneQueue
    <3> HIDE DEF L
    <3> QED
      BY <1>7, <2>1, <2>2, <3>1, <3>2
  <2> QED
    BY <2>3, <2>4
<1>11. BitsExact(r)
  <2>1. \A p \in Priority : r.q[RunQueue(p)] = kk.q[RunQueue(p)]
    <3> TAKE p \in Priority
    <3>1. RunQueue(p) \in Queues /\ RunQueue(p) # q
      BY QueueNames
    <3> QED
      BY <1>3, <1>6, <3>1
  <2> QED
    BY <1>6, <2>1 DEF Good, BitsExact
<1>12. ASSUME NEW p \in BlockingQueues PROVE SortedBy(r.q[p], r.priority)
  <2>1. p \in Queues
    BY QueueNames
  <2>2. CASE p = q
    <3>1. SortedBy(<<>>, r.priority)
      BY DEF SortedBy
    <3> QED
      BY <1>3, <1>6, <2>2, <3>1
  <2>3. CASE p # q
    <3>1. r.q[p] = kk.q[p]
      BY <1>3, <1>6, <2>1, <2>3
    <3> QED
      BY <1>6, <3>1 DEF Good
  <2> QED
    BY <2>2, <2>3
<1>13. \A t \in Thread : Sound(r, t)
  BY <1>6 DEF Good, Sound
<1>14. Good(r, L)
  BY <1>5, <1>9, <1>10, <1>11, <1>12, <1>13 DEF Good
<1>15. Woken(kk, r, {})
  BY <1>6 DEF Woken, Remembered
<1> QED
  BY <1>14, <1>15

\* Threads may be woken one after the other.
LEMMA WokenTrans ==
  ASSUME NEW a, NEW b, NEW c, NEW U \in SUBSET Thread, NEW t \in Thread,
         Woken(a, b, U), Woken(b, c, {t})
  PROVE  Woken(a, c, U \cup {t})
<1>1. Frame(a, c) /\ c.current = a.current /\ c.suspend = a.suspend
      /\ c.priority = a.priority /\ (Remembered(a) => Remembered(c))
  BY DEF Woken, Frame
<1>2. \A u \in U \cup {t} : c.state[u] = "READY"
  BY DEF Woken
<1>3. \A u \in Thread \ (U \cup {t}) :
         c.state[u] = a.state[u] /\ c.queue[u] = a.queue[u]
  BY DEF Woken
<1>4. a.RunQueueHint \/ (\E u \in U \cup {t} : a.suspend[u] = 0)
        => c.RunQueueHint
  BY DEF Woken
<1> QED
  BY <1>1, <1>2, <1>3, <1>4 DEF Woken

\* The fold wakes the threads of the list one by one.
LEMMA WakeAllEffect ==
  ASSUME NEW kk, NEW first, NEW n \in Nat, NEW seq \in [1 .. n -> Thread],
         \A i, j \in 1 .. n : seq[i] = seq[j] => i = j,
         NEW L, L = {seq[i] : i \in 1 .. n}, Good(first, L),
         Woken(kk, first, {}),
         \A t \in Thread :
           kk.suspend[t] = 0 /\ t \in L => kk.priority[t] \in Priority,
         NEW f, IsWaking(f, first, seq)
  PROVE  Good(f[1 .. n], {}) /\ Woken(kk, f[1 .. n], L)
<1> DEFINE Upto(j) == {seq[i] : i \in 1 .. j}
           T == {j \in Nat : j <= n => /\ Good(f[1 .. j], L \ Upto(j))
                                       /\ Woken(kk, f[1 .. j], Upto(j))}
<1>1. DOMAIN seq = 1 .. n
  OBVIOUS
<1>f. \A s \in SUBSET (1 .. n) :
         f[s] = IF s = {} THEN first
                ELSE Wake(f[s \ {Max(s)}], seq[Max(s)])
  BY <1>1 DEF IsWaking
<1>2. 0 \in T
  <2>1. 1 .. 0 = {}
    OBVIOUS
  <2>2. f[{}] = first
    BY <1>f
  <2>3. Upto(0) = {} /\ L \ {} = L
    BY <2>1
  <2> HIDE DEF Upto
  <2> QED
    BY <2>1, <2>2, <2>3
<1>3. ASSUME NEW j \in Nat, j \in T PROVE j + 1 \in T
  <2> SUFFICES ASSUME j + 1 <= n
               PROVE  /\ Good(f[1 .. j + 1], L \ Upto(j + 1))
                      /\ Woken(kk, f[1 .. j + 1], Upto(j + 1))
    OBVIOUS
  <2> DEFINE t == seq[j + 1]
             s == f[1 .. j]
             U == Upto(j)
             M == L \ U
  <2>1. Good(s, M) /\ Woken(kk, s, U)
    <3> HIDE DEF Upto
    <3> QED
      BY <1>3
  <2>2. f[1 .. j + 1] = Wake(s, t)
    <3>1. 1 .. j + 1 \in SUBSET (1 .. n) /\ 1 .. j + 1 # {}
          /\ j + 1 \in 1 .. j + 1
      OBVIOUS
    <3>2. Max(1 .. j + 1) = j + 1
      <4>1. Max(1 .. j + 1) \in 1 .. j + 1 /\ j + 1 <= Max(1 .. j + 1)
        <5> DEFINE N == 1 .. j + 1
        <5>1. N \in SUBSET (1 .. j + 1) /\ j + 1 \in Nat
          OBVIOUS
        <5> HIDE DEF N
        <5>2. Max(N) \in N /\ \A i \in N : i <= Max(N)
          BY <3>1, <5>1, LastPlace DEF N
        <5> QED
          BY <3>1, <5>2 DEF N
      <4> QED
        BY <4>1
    <3>3. (1 .. j + 1) \ {j + 1} = 1 .. j
      OBVIOUS
    <3> QED
      BY <1>f, <3>1, <3>2, <3>3
  <2>3. /\ t \in Thread /\ t \in M
        /\ Upto(j + 1) = U \cup {t} /\ U \subseteq Thread
    <3>1. j + 1 \in 1 .. n /\ 1 .. j \subseteq 1 .. n
          /\ 1 .. j + 1 = (1 .. j) \cup {j + 1}
      OBVIOUS
    <3>2. t \in Thread /\ t \in L /\ U \subseteq Thread
      BY <3>1
    <3>3. \A i \in 1 .. j : seq[i] # t
      BY <3>1
    <3>4. t \notin U
      BY <3>3
    <3>5. Upto(j + 1) = U \cup {t}
      BY <3>1
    <3> QED
      BY <3>2, <3>4, <3>5
  <2>4. s.suspend[t] = 0 => s.priority[t] \in Priority
    BY <2>1, <2>3 DEF Woken
  <2> HIDE DEF t, s, U, M
  <2>5. Good(f[1 .. j + 1], M \ {t}) /\ Woken(s, f[1 .. j + 1], {t})
    BY <2>1, <2>2, <2>3, <2>4, WakeEffect
  <2>6. Woken(kk, f[1 .. j + 1], U \cup {t})
    BY <2>1, <2>3, <2>5, WokenTrans
  <2>7. M \ {t} = L \ Upto(j + 1)
    BY <2>3 DEF M
  <2> HIDE DEF Upto
  <2> QED
    BY <2>3, <2>5, <2>6, <2>7
<1>4. n \in T
  <2> HIDE DEF T
  <2> QED
    BY <1>2, <1>3, Induction
<1>5. Upto(n) = L /\ L \ L = {}
  OBVIOUS
<1>6. L \ Upto(n) = {} /\ Upto(n) = L
  BY <1>5
<1> HIDE DEF Upto
<1>7. Good(f[1 .. n], L \ Upto(n)) /\ Woken(kk, f[1 .. n], Upto(n))
  BY <1>4
<1> QED
  BY <1>6, <1>7

\* Nobody sleeps in the queue q.
NoSleeper(kk, q) ==
    \A u \in Thread : kk.state[u] = "SLEEPING" => kk.queue[u] # q

\* WakeupThread makes every thread of the queue ready, and then switches.
LEMMA WakeupParts ==
  ASSUME NEW kk, Good(kk, {}), NEW q \in BlockingQueues,
         NEW r, r = WakeupThread(kk, q)
  PROVE  \E s, L : /\ L \in SUBSET Thread
                   /\ \A t \in Thread :
                        t \in L <=> /\ kk.state[t] = "SLEEPING"
                                   /\ kk.queue[t] = q
                   /\ Good(s, {}) /\ Woken(kk, s, L)
                   /\ r = __OSReschedule(s)
<1> DEFINE seq == kk.q[q]
           first == [kk EXCEPT !.q[q] = <<>>]
           n == Len(seq)
           L == Range(seq)
           f == CHOOSE f : IsWaking(f, first, seq)
           s == f[1 .. n]
<1>1. /\ kk \in Kernel /\ q \in Queues /\ kk.q \in [Queues -> Seq(Thread)]
      /\ seq \in Seq(Thread) /\ IsInjective(seq)
  BY Fields, QueueNames DEF Good
<1>2. n \in Nat /\ seq \in [1 .. n -> Thread] /\ DOMAIN seq = 1 .. n
  BY <1>1
<1>3. \A i, j \in 1 .. n : seq[i] = seq[j] => i = j
  BY <1>1, <1>2 DEF IsInjective
<1>4. L = {seq[i] : i \in 1 .. n} /\ L \subseteq Thread
  BY <1>2 DEF Range
<1>5. Good(first, L) /\ Woken(kk, first, {})
  BY EmptyQueue
<1>6. \A t \in Thread :
         t \in L <=> kk.state[t] = "SLEEPING" /\ kk.queue[t] = q
  <2>1. \A p : RunQueue(p) # q
    BY QueueNames
  <2>2. \A t \in Thread : t \in L <=> In(kk, q, t)
    BY <1>1 DEF Good
  <2> HIDE DEF L
  <2> QED
    BY <2>1, <2>2 DEF In
<1>7. \A t \in Thread :
         kk.suspend[t] = 0 /\ t \in L => kk.priority[t] \in Priority
  BY <1>6 DEF Good, Sound
<1>8. IsWaking(f, first, seq)
  <2> HIDE DEF first, seq, n
  <2> QED
    BY <1>2, WakingExists
<1>9. r = __OSReschedule(s)
  BY <1>2, WakeupIsFold
<1> HIDE DEF seq, first, n, L, f
<1>10. Good(s, {}) /\ Woken(kk, s, L)
  BY <1>2, <1>3, <1>4, <1>5, <1>7, <1>8, WakeAllEffect
<1> HIDE DEF s
<1> QED
  BY <1>4, <1>6, <1>9, <1>10

\* WakeupThread wakes every thread of the queue and switches.
LEMMA WakeupEffect ==
  ASSUME NEW kk, Good(kk, {}),
         kk.current \in Thread => kk.state[kk.current] # "SLEEPING",
         NEW q \in BlockingQueues, NEW r, r = WakeupThread(kk, q)
  PROVE  /\ Good(r, {}) /\ Follows(kk, r) /\ NoSleeper(r, q)
         /\ kk.Reschedule = 0 /\ kk.RunQueueHint => Fits(r)
         /\ kk.Reschedule = 0 /\ Remembered(kk) => Settled(r)
         /\ (\E u \in Thread : /\ kk.state[u] = "SLEEPING"
                               /\ kk.queue[u] = q /\ kk.suspend[u] = 0)
              => Remembered(r) /\ (kk.Reschedule = 0 => Settled(r))
<1>1. kk \in Kernel
  BY DEF Good
<1>2. PICK s, L : /\ L \in SUBSET Thread
                  /\ \A t \in Thread :
                       t \in L <=> /\ kk.state[t] = "SLEEPING"
                                  /\ kk.queue[t] = q
                  /\ Good(s, {}) /\ Woken(kk, s, L)
                  /\ r = __OSReschedule(s)
  BY WakeupParts
<1>3. L \subseteq Thread
  BY <1>2
<1>4. \A t \in Thread :
         t \in L <=> kk.state[t] = "SLEEPING" /\ kk.queue[t] = q
  BY <1>2
<1>5. r = __OSReschedule(s)
  BY <1>2
<1>6. Good(s, {}) /\ Woken(kk, s, L)
  BY <1>2
<1>7. /\ Good(r, {}) /\ Follows(s, r)
      /\ s.Reschedule = 0 /\ s.RunQueueHint => Fits(r)
      /\ s.Reschedule = 0 /\ Remembered(s) => Settled(r)
  BY <1>5, <1>6, RescheduleEffect
<1>8. Follows(kk, s)
  <2>1. kk.suspend \in [Thread -> Nat]
    BY <1>1, Fields
  <2>2. ASSUME NEW t \in Thread
        PROVE  /\ s.suspend[t] <= kk.suspend[t]
               /\ Terminated(kk, t) \/ Terminated(s, t)
                    => s.state[t] = kk.state[t]
               /\ s.state[t] = "SLEEPING"
                    => kk.state[t] = "SLEEPING" /\ s.queue[t] = kk.queue[t]
    <3>1. s.suspend[t] <= kk.suspend[t]
      BY <1>6, <2>1 DEF Woken
    <3>2. CASE t \in L
      <4>1. s.state[t] = "READY" /\ kk.state[t] = "SLEEPING"
        BY <1>4, <1>6, <3>2 DEF Woken
      <4> QED
        BY <3>1, <4>1 DEF Terminated
    <3>3. CASE t \notin L
      <4>1. s.state[t] = kk.state[t] /\ s.queue[t] = kk.queue[t]
        BY <1>6, <3>3 DEF Woken
      <4> QED
        BY <3>1, <4>1
    <3> QED
      BY <3>2, <3>3
  <2>3. s.current \in Thread => s.state[s.current] = kk.state[s.current]
    BY <1>4, <1>6 DEF Woken
  <2>4. CASE s.current \in Thread
    BY <1>6, <2>2, <2>3, <2>4 DEF Woken, Follows
  <2>5. CASE s.current \notin Thread
    BY <1>6, <2>2, <2>5 DEF Woken, Follows, Fits
  <2> QED
    BY <2>4, <2>5
<1>9. Follows(kk, r)
  <2>1. s \in Kernel /\ r \in Kernel
    BY <1>6, <1>7 DEF Good
  <2> QED
    BY <1>1, <1>7, <1>8, <2>1, FollowsTrans
<1>10. NoSleeper(r, q)
  <2> SUFFICES ASSUME NEW u \in Thread, r.state[u] = "SLEEPING",
                      r.queue[u] = q
               PROVE  FALSE
    BY DEF NoSleeper
  <2>1. s.state[u] = "SLEEPING"
    BY <1>7 DEF Follows
  <2>2. kk.state[u] = "SLEEPING" /\ kk.queue[u] = q
    BY <1>9 DEF Follows
  <2>3. s.state[u] = "READY"
    BY <1>4, <1>6, <2>2 DEF Woken
  <2> QED
    BY <2>1, <2>3
<1>11. s.Reschedule = kk.Reschedule
  BY <1>6 DEF Woken, Frame
<1>12. kk.RunQueueHint => s.RunQueueHint
  BY <1>6 DEF Woken
<1>13. Remembered(kk) => Remembered(s)
  BY <1>6 DEF Woken
<1>14. ASSUME NEW u \in Thread, kk.state[u] = "SLEEPING", kk.queue[u] = q,
              kk.suspend[u] = 0
       PROVE  Remembered(s)
  <2>1. s.RunQueueHint
    BY <1>4, <1>6, <1>14 DEF Woken
  <2> QED
    BY <2>1 DEF Remembered
<1>15. Remembered(s) => Remembered(r)
  BY <1>7 DEF Follows
<1> QED
  BY <1>7, <1>9, <1>10, <1>11, <1>12, <1>13, <1>14, <1>15

-----------------------------------------------------------------------------
(* Resuming and suspending. *)

\* Only the suspension count of t is new.
LEMMA SuspendField ==
  ASSUME NEW kk \in Kernel, NEW t \in Thread, NEW n \in Nat,
         NEW r, r = [kk EXCEPT !.suspend[t] = n]
  PROVE  /\ r \in Kernel /\ r.suspend[t] = n
         /\ \A u \in Thread \ {t} : SameAt(kk, r, u)
         /\ r.q = kk.q /\ r.RunQueueBits = kk.RunQueueBits
         /\ r.current = kk.current /\ r.RunQueueHint = kk.RunQueueHint
         /\ r.state = kk.state /\ r.priority = kk.priority
         /\ r.queue = kk.queue /\ Frame(kk, r)
<1> DEFINE new == [kk.suspend EXCEPT ![t] = n]
<1>1. new \in [Thread -> Nat] /\ new[t] = n
      /\ \A u \in Thread \ {t} : new[u] = kk.suspend[u]
  BY Fields
<1>2. r = [kk EXCEPT !.suspend = new]
  BY DEF Kernel
<1> HIDE DEF new
<1>3. r \in Kernel
  BY <1>1, <1>2 DEF Kernel
<1>4. /\ r.q = kk.q /\ r.RunQueueBits = kk.RunQueueBits
      /\ r.current = kk.current /\ r.RunQueueHint = kk.RunQueueHint
      /\ r.state = kk.state /\ r.priority = kk.priority
      /\ r.queue = kk.queue /\ Frame(kk, r) /\ r.suspend = new
  BY <1>2 DEF Kernel, Frame
<1> QED
  BY <1>1, <1>3, <1>4 DEF SameAt

\* A suspended sleeper waits with no urgency, and does so again when it is
\* suspended once more or once less.
LEMMA StillSuspended ==
  ASSUME NEW kk, Good(kk, {}), NEW t \in Thread, kk.suspend[t] # 0,
         NEW n \in Nat \ {0}, NEW r, r = [kk EXCEPT !.suspend[t] = n]
  PROVE  Good(r, {})
<1>1. kk \in Kernel /\ kk.suspend[t] > 0
  BY Fields DEF Good
<1>2. /\ r \in Kernel /\ r.suspend[t] = n
      /\ \A u \in Thread \ {t} : SameAt(kk, r, u)
      /\ r.q = kk.q /\ r.RunQueueBits = kk.RunQueueBits
      /\ r.current = kk.current /\ r.state = kk.state
      /\ r.priority = kk.priority /\ r.queue = kk.queue
  BY <1>1, SuspendField
<1>3. \A u \in Thread, q \in Queues : In(r, q, u) <=> In(kk, q, u)
  BY <1>2 DEF In, SameAt
<1>4. ASSUME NEW u \in Thread PROVE Sound(r, u)
  <2>1. Sound(kk, u)
    BY DEF Good
  <2>2. CASE u = t
    BY <1>1, <1>2, <2>1, <2>2 DEF Sound
  <2>3. CASE u # t
    BY <1>2, <2>1, <2>3 DEF Sound, SameAt
  <2> QED
    BY <2>2, <2>3
<1> QED
  BY <1>2, <1>3, <1>4, Alike

\* t is not suspended any more, and has the priority p if it needs one.
Resumed(kk, x, t, p) ==
    /\ Frame(kk, x) /\ x.current = kk.current /\ x.state = kk.state
    /\ x.suspend[t] = 0
    /\ \A u \in Thread \ {t} :
         /\ x.suspend[u] = kk.suspend[u] /\ x.queue[u] = kk.queue[u]
         /\ x.priority[u] = kk.priority[u]
    /\ kk.state[t] \in {"READY", "SLEEPING"} => x.priority[t] = p
    /\ kk.state[t] = "SLEEPING" => x.queue[t] = kk.queue[t]
    /\ Remembered(kk) => Remembered(x)

\* The last OSResumeThread for t: a ready thread goes to the run queue and a
\* sleeper to its place in the wait queue.
LEMMA ResumeParts ==
  ASSUME OwnershipType, NEW kk, Good(kk, {}), NEW t \in Thread,
         kk.suspend[t] = 1,
         NEW p, p = __OSGetEffectivePriority(kk, mutexQueue, t),
         NEW r, r = ResumeThread(kk, t)
  PROVE  \E x : /\ Good(x, {}) /\ Resumed(kk, x, t, p)
                /\ kk.state[t] = "SLEEPING"
                     => r = __OSReschedule(UpdateBlocker(x, t))
                /\ kk.state[t] # "SLEEPING" => r = __OSReschedule(x)
<1> DEFINE runs == [kk EXCEPT !.suspend[t] = 0]
<1>1. kk \in Kernel
  BY DEF Good
<1>2. /\ kk.state[t] = "READY"
           => r = __OSReschedule(SetRun([runs EXCEPT !.priority[t] = p], t))
      /\ kk.state[t] = "SLEEPING"
           => r = __OSReschedule(UpdateBlocker(Requeue(runs, t, p), t))
      /\ kk.state[t] \notin {"READY", "SLEEPING"} => r = __OSReschedule(runs)
  BY DEF ResumeThread
<1>3. p \in Priority
  BY <1>1, EffectivePriorityType DEF OwnershipType
<1>4. p \in 0 .. OS_PRIORITY_MAX + 1
  BY <1>3, PriorityNumbers DEF Priority
<1>5. /\ runs \in Kernel /\ runs.suspend[t] = 0
      /\ \A u \in Thread \ {t} : SameAt(kk, runs, u)
      /\ runs.q = kk.q /\ runs.RunQueueBits = kk.RunQueueBits
      /\ runs.current = kk.current /\ runs.RunQueueHint = kk.RunQueueHint
      /\ runs.state = kk.state /\ runs.priority = kk.priority
      /\ runs.queue = kk.queue /\ Frame(kk, runs)
  BY <1>1, SuspendField
<1>6. \A u \in Thread \ {t} :
         /\ runs.suspend[u] = kk.suspend[u] /\ runs.queue[u] = kk.queue[u]
         /\ runs.priority[u] = kk.priority[u]
  BY <1>5 DEF SameAt
<1> HIDE DEF runs
<1>7. CASE kk.state[t] = "READY"
  <2> DEFINE new == [runs.priority EXCEPT ![t] = p]
             mid == [runs EXCEPT !.priority = new]
             s   == SetRun(mid, t)
  <2>1. r = __OSReschedule(s)
    BY <1>2, <1>5, <1>7 DEF Kernel
  <2>2. /\ new \in [Thread -> 0 .. OS_PRIORITY_MAX + 1] /\ new[t] = p
        /\ \A u \in Thread \ {t} : new[u] = kk.priority[u]
    BY <1>4, <1>5, Fields
  <2> HIDE DEF new
  <2>3. mid \in Kernel
    BY <1>5, <2>2 DEF Kernel
  <2>4. /\ mid.q = runs.q /\ mid.RunQueueBits = runs.RunQueueBits
        /\ mid.current = runs.current /\ mid.state = runs.state
        /\ mid.suspend = runs.suspend /\ mid.queue = runs.queue
        /\ mid.priority = new /\ Frame(runs, mid)
    BY <1>5 DEF Kernel, Frame
  <2>5. s = SetRun(mid, t)
    OBVIOUS
  <2> HIDE DEF mid, s
  <2>6. mid.q = kk.q /\ mid.RunQueueBits = kk.RunQueueBits
    BY <1>5, <2>4
  <2>7. \A q \in Queues : ~In(kk, q, t)
    BY <1>7 DEF In
  <2>8. \A u \in Thread \ {t} : SameAt(kk, mid, u)
    BY <1>5, <2>2, <2>4 DEF SameAt
  <2> DEFINE L == {}
             M == {t}
  <2>9. /\ Good(kk, L) /\ t \in M /\ M \ {t} = L
        /\ \A u \in Thread \ {t} : u \in M <=> u \in L
    OBVIOUS
  <2> HIDE DEF L, M
  <2>10. Good(mid, M)
    <3>1. \A u \in Thread \ {t} :
            /\ SameAt(kk, mid, u) /\ (u \in M <=> u \in L)
            /\ u \notin L /\ mid.state[u] = "RUNNING" => u = mid.current
      BY <1>5, <2>4, <2>8, <2>9 DEF Good, Sound
    <3> QED
      BY <2>3, <2>6, <2>7, <2>9, <3>1, Change
  <2>11. /\ mid.state[t] = "READY" /\ mid.suspend[t] = 0
         /\ mid.priority[t] \in Priority
    BY <1>3, <1>5, <1>7, <2>2, <2>4
  <2>12. /\ Good(s, M \ {t}) /\ Frame(mid, s) /\ s.RunQueueHint
         /\ s.current = mid.current /\ s.state = mid.state
         /\ s.suspend = mid.suspend /\ s.priority = mid.priority
         /\ \A u \in Thread \ {t} : s.queue[u] = mid.queue[u]
    BY <2>5, <2>9, <2>10, <2>11, SetRunEffect
  <2>13. Frame(kk, s)
    BY <1>5, <2>4, <2>12 DEF Frame
  <2>14. Resumed(kk, s, t, p)
    BY <1>5, <1>6, <1>7, <2>2, <2>4, <2>12, <2>13 DEF Resumed, Remembered
  <2>15. Good(s, {})
    BY <2>9, <2>12 DEF L
  <2> QED
    BY <1>7, <2>1, <2>14, <2>15
<1>8. CASE kk.state[t] = "SLEEPING"
  <2> DEFINE mid == Requeue(runs, t, p)
             L == {}
  <2>1. r = __OSReschedule(UpdateBlocker(mid, t))
    BY <1>2, <1>8
  <2>2. Good(kk, L) /\ t \in Thread \ L
    OBVIOUS
  <2>3. ~(runs.suspend[t] > 0)
    BY <1>5
  <2> HIDE DEF L
  <2>4. mid = Requeue(runs, t, p)
    OBVIOUS
  <2> HIDE DEF mid
  <2>5. /\ Good(mid, L) /\ Frame(runs, mid)
        /\ mid.current = runs.current /\ mid.state = runs.state
        /\ mid.suspend = runs.suspend /\ mid.queue = runs.queue
        /\ mid.RunQueueHint = runs.RunQueueHint
        /\ mid.RunQueueBits = runs.RunQueueBits
        /\ mid.priority[t] = p
        /\ \A u \in Thread \ {t} : mid.priority[u] = runs.priority[u]
    BY <1>3, <1>4, <1>5, <1>8, <2>2, <2>3, <2>4, RequeueEffect
  <2>6. Frame(kk, mid) /\ mid.current = kk.current
        /\ mid.state = kk.state /\ mid.queue = kk.queue
        /\ mid.RunQueueHint = kk.RunQueueHint
        /\ mid.RunQueueBits = kk.RunQueueBits
    BY <1>5, <2>5 DEF Frame
  <2>7. Remembered(kk) => Remembered(mid)
    <3>1. CASE kk.current = t
      BY <1>8, <2>6, <3>1 DEF Remembered
    <3>2. CASE kk.current \in Thread \ {t}
      BY <1>6, <2>5, <2>6, <3>2 DEF Remembered
    <3>3. CASE kk.current \notin Thread
      BY <2>6, <3>3 DEF Remembered
    <3> QED
      BY <3>1, <3>2, <3>3
  <2>8. Resumed(kk, mid, t, p)
    BY <1>5, <1>6, <2>5, <2>6, <2>7 DEF Resumed
  <2>9. Good(mid, {})
    BY <2>5 DEF L
  <2> QED
    BY <1>8, <2>1, <2>8, <2>9
<1>9. CASE kk.state[t] \notin {"READY", "SLEEPING"}
  <2>1. Good(runs, {})
    <3>1. kk.state[t] # "RUNNING"
      BY DEF Good, Sound
    <3>2. \A u \in Thread, q \in Queues : In(runs, q, u) <=> In(kk, q, u)
      BY <1>5, <1>9 DEF In, SameAt
    <3>3. ASSUME NEW u \in Thread PROVE Sound(runs, u)
      <4>1. CASE u = t
        BY <1>5, <1>9, <3>1, <4>1 DEF Sound
      <4>2. CASE u # t
        BY <1>5, <4>2 DEF Sound, SameAt, Good
      <4> QED
        BY <4>1, <4>2
    <3>4. runs.q = kk.q /\ runs.RunQueueBits = kk.RunQueueBits
          /\ runs.priority = kk.priority
      BY <1>5
    <3> QED
      BY <1>5, <3>2, <3>3, <3>4, Alike
  <2>2. Remembered(kk) => Remembered(runs)
    BY <1>5 DEF Remembered
  <2>3. Resumed(kk, runs, t, p)
    BY <1>5, <1>6, <1>9, <2>2 DEF Resumed
  <2> QED
    BY <1>2, <1>9, <2>1, <2>3
<1> QED
  BY <1>7, <1>8, <1>9

\* ResumeThread makes a thread runnable, or reprices it in its wait queue,
\* when it is resumed as often as it was suspended.
LEMMA ResumeEffect ==
  ASSUME OwnershipType, NEW kk, Good(kk, {}), NEW t \in Thread,
         NEW r, r = ResumeThread(kk, t)
  PROVE  /\ Good(r, {}) /\ Follows(kk, r)
         /\ kk.Reschedule = 0 /\ Settled(kk) => Settled(r)
<1> DEFINE left == kk.suspend[t] - 1
           runs == [kk EXCEPT !.suspend[t] = 0]
<1>1. kk \in Kernel /\ kk.suspend \in [Thread -> Nat]
  BY Fields DEF Good
<1>2. CASE kk.suspend[t] = 0
  <2>1. r = runs
    BY <1>1, <1>2 DEF ResumeThread
  <2>2. runs = kk
    BY <1>1, <1>2 DEF Kernel
  <2> QED
    BY <1>1, <2>1, <2>2, FollowsSelf
<1>3. CASE kk.suspend[t] > 1
  <2>1. r = [kk EXCEPT !.suspend[t] = left]
    BY <1>1, <1>3 DEF ResumeThread
  <2>2. left \in Nat \ {0} /\ kk.suspend[t] # 0 /\ left <= kk.suspend[t]
    BY <1>1, <1>3
  <2> HIDE DEF left
  <2>3. Good(r, {})
    BY <2>1, <2>2, StillSuspended
  <2>4. /\ r.suspend[t] = left /\ \A u \in Thread \ {t} : SameAt(kk, r, u)
        /\ r.RunQueueBits = kk.RunQueueBits /\ r.priority = kk.priority
        /\ r.current = kk.current /\ r.RunQueueHint = kk.RunQueueHint
        /\ r.state = kk.state /\ r.queue = kk.queue /\ Frame(kk, r)
    BY <1>1, <2>1, <2>2, SuspendField
  <2>5. \A u \in Thread : r.suspend[u] <= kk.suspend[u]
    BY <1>1, <2>2, <2>4 DEF SameAt
  <2>6. Follows(kk, r)
    BY <2>4, <2>5 DEF Follows, Remembered, Terminated
  <2>7. Settled(kk) => Settled(r)
    BY <2>4 DEF Settled
  <2> QED
    BY <2>3, <2>6, <2>7
<1>4. CASE kk.suspend[t] = 1
  <2> DEFINE p == __OSGetEffectivePriority(kk, mutexQueue, t)
  <2>1. PICK x : /\ Good(x, {}) /\ Resumed(kk, x, t, p)
                 /\ kk.state[t] = "SLEEPING"
                      => r = __OSReschedule(UpdateBlocker(x, t))
                 /\ kk.state[t] # "SLEEPING" => r = __OSReschedule(x)
    <3> HIDE DEF p
    <3>1. p = __OSGetEffectivePriority(kk, mutexQueue, t)
      BY DEF p
    <3> QED
      BY <1>4, <3>1, ResumeParts
  <2> HIDE DEF p
  <2>2. x \in Kernel
    BY <2>1 DEF Good
  <2>3. \A u \in Thread : x.suspend[u] <= kk.suspend[u]
    BY <1>1, <1>4, <2>1 DEF Resumed
  <2>4. Follows(kk, x)
    BY <2>1, <2>3 DEF Follows, Resumed, Terminated
  <2>5. PICK s : Good(s, {}) /\ Repriced(x, s) /\ r = __OSReschedule(s)
    <3>1. CASE kk.state[t] = "SLEEPING"
      <4> DEFINE s == UpdateBlocker(x, t)
                 L == {}
      <4>1. Good(x, L) /\ ClosedFor(Thread, x, L)
        BY <2>1, <2>2, AllClosed
      <4>2. x.mutex[t] # NULL => owner[x.mutex[t]] \in Thread \cup {NULL}
        BY <2>2, Fields DEF OwnershipType
      <4>3. r = __OSReschedule(s) /\ s = UpdateBlocker(x, t)
        BY <2>1, <3>1
      <4> HIDE DEF L, s
      <4>4. Good(s, L) /\ Repriced(x, s)
        BY <4>1, <4>2, <4>3, UpdateBlockerEffect
      <4>5. Good(s, {})
        BY <4>4 DEF L
      <4> QED
        BY <4>3, <4>4, <4>5
    <3>2. CASE kk.state[t] # "SLEEPING"
      <4>1. Repriced(x, x)
        BY DEF Repriced, Frame
      <4> QED
        BY <2>1, <3>2, <4>1
    <3> QED
      BY <3>1, <3>2
  <2>6. s \in Kernel
    BY <2>5 DEF Good
  <2>7. Follows(kk, s)
    <3>1. Follows(x, s)
      BY <2>2, <2>5, RepricedFollows
    <3> QED
      BY <1>1, <2>2, <2>4, <2>6, <3>1, FollowsTrans
  <2>8. /\ Good(r, {}) /\ Follows(s, r)
        /\ s.Reschedule = 0 /\ Remembered(s) => Settled(r)
    BY <2>5, RescheduleEffect
  <2>9. r \in Kernel
    BY <2>8 DEF Good
  <2>10. Follows(kk, r)
    BY <1>1, <2>6, <2>7, <2>8, <2>9, FollowsTrans
  <2>11. Settled(kk) => Remembered(kk)
    BY DEF Settled, Remembered
  <2>12. /\ Remembered(kk) => Remembered(s)
         /\ s.Reschedule = kk.Reschedule
    BY <2>7 DEF Follows, Frame
  <2> QED
    BY <2>8, <2>10, <2>11, <2>12
<1> QED
  BY <1>1, <1>2, <1>3, <1>4

\* A thread whose priority is the least urgent of all belongs at the end.
LEMMA AppendLast ==
  ASSUME NEW s \in Seq(Thread), IsInjective(s), NEW t \in Thread \ Range(s),
         NEW prio \in [Thread -> 0 .. OS_PRIORITY_MAX + 1], SortedBy(s, prio),
         prio[t] = OS_PRIORITY_MAX + 1, NEW r, r = Append(s, t)
  PROVE  /\ r \in Seq(Thread) /\ IsInjective(r)
         /\ Range(r) = Range(s) \cup {t} /\ SortedBy(r, prio)
<1>1. r \in Seq(Thread) /\ IsInjective(r) /\ Range(r) = Range(s) \cup {t}
  BY AppendNewProperties
<1>2. /\ Len(r) = Len(s) + 1 /\ r[Len(s) + 1] = t
      /\ \A i \in 1 .. Len(s) : r[i] = s[i]
  BY AppendProperties
<1> DEFINE n == Len(s)
<1>3. n \in Nat /\ DOMAIN s = 1 .. n /\ DOMAIN r = 1 .. n + 1
  BY <1>1, <1>2
<1>4. \A i \in 1 .. n : s[i] \in Thread
  BY <1>3
<1>5. r[n + 1] = t /\ \A i \in 1 .. n : r[i] = s[i]
  BY <1>2
<1> HIDE DEF n
<1>6. ASSUME NEW i \in 1 .. n + 1, NEW j \in 1 .. n + 1, i < j
      PROVE  prio[r[i]] <= prio[r[j]]
  <2>1. i \in 1 .. n
    BY <1>3, <1>6
  <2>2. CASE j = n + 1
    <3>1. prio[s[i]] <= OS_PRIORITY_MAX + 1
      BY <1>4, <2>1, PriorityNumbers
    <3> QED
      BY <1>5, <2>1, <2>2, <3>1
  <2>3. CASE j # n + 1
    <3>1. j \in 1 .. n
      BY <1>3, <2>3
    <3> QED
      BY <1>3, <1>5, <1>6, <2>1, <3>1 DEF SortedBy
  <2> QED
    BY <2>2, <2>3
<1>7. SortedBy(r, prio)
  BY <1>3, <1>6 DEF SortedBy
<1> QED
  BY <1>1, <1>7

\* What Suspend does to a sleeper before UpdateBlocker.
LastInQueue(kk, t) ==
    [kk EXCEPT !.priority[t] = OS_PRIORITY_MAX + 1,
               !.q[kk.queue[t]] = Append(Unlink(@, t), t)]

\* A sleeper that is suspended goes to the end of its wait queue.
LEMMA SuspendSleeper ==
  ASSUME NEW k0, Good(k0, {}), NEW t \in Thread, k0.state[t] = "SLEEPING",
         NEW kk \in Kernel, kk.q = k0.q, kk.RunQueueBits = k0.RunQueueBits,
         kk.queue = k0.queue, kk.priority = k0.priority,
         kk.state = k0.state, kk.current = k0.current, kk.suspend[t] = 1,
         \A u \in Thread \ {t} : SameAt(k0, kk, u),
         NEW r, r = LastInQueue(kk, t)
  PROVE  /\ Good(r, {}) /\ Frame(kk, r)
         /\ r.current = kk.current /\ r.state = kk.state
         /\ r.suspend = kk.suspend /\ r.queue = kk.queue
         /\ r.RunQueueHint = kk.RunQueueHint
         /\ r.RunQueueBits = kk.RunQueueBits
         /\ \A u \in Thread \ {t} : r.priority[u] = kk.priority[u]
<1> DEFINE q == kk.queue[t]
           prio == [kk.priority EXCEPT ![t] = OS_PRIORITY_MAX + 1]
           rest == Unlink(kk.q[q], t)
           s == Append(rest, t)
<1>1. q \in BlockingQueues /\ q \in Queues /\ In(k0, q, t)
  BY QueueNames DEF Good, Sound, In
<1>2. /\ kk.q[q] \in Seq(Thread) /\ IsInjective(kk.q[q])
      /\ t \in Range(kk.q[q]) /\ SortedBy(kk.q[q], kk.priority)
  BY <1>1, Fields DEF Good
<1>3. r = [kk EXCEPT !.priority = prio, !.q = [kk.q EXCEPT ![q] = s]]
  BY <1>1, Fields DEF LastInQueue
<1>4. prio \in [Thread -> 0 .. OS_PRIORITY_MAX + 1]
      /\ prio[t] = OS_PRIORITY_MAX + 1
      /\ \A u \in Thread \ {t} : prio[u] = kk.priority[u]
  <2>1. OS_PRIORITY_MAX + 1 \in 0 .. OS_PRIORITY_MAX + 1
    BY PriorityNumbers
  <2> QED
    BY <2>1, Fields
<1> HIDE DEF prio, q
<1>5. /\ rest \in Seq(Thread) /\ IsInjective(rest)
      /\ Range(rest) = Range(kk.q[q]) \ {t}
  BY <1>2, UnlinkProperties
<1>6. SortedBy(rest, prio)
  BY <1>2, <1>4, UnlinkSorted
<1> HIDE DEF rest
<1>7. /\ s \in Seq(Thread) /\ IsInjective(s)
      /\ Range(s) = Range(rest) \cup {t} /\ SortedBy(s, prio)
  <2>1. t \in Thread \ Range(rest)
    BY <1>5
  <2> QED
    BY <1>4, <1>5, <1>6, <2>1, AppendLast
<1> HIDE DEF s
<1>8. Range(s) = Range(k0.q[q]) \cup {t}
  BY <1>2, <1>5, <1>7
<1>9. [kk.q EXCEPT ![q] = s] \in [Queues -> Seq(Thread)]
  BY <1>1, <1>7, Fields
<1>10. r \in Kernel
  BY <1>3, <1>4, <1>9 DEF Kernel
<1>11. /\ r.q = [kk.q EXCEPT ![q] = s] /\ r.priority = prio
       /\ r.current = kk.current /\ r.state = kk.state
       /\ r.suspend = kk.suspend /\ r.queue = kk.queue
       /\ r.RunQueueHint = kk.RunQueueHint
       /\ r.RunQueueBits = kk.RunQueueBits /\ Frame(kk, r)
  BY <1>3 DEF Kernel, Frame
<1>12. BitsExact(r)
  <2>1. \A x \in Priority : r.q[RunQueue(x)] = k0.q[RunQueue(x)]
    <3> TAKE x \in Priority
    <3>1. RunQueue(x) \in Queues /\ RunQueue(x) # q
      BY <1>1, QueueNames
    <3>2. kk.q \in [Queues -> Seq(Thread)] /\ kk.q = k0.q
      BY Fields
    <3>3. r.q = [kk.q EXCEPT ![q] = s]
      BY <1>11
    <3> QED
      BY <3>1, <3>2, <3>3
  <2> QED
    BY <1>11, <2>1 DEF BitsExact, Good
<1>13. \A u \in Thread \ {t} : SameAt(k0, r, u)
  BY <1>4, <1>11 DEF SameAt
<1>14. In(r, q, t) /\ Sound(r, t)
  BY <1>1, <1>4, <1>11 DEF In, Sound, q
<1>15. r.q = [k0.q EXCEPT ![q] = s] /\ r.current = k0.current
       /\ SortedBy(s, r.priority)
  BY <1>7, <1>11
<1>16. Good(r, {} \ {t})
  <2> DEFINE L == {}
  <2>1. Good(k0, L)
    OBVIOUS
  <2> HIDE DEF L
  <2>2. Good(r, L \ {t})
    BY <1>1, <1>7, <1>8, <1>10, <1>12, <1>13, <1>14, <1>15, <2>1, PutOn
  <2> QED
    BY <2>2 DEF L
<1> QED
  BY <1>4, <1>11, <1>16

\* What one step of the program may do to other threads on its way, whoever
\* takes the step.
Evolves(kk, r) ==
    /\ r.Reschedule = kk.Reschedule /\ r.active = kk.active
    /\ r.alarms \subseteq kk.alarms
    /\ \A t \in Thread :
         /\ Terminated(kk, t) \/ Terminated(r, t) => r.state[t] = kk.state[t]
         /\ r.state[t] = "SLEEPING"
              => kk.state[t] = "SLEEPING" /\ r.queue[t] = kk.queue[t]
    /\ kk.Reschedule > 0 => r.current = kk.current
    /\ \/ Fits(r)
       \/ /\ r.current = kk.current
          /\ r.state[r.current] = kk.state[r.current]

\* The functions of the kernel that wake and switch do no more.
LEMMA FollowsEvolves ==
  ASSUME NEW kk, NEW r, Follows(kk, r)
  PROVE  Evolves(kk, r)
BY DEF Follows, Evolves, Frame

\* What a suspension of t does before the switch.
Suspends(kk, s, t) ==
    /\ Frame(kk, s) /\ s.current = kk.current
    /\ s.suspend[t] = 1
    /\ \A u \in Thread \ {t} :
         /\ s.suspend[u] = kk.suspend[u] /\ s.state[u] = kk.state[u]
         /\ kk.state[u] = "SLEEPING" => s.queue[u] = kk.queue[u]
    /\ Terminated(kk, t) \/ Terminated(s, t) => s.state[t] = kk.state[t]
    /\ s.state[t] = "SLEEPING"
         => kk.state[t] = "SLEEPING" /\ s.queue[t] = kk.queue[t]
    /\ \/ s.state[t] = kk.state[t]
       \/ t = kk.current /\ s.RunQueueHint
    /\ Remembered(kk) => Remembered(s)

\* The suspension of t is counted, and nothing else has been done.
FirstCount(kk, x, t) ==
    /\ x \in Kernel /\ x.suspend[t] = 1
    /\ \A u \in Thread \ {t} : SameAt(kk, x, u)
    /\ x.q = kk.q /\ x.RunQueueBits = kk.RunQueueBits
    /\ x.current = kk.current /\ x.RunQueueHint = kk.RunQueueHint
    /\ x.state = kk.state /\ x.priority = kk.priority
    /\ x.queue = kk.queue /\ Frame(kk, x)

\* Suspend takes the thread off the processor or the run queue, or to the end
\* of its wait queue.
LEMMA SuspendParts ==
  ASSUME OwnershipType, NEW kk, Good(kk, {}), NEW t \in Thread,
         kk.suspend[t] = 0,
         NEW x, FirstCount(kk, x, t), NEW s, s = Suspend(x, t)
  PROVE  \E y : /\ Good(y, {}) /\ Suspends(kk, y, t)
                /\ \A u \in Thread \ {t} : y.priority[u] = kk.priority[u]
                /\ kk.state[t] # "RUNNING" => y.state[t] = kk.state[t]
                /\ kk.state[t] = "SLEEPING" => s = UpdateBlocker(y, t)
                /\ kk.state[t] # "SLEEPING" => s = y
<1>1. kk \in Kernel
  BY DEF Good
<1>2. /\ x \in Kernel /\ x.suspend[t] = 1
      /\ \A u \in Thread \ {t} : SameAt(kk, x, u)
      /\ x.q = kk.q /\ x.RunQueueBits = kk.RunQueueBits
      /\ x.current = kk.current /\ x.RunQueueHint = kk.RunQueueHint
      /\ x.state = kk.state /\ x.priority = kk.priority
      /\ x.queue = kk.queue /\ Frame(kk, x)
  BY DEF FirstCount
<1>3. \A u \in Thread \ {t} : x.suspend[u] = kk.suspend[u]
  BY <1>2 DEF SameAt
<1>4. CASE kk.state[t] = "RUNNING"
  <2> DEFINE st == [x.state EXCEPT ![t] = "READY"]
  <2>1. s = [x EXCEPT !.RunQueueHint = TRUE, !.state[t] = "READY"]
    <3>1. x.state[t] = "RUNNING"
      BY <1>2, <1>4
    <3> QED
      BY <3>1 DEF Suspend
  <2>2. s = [x EXCEPT !.RunQueueHint = TRUE, !.state = st]
    <3> HIDE DEF st
    <3>1. x \in Kernel
      BY <1>2
    <3> QED
      BY <2>1, <3>1 DEF Kernel, st
  <2>3. st \in [Thread -> States] /\ st[t] = "READY"
        /\ \A u \in Thread \ {t} : st[u] = kk.state[u]
    <3>1. x.state \in [Thread -> States]
      BY <1>2, Fields
    <3> QED
      BY <1>2, <3>1 DEF States
  <2> HIDE DEF st
  <2>4. s \in Kernel
    <3>1. x \in Kernel
      BY <1>2
    <3> QED
      BY <2>2, <2>3, <3>1 DEF Kernel
  <2>5. /\ s.q = x.q /\ s.RunQueueBits = x.RunQueueBits
        /\ s.current = x.current /\ s.state = st /\ s.priority = x.priority
        /\ s.suspend = x.suspend
        /\ s.queue = x.queue /\ Frame(x, s) /\ s.RunQueueHint
    <3>1. x \in Kernel
      BY <1>2
    <3> QED
      BY <2>2, <3>1 DEF Kernel, Frame
  <2>6. \A u \in Thread \ {t} : SameAt(kk, s, u)
    BY <1>2, <1>3, <2>3, <2>5 DEF SameAt
  <2>7. s.state[t] = "READY" /\ s.suspend[t] = 1
    BY <1>2, <2>3, <2>5
  <2>8. Good(s, {})
    <3> DEFINE L == {}
    <3>1. \A u \in Thread \ {t} :
            /\ SameAt(kk, s, u) /\ (u \in L <=> u \in L)
            /\ u \notin L /\ s.state[u] = "RUNNING" => u = s.current
      BY <1>2, <2>5, <2>6 DEF SameAt, Good, Sound
    <3>2. \A q \in Queues : ~In(kk, q, t) /\ ~In(s, q, t)
      BY <1>4, <2>7 DEF In
    <3>3. Sound(s, t)
      BY <2>7 DEF Sound
    <3>4. s.q = kk.q /\ s.RunQueueBits = kk.RunQueueBits
      BY <1>2, <2>5
    <3>5. Good(kk, L)
      OBVIOUS
    <3> HIDE DEF L
    <3>6. Good(s, L)
      BY <2>4, <3>1, <3>2, <3>3, <3>4, <3>5, Change
    <3> QED
      BY <3>6 DEF L
  <2>9. t = kk.current
    BY <1>4 DEF Good, Sound
  <2>10. Remembered(s)
    BY <2>5 DEF Remembered
  <2>11. Frame(kk, s)
    BY <1>2, <2>5 DEF Frame
  <2>12. ~Terminated(kk, t) /\ ~Terminated(s, t)
    BY <1>4, <2>7 DEF Terminated
  <2>13. s.current = kk.current
    BY <1>2, <2>5
  <2>14. \A u \in Thread \ {t} :
           /\ s.suspend[u] = kk.suspend[u] /\ s.state[u] = kk.state[u]
           /\ s.queue[u] = kk.queue[u]
    BY <2>6 DEF SameAt
  <2>15. Suspends(kk, s, t)
    BY <2>5, <2>7, <2>9, <2>10, <2>11, <2>12, <2>13, <2>14 DEF Suspends
  <2>16. \A u \in Thread \ {t} : s.priority[u] = kk.priority[u]
    BY <2>6 DEF SameAt
  <2> QED
    BY <1>4, <2>8, <2>15, <2>16
<1>5. CASE kk.state[t] = "READY"
  <2>1. s = UnsetRun(x, t)
    BY <1>2, <1>5 DEF Suspend
  <2> DEFINE L == {}
             M == L \cup {t}
  <2>2. /\ Good(s, M) /\ Frame(x, s)
        /\ s.current = x.current /\ s.state = x.state
        /\ s.suspend = x.suspend /\ s.priority = x.priority
        /\ s.RunQueueHint = x.RunQueueHint
        /\ s.RunQueueBits \subseteq x.RunQueueBits
        /\ \A u \in Thread \ {t} : s.queue[u] = x.queue[u]
    <3>1. Good(kk, L) /\ t \in Thread \ L
      OBVIOUS
    <3>2. /\ x \in Kernel /\ x.q = kk.q /\ x.RunQueueBits = kk.RunQueueBits
          /\ x.queue = kk.queue /\ x.priority = kk.priority
          /\ x.current = kk.current
          /\ \A u \in Thread \ {t} : SameAt(kk, x, u)
      BY <1>2
    <3> HIDE DEF L
    <3> QED
      BY <1>5, <2>1, <3>1, <3>2, UnsetRunEffect
  <2>3. t \in M /\ \A u \in Thread \ {t} : u \in L <=> u \in M
    OBVIOUS
  <2>4. s.state[t] = "READY" /\ s.suspend[t] = 1
    BY <1>2, <1>5, <2>2
  <2>5. Good(s, L)
    <3> HIDE DEF L, M
    <3>1. \A u \in Thread \ {t} :
            /\ SameAt(s, s, u) /\ (u \in L <=> u \in M)
            /\ u \notin M /\ s.state[u] = "RUNNING" => u = s.current
      BY <2>2, <2>3 DEF SameAt, Good, Sound
    <3>2. Sound(s, t) /\ \A q \in Queues : ~In(s, q, t)
      BY <2>4 DEF In, Sound
    <3>3. s \in Kernel
      BY <2>2 DEF Good
    <3>4. Good(s, M) /\ t \in M
      BY <2>2, <2>3
    <3> QED
      BY ONLY t \in Thread, <3>1, <3>2, <3>3, <3>4, Change
  <2>6. \A u \in Thread \ {t} :
           /\ s.suspend[u] = kk.suspend[u] /\ s.state[u] = kk.state[u]
           /\ s.queue[u] = kk.queue[u]
    BY <1>2, <1>3, <2>2
  <2>7. Remembered(kk) => Remembered(s)
    BY <1>2, <2>2 DEF Remembered
  <2>8. Frame(kk, s) /\ s.current = kk.current
    BY <1>2, <2>2 DEF Frame
  <2>9. Suspends(kk, s, t)
    BY <1>5, <2>4, <2>6, <2>7, <2>8 DEF Suspends
  <2>10. Good(s, {})
    BY <2>5 DEF L
  <2>11. \A u \in Thread \ {t} : s.priority[u] = kk.priority[u]
    BY <1>2, <2>2
  <2>12. s.state[t] = kk.state[t]
    BY <1>5, <2>4
  <2> QED
    BY <1>5, <2>9, <2>10, <2>11, <2>12
<1>6. CASE kk.state[t] = "SLEEPING"
  <2> DEFINE y == LastInQueue(x, t)
  <2>1. s = UpdateBlocker(y, t)
    BY <1>2, <1>6 DEF Suspend, LastInQueue
  <2>2. /\ Good(y, {}) /\ Frame(x, y)
        /\ y.current = x.current /\ y.state = x.state
        /\ y.suspend = x.suspend /\ y.queue = x.queue
        /\ y.RunQueueHint = x.RunQueueHint
        /\ y.RunQueueBits = x.RunQueueBits
        /\ \A u \in Thread \ {t} : y.priority[u] = x.priority[u]
    <3>1. /\ x \in Kernel /\ x.q = kk.q /\ x.RunQueueBits = kk.RunQueueBits
          /\ x.queue = kk.queue /\ x.priority = kk.priority
          /\ x.state = kk.state /\ x.current = kk.current /\ x.suspend[t] = 1
          /\ \A u \in Thread \ {t} : SameAt(kk, x, u)
      BY <1>2
    <3>2. y = LastInQueue(x, t)
      OBVIOUS
    <3> HIDE DEF y
    <3> QED
      BY <1>6, <3>1, <3>2, SuspendSleeper
  <2> HIDE DEF y
  <2>3. /\ Frame(kk, y) /\ y.current = kk.current /\ y.state = kk.state
        /\ y.suspend = x.suspend /\ y.queue = kk.queue
        /\ y.RunQueueHint = kk.RunQueueHint
        /\ y.RunQueueBits = kk.RunQueueBits
        /\ \A u \in Thread \ {t} : y.priority[u] = kk.priority[u]
    BY <1>2, <2>2 DEF Frame
  <2>4. Remembered(kk) => Remembered(y)
    <3>1. CASE kk.current = t
      BY <1>6, <2>3, <3>1 DEF Remembered
    <3>2. CASE kk.current \in Thread \ {t}
      BY <2>3, <3>2 DEF Remembered
    <3>3. CASE kk.current \notin Thread
      BY <2>3, <3>3 DEF Remembered
    <3> QED
      BY <3>1, <3>2, <3>3
  <2>5. Suspends(kk, y, t)
    BY <1>2, <1>3, <2>3, <2>4 DEF Suspends
  <2> QED
    BY <1>6, <2>1, <2>2, <2>3, <2>5
<1>7. CASE kk.state[t] \notin {"RUNNING", "READY", "SLEEPING"}
  <2>1. s = x
    BY <1>2, <1>7 DEF Suspend
  <2>2. Good(x, {})
    <3>1. \A u \in Thread, q \in Queues : In(x, q, u) <=> In(kk, q, u)
      BY <1>2, <1>7 DEF In, SameAt
    <3>2. ASSUME NEW u \in Thread PROVE Sound(x, u)
      <4>1. CASE u = t
        BY <1>2, <1>7, <4>1 DEF Sound
      <4>2. CASE u # t
        BY <1>2, <4>2 DEF Sound, SameAt, Good
      <4> QED
        BY <4>1, <4>2
    <3>3. x \in Kernel /\ x.q = kk.q /\ x.RunQueueBits = kk.RunQueueBits
          /\ x.priority = kk.priority
      BY <1>2
    <3> QED
      BY <3>1, <3>2, <3>3, Alike
  <2>3. Remembered(kk) => Remembered(x)
    BY <1>2 DEF Remembered
  <2>4. Suspends(kk, x, t)
    BY <1>2, <1>3, <2>3 DEF Suspends
  <2> QED
    BY <1>2, <1>7, <2>1, <2>2, <2>4
<1> QED
  BY <1>4, <1>5, <1>6, <1>7

\* The same of what is left when the owner has been repriced.
LEMMA SuspendIsolates ==
  ASSUME OwnershipType, NEW kk, Good(kk, {}), NEW t \in Thread,
         kk.suspend[t] = 0,
         NEW x, FirstCount(kk, x, t), NEW s, s = Suspend(x, t)
  PROVE  Good(s, {}) /\ Suspends(kk, s, t)
<1>1. PICK y : /\ Good(y, {}) /\ Suspends(kk, y, t)
               /\ kk.state[t] = "SLEEPING" => s = UpdateBlocker(y, t)
               /\ kk.state[t] # "SLEEPING" => s = y
  BY SuspendParts
<1>2. CASE kk.state[t] = "SLEEPING"
  <2> DEFINE L == {}
  <2>1. y \in Kernel
    BY <1>1 DEF Good
  <2>2. Good(y, L) /\ ClosedFor(Thread, y, L)
    BY <1>1, <2>1, AllClosed
  <2>3. y.mutex[t] # NULL => owner[y.mutex[t]] \in Thread \cup {NULL}
    BY <2>1, Fields DEF OwnershipType
  <2> HIDE DEF L
  <2>4. Good(s, L) /\ Repriced(y, s)
    BY <1>1, <1>2, <2>2, <2>3, UpdateBlockerEffect
  <2>5. Suspends(kk, s, t)
    <3>1. Frame(kk, s)
      BY <1>1, <2>4 DEF Suspends, Repriced, Frame
    <3> QED
      BY <1>1, <2>4, <3>1 DEF Suspends, Repriced, Terminated
  <2>6. Good(s, {})
    BY <2>4 DEF L
  <2> QED
    BY <2>5, <2>6
<1>3. CASE kk.state[t] # "SLEEPING"
  BY <1>1, <1>3
<1> QED
  BY <1>2, <1>3

\* SuspendThread gives the processor to another thread when the current one
\* suspends itself.
LEMMA SuspendEffect ==
  ASSUME OwnershipType, NEW kk, Good(kk, {}), NEW t \in Thread,
         t = kk.current => kk.Reschedule = 0,
         NEW r, r = SuspendThread(kk, t)
  PROVE  /\ Good(r, {}) /\ Evolves(kk, r)
         /\ \A u \in Thread \ {t} : r.suspend[u] <= kk.suspend[u]
         /\ r.suspend[t] <= kk.suspend[t] + 1
         /\ kk.Reschedule = 0 /\ Settled(kk) => Settled(r)
         /\ Remembered(kk) => Remembered(r)
<1>1. kk \in Kernel /\ kk.suspend \in [Thread -> Nat]
  BY Fields DEF Good
<1>2. CASE kk.suspend[t] # 0
  <2> DEFINE n == kk.suspend[t] + 1
  <2>1. r = [kk EXCEPT !.suspend[t] = n]
    BY <1>2 DEF SuspendThread
  <2>2. n \in Nat \ {0} /\ n <= kk.suspend[t] + 1
    BY <1>1
  <2> HIDE DEF n
  <2>3. Good(r, {})
    BY <1>2, <2>1, <2>2, StillSuspended
  <2>4. /\ r.suspend[t] = n /\ \A u \in Thread \ {t} : SameAt(kk, r, u)
        /\ r.RunQueueBits = kk.RunQueueBits /\ r.priority = kk.priority
        /\ r.current = kk.current /\ r.state = kk.state
        /\ r.queue = kk.queue /\ Frame(kk, r)
        /\ r.RunQueueHint = kk.RunQueueHint
    BY <1>1, <2>1, <2>2, SuspendField
  <2>5. \A u \in Thread \ {t} : r.suspend[u] <= kk.suspend[u]
    BY <1>1, <2>4 DEF SameAt
  <2>6. Evolves(kk, r)
    BY <2>4 DEF Evolves, Frame, Terminated
  <2>7. /\ Settled(kk) => Settled(r)
        /\ Remembered(kk) => Remembered(r)
    BY <2>4 DEF Settled, Remembered
  <2> QED
    BY <2>2, <2>3, <2>4, <2>5, <2>6, <2>7
<1>3. CASE kk.suspend[t] = 0
  <2> DEFINE x == [kk EXCEPT !.suspend[t] = 1]
             s == Suspend(x, t)
  <2>1. r = __OSReschedule(s)
    <3>1. kk.suspend[t] + 1 = 1
      BY <1>3
    <3> QED
      BY <1>3, <3>1 DEF SuspendThread
  <2>2. Good(s, {}) /\ Suspends(kk, s, t)
    <3>1. FirstCount(kk, x, t)
      BY <1>1, SuspendField DEF FirstCount
    <3> HIDE DEF x
    <3> QED
      BY <1>3, <3>1, SuspendIsolates
  <2> HIDE DEF s
  <2>3. /\ Good(r, {}) /\ Follows(s, r)
        /\ s.Reschedule = 0 /\ s.RunQueueHint => Fits(r)
        /\ s.Reschedule = 0 /\ Remembered(s) => Settled(r)
    BY <2>1, <2>2, RescheduleEffect
  <2>4. s \in Kernel /\ r \in Kernel
    BY <2>2, <2>3 DEF Good
  <2>5. r.suspend \in [Thread -> Nat] /\ s.suspend \in [Thread -> Nat]
    BY <2>4, Fields
  <2>6. /\ \A u \in Thread \ {t} : r.suspend[u] <= kk.suspend[u]
        /\ r.suspend[t] <= kk.suspend[t] + 1
    BY <1>1, <1>3, <2>2, <2>3, <2>5 DEF Suspends, Follows
  <2>7. Frame(kk, r) /\ s.Reschedule = kk.Reschedule
    BY <2>2, <2>3 DEF Suspends, Follows, Frame
  <2>8. ASSUME NEW u \in Thread
        PROVE  /\ Terminated(kk, u) \/ Terminated(r, u)
                    => r.state[u] = kk.state[u]
               /\ r.state[u] = "SLEEPING"
                    => kk.state[u] = "SLEEPING" /\ r.queue[u] = kk.queue[u]
    <3>1. Terminated(kk, u) \/ Terminated(s, u) => s.state[u] = kk.state[u]
      BY <2>2 DEF Suspends
    <3>2. s.state[u] = "SLEEPING"
            => kk.state[u] = "SLEEPING" /\ s.queue[u] = kk.queue[u]
      BY <2>2 DEF Suspends
    <3> QED
      BY <2>3, <3>1, <3>2 DEF Follows, Terminated
  <2>9. kk.Reschedule > 0 => r.current = kk.current
    BY <2>2, <2>3, <2>7 DEF Follows, Suspends
  <2>10. \/ Fits(r)
         \/ r.current = kk.current /\ r.state[r.current] = kk.state[r.current]
    <3>1. CASE s.RunQueueHint /\ t = kk.current
      BY <2>3, <2>7, <3>1
    <3>2. CASE ~(s.RunQueueHint /\ t = kk.current)
      <4>1. \A u \in Thread : s.state[u] = kk.state[u]
        BY <2>2, <3>2 DEF Suspends
      <4>2. s.current = kk.current
        BY <2>2 DEF Suspends
      <4>3. CASE r.current \in Thread
        BY <2>3, <4>1, <4>2, <4>3 DEF Follows
      <4>4. CASE r.current \notin Thread
        BY <4>4 DEF Fits
      <4> QED
        BY <4>3, <4>4
    <3> QED
      BY <3>1, <3>2
  <2>11. Evolves(kk, r)
    BY <2>7, <2>8, <2>9, <2>10 DEF Evolves, Frame
  <2>12. kk.Reschedule = 0 /\ Settled(kk) => Settled(r)
    <3>1. Settled(kk) => Remembered(kk)
      BY DEF Settled, Remembered
    <3>2. Remembered(kk) => Remembered(s)
      BY <2>2 DEF Suspends
    <3> QED
      BY <2>3, <2>7, <3>1, <3>2
  <2>13. Remembered(kk) => Remembered(r)
    BY <2>2, <2>3 DEF Suspends, Follows
  <2> QED
    BY <2>3, <2>6, <2>11, <2>12, <2>13
<1> QED
  BY <1>2, <1>3

-----------------------------------------------------------------------------
(* Ending a thread. *)

\* The owners that t waits for, one after the other.
Chain(f, t) ==
    f = [n \in 0 .. Cardinality(Thread) |->
           IF n = 0 THEN t
           ELSE IF f[n - 1] = NULL THEN NULL ELSE BlockedBy(k, f[n - 1])]

\* The chain that Deadlocked follows.
LEMMA DeadlockedIsChain ==
  ASSUME NEW t
  PROVE  Deadlocked(t)
           <=> \E n \in 1 .. Cardinality(Thread) :
                 (CHOOSE f : Chain(f, t))[n] = t
BY DEF Deadlocked, Chain

\* The chain exists, and its members are threads.
LEMMA ChainExists ==
  ASSUME OwnershipType, k \in Kernel, NEW t \in Thread
  PROVE  /\ Cardinality(Thread) \in Nat
         /\ \E f : Chain(f, t)
<1> DEFINE N == Cardinality(Thread)
           S == Thread \cup {NULL}
           step == [u \in S |-> IF u = NULL THEN NULL ELSE BlockedBy(k, u)]
<1>1. N \in Nat
  BY KernelAssumption, FS_CardinalityType
<1>2. step \in [S -> S] /\ t \in S
  <2>1. \A u \in Thread : BlockedBy(k, u) \in S
    BY BlockedByType
  <2>2. \A u \in S : u # NULL => u \in Thread
    OBVIOUS
  <2>3. NULL \in S
    OBVIOUS
  <2> HIDE DEF S
  <2>4. step \in [S -> S]
    BY <2>1, <2>2, <2>3
  <2> QED
    BY <2>4 DEF S
<1> HIDE DEF N, S
<1>3. PICK f \in [0 .. N -> S] : Iterates(f, t, step, N)
  <2> HIDE DEF step
  <2> QED
    BY <1>1, <1>2, Iteration
<1>4. ASSUME NEW n \in 0 .. N
      PROVE  f[n] = IF n = 0 THEN t
                    ELSE IF f[n - 1] = NULL THEN NULL
                    ELSE BlockedBy(k, f[n - 1])
  <2>1. CASE n = 0
    BY <1>3, <2>1 DEF Iterates
  <2>2. CASE n # 0
    <3>1. n \in 1 .. N /\ n - 1 \in 0 .. N
      BY <1>1, <2>2
    <3>2. f[n] = step[f[n - 1]] /\ f[n - 1] \in S
      BY <1>3, <3>1 DEF Iterates
    <3> QED
      BY <2>2, <3>2
  <2> QED
    BY <2>1, <2>2
<1> HIDE DEF step
<1>5. f = [n \in 0 .. N |->
             IF n = 0 THEN t
             ELSE IF f[n - 1] = NULL THEN NULL ELSE BlockedBy(k, f[n - 1])]
  BY <1>4
<1>6. Chain(f, t)
  BY <1>5 DEF Chain, N
<1> QED
  BY <1>1, <1>6 DEF N

\* A list of more places than there are threads names one thread twice.
LEMMA TwicePigeon ==
  ASSUME NEW f \in [0 .. Cardinality(Thread) -> Thread]
  PROVE  \E i, j \in 0 .. Cardinality(Thread) : i < j /\ f[i] = f[j]
<1> DEFINE N == Cardinality(Thread)
           D == 0 .. N
<1>1. N \in Nat /\ IsFiniteSet(Thread)
  BY KernelAssumption, FS_CardinalityType
<1>2. IsFiniteSet(D) /\ Cardinality(D) = N + 1
  <2> HIDE DEF N
  <2>1. 0 \in Int /\ N \in Int /\ 0 <= N
    BY <1>1
  <2> QED
    BY <1>1, <2>1, FS_Interval
<1>3. Cardinality(Thread) < Cardinality(D)
  BY <1>1, <1>2
<1>4. PICK x, y \in D : x # y /\ f[x] = f[y]
  <2>1. f \in [D -> Thread]
    OBVIOUS
  <2> HIDE DEF D
  <2> QED
    BY <1>1, <1>2, <1>3, <2>1, FS_PigeonHole
<1>5. x \in Nat /\ y \in Nat
  BY <1>1
<1>6. x < y \/ y < x
  BY <1>4, <1>5
<1> QED
  BY <1>4, <1>6

\* A thread that does not wait for itself waits for the threads of a set that
\* it is not in, and they for each other.
LEMMA WaitsForOthers ==
  ASSUME OwnershipType, k \in Kernel, NEW t \in Thread, ~Deadlocked(t)
  PROVE  \E C \in SUBSET (Thread \ {t}) :
           \A u \in C \cup {t} : BlockedBy(k, u) \in C \cup {NULL}
<1> DEFINE N == Cardinality(Thread)
           f == CHOOSE f : Chain(f, t)
           C == {f[n] : n \in 1 .. N} \ {NULL}
<1>1. N \in Nat /\ N # 0
  <2>1. Thread # {} /\ IsFiniteSet(Thread)
    BY KernelAssumption
  <2> QED
    BY <2>1, FS_CardinalityType, FS_EmptySet
<1>2. Chain(f, t)
  BY ChainExists
<1> HIDE DEF f
<1>3. /\ DOMAIN f = 0 .. N /\ f[0] = t
      /\ \A n \in 1 .. N :
           f[n] = IF f[n - 1] = NULL THEN NULL ELSE BlockedBy(k, f[n - 1])
  <2>1. f = [n \in 0 .. N |->
               IF n = 0 THEN t
               ELSE IF f[n - 1] = NULL THEN NULL ELSE BlockedBy(k, f[n - 1])]
    BY <1>2 DEF Chain
  <2> HIDE DEF N
  <2>2. DOMAIN f = 0 .. N
    BY <2>1
  <2>3. 0 \in 0 .. N /\ \A n \in 1 .. N : n \in 0 .. N /\ n # 0
    BY <1>1
  <2>4. f[0] = t
    BY <2>1, <2>3
  <2>5. ASSUME NEW n \in 1 .. N
        PROVE  f[n] = IF f[n - 1] = NULL THEN NULL ELSE BlockedBy(k, f[n - 1])
    BY <2>1, <2>3
  <2> QED
    BY <2>2, <2>4, <2>5
<1>4. \A n \in 1 .. N : f[n] # t
  BY DeadlockedIsChain DEF f
<1> HIDE DEF N
<1>5. \A n \in 0 .. N : f[n] \in Thread \cup {NULL}
  <2> DEFINE S == Thread \cup {NULL}
  <2>1. ASSUME NEW n \in 1 .. N, f[n - 1] \in S PROVE f[n] \in S
    BY <1>3, <2>1, BlockedByType
  <2>2. f[0] \in S
    BY <1>3
  <2> HIDE DEF S
  <2>3. \A n \in 0 .. N : f[n] \in S
    BY <1>1, <2>1, <2>2, Reach
  <2> QED
    BY <2>3 DEF S
<1>6. C \in SUBSET (Thread \ {t})
  <2>1. \A n \in 1 .. N : n \in 0 .. N
    OBVIOUS
  <2> QED
    BY <1>4, <1>5, <2>1
<1>7. ASSUME NEW n \in 0 .. N, f[n] # NULL
      PROVE  BlockedBy(k, f[n]) \in C \cup {NULL}
  <2>1. CASE n # N
    <3>1. n + 1 \in 1 .. N /\ (n + 1) - 1 = n
      BY <1>1, <2>1
    <3>2. f[n + 1] = BlockedBy(k, f[n])
      BY <1>3, <1>7, <3>1
    <3> QED
      BY <3>1, <3>2
  <2>2. CASE n = N
    <3>1. ASSUME NEW i \in 0 .. N, f[i] = NULL PROVE FALSE
      <4> DEFINE T == {m \in Nat : i + m <= N => f[i + m] = NULL}
      <4>1. 0 \in T
        BY <3>1
      <4>2. ASSUME NEW m \in Nat, m \in T PROVE m + 1 \in T
        <5> SUFFICES ASSUME i + (m + 1) <= N PROVE f[i + (m + 1)] = NULL
          OBVIOUS
        <5>0. i + m <= N
          BY <1>1
        <5>1. f[i + m] = NULL
          BY <4>2, <5>0
        <5>2. i + (m + 1) \in 1 .. N /\ (i + (m + 1)) - 1 = i + m
          BY <1>1
        <5> QED
          BY <1>3, <5>1, <5>2
      <4>3. N - i \in Nat /\ i + (N - i) = N
        BY <1>1
      <4>4. N - i \in T
        <5> HIDE DEF T
        <5> QED
          BY <4>1, <4>2, <4>3, Induction
      <4> QED
        BY <1>7, <2>2, <4>3, <4>4
    <3>2. f \in [0 .. N -> Thread]
      <4>1. \A i \in 0 .. N : f[i] \in Thread
        BY <1>5, <3>1
      <4>2. f = [i \in 0 .. N |-> f[i]]
        BY <1>2, <1>3 DEF Chain, N
      <4> QED
        BY <4>1, <4>2
    <3>3. PICK i \in 0 .. N : \E j \in 0 .. N : i < j /\ f[i] = f[j]
      BY <3>2, TwicePigeon DEF N
    <3>4. PICK j \in 0 .. N : i < j /\ f[i] = f[j]
      BY <3>3
    <3> DEFINE T == {m \in Nat : j + m <= N => f[i + m] = f[j + m]}
    <3>5. 0 \in T
      BY <3>4
    <3>6. ASSUME NEW m \in Nat, m \in T PROVE m + 1 \in T
      <4> SUFFICES ASSUME j + (m + 1) <= N
                   PROVE  f[i + (m + 1)] = f[j + (m + 1)]
        OBVIOUS
      <4>0. j + m <= N
        BY <1>1
      <4>1. f[i + m] = f[j + m]
        BY <3>6, <4>0
      <4>2. /\ i + (m + 1) \in 1 .. N /\ (i + (m + 1)) - 1 = i + m
            /\ j + (m + 1) \in 1 .. N /\ (j + (m + 1)) - 1 = j + m
        BY <1>1, <3>4
      <4> QED
        BY <1>3, <4>1, <4>2
    <3>7. N - j \in Nat /\ j + (N - j) = N
      BY <1>1
    <3>8. N - j \in T
      <4> HIDE DEF T
      <4> QED
        BY <3>5, <3>6, <3>7, Induction
    <3>9. f[i + (N - j)] = f[n]
      BY <2>2, <3>7, <3>8
    <3>10. /\ i + (N - j) + 1 \in 1 .. N
           /\ (i + (N - j) + 1) - 1 = i + (N - j)
      BY <1>1, <3>4
    <3>11. f[i + (N - j) + 1] = BlockedBy(k, f[n])
      BY <1>3, <1>7, <3>9, <3>10
    <3> QED
      BY <3>10, <3>11
  <2> QED
    BY <2>1, <2>2
<1>8. ASSUME NEW u \in C \cup {t} PROVE BlockedBy(k, u) \in C \cup {NULL}
  <2>1. \E n \in 0 .. N : u = f[n]
    <3>1. 0 \in 0 .. N /\ \A n \in 1 .. N : n \in 0 .. N
      BY <1>1
    <3> QED
      BY <1>3, <3>1
  <2>2. u # NULL
    BY KernelAssumption
  <2> HIDE DEF C
  <2> QED
    BY <1>7, <2>1, <2>2
<1> QED
  BY <1>6, <1>8

\* t has no place any more, and nothing that matters has happened to others.
Withdrawn(kk, s, t) ==
    /\ Frame(kk, s) /\ s.current = kk.current /\ s.suspend = kk.suspend
    /\ s.state = kk.state
    /\ \A u \in Thread \ {t} :
         kk.state[u] = "SLEEPING" => s.queue[u] = kk.queue[u]
    /\ Remembered(kk) => Remembered(s)

\* t has ended, and nothing that matters has happened to others.
Ended(kk, r, t) ==
    /\ r.Reschedule = kk.Reschedule /\ r.alarms = kk.alarms
    /\ r.current = kk.current /\ r.suspend = kk.suspend
    /\ Terminated(r, t) /\ (t \in r.active <=> r.state[t] # "EXITED")
    /\ \A u \in Thread \ {t} :
         /\ r.state[u] = kk.state[u] /\ (u \in r.active <=> u \in kk.active)
         /\ kk.state[u] = "SLEEPING" => r.queue[u] = kk.queue[u]
    /\ Remembered(kk) => Remembered(r)

\* Terminate ends a thread that is in no queue.
LEMMA TerminateEffect ==
  ASSUME NEW kk, NEW L \in SUBSET Thread, Good(kk, L), NEW t \in Thread,
         t \in L \/ \A q \in Queues : ~In(kk, q, t), L \subseteq {t},
         t \in kk.active, NEW r, r = Terminate(kk, t)
  PROVE  Good(r, {}) /\ Ended(kk, r, t)
<1>1. kk \in Kernel
  BY DEF Good
<1> DEFINE e == IF t \in kk.detached THEN "EXITED" ELSE "MORIBUND"
           st == [kk.state EXCEPT ![t] = e]
           ac == IF t \in kk.detached THEN kk.active \ {t} ELSE kk.active
<1>2. r = [kk EXCEPT !.active = ac, !.state = st]
  BY <1>1 DEF Terminate, Kernel
<1>3. e \in {"EXITED", "MORIBUND"} /\ (t \in ac <=> e # "EXITED")
  OBVIOUS
<1>4. st \in [Thread -> States] /\ st[t] = e
      /\ \A u \in Thread \ {t} : st[u] = kk.state[u]
  <2>1. kk.state \in [Thread -> States] /\ e \in States
    BY <1>1, Fields DEF States
  <2> HIDE DEF e
  <2> QED
    BY <2>1
<1>5. /\ ac \in SUBSET Thread
      /\ \A u \in Thread \ {t} : u \in ac <=> u \in kk.active
  <2>1. kk.active \in SUBSET Thread
    BY <1>1, Fields
  <2> QED
    BY <2>1
<1> HIDE DEF e, st, ac
<1>6. r \in Kernel
  BY <1>1, <1>2, <1>4, <1>5 DEF Kernel
<1>7. /\ r.q = kk.q /\ r.RunQueueBits = kk.RunQueueBits
      /\ r.current = kk.current /\ r.state = st /\ r.active = ac
      /\ r.suspend = kk.suspend /\ r.priority = kk.priority
      /\ r.queue = kk.queue /\ r.RunQueueHint = kk.RunQueueHint
      /\ r.Reschedule = kk.Reschedule /\ r.alarms = kk.alarms
  BY <1>1, <1>2 DEF Kernel
<1>8. Sound(r, t) /\ \A q \in Queues : ~In(r, q, t)
  BY <1>3, <1>4, <1>7 DEF Sound, In
<1>9. Good(r, {})
  <2> DEFINE M == {}
  <2>1. \A u \in Thread \ {t} :
          /\ SameAt(kk, r, u) /\ (u \in M <=> u \in L)
          /\ u \notin L /\ r.state[u] = "RUNNING" => u = r.current
    BY <1>4, <1>7 DEF SameAt, Good, Sound
  <2>2. r.q = kk.q /\ r.RunQueueBits = kk.RunQueueBits
    BY <1>7
  <2> HIDE DEF M
  <2>3. t \notin M => Sound(r, t) /\ \A q \in Queues : ~In(r, q, t)
    BY <1>8
  <2>4. ASSUME t \in L PROVE Good(r, M)
    BY <1>6, <2>1, <2>2, <2>3, <2>4, Change
  <2>5. ASSUME \A q \in Queues : ~In(kk, q, t) PROVE Good(r, M)
    BY <1>6, <2>1, <2>2, <2>3, <2>5, Change
  <2> QED
    BY <2>4, <2>5 DEF M
<1>10. Terminated(r, t)
  BY <1>3, <1>4, <1>7 DEF Terminated
<1>11. Remembered(kk) => Remembered(r)
  <2>1. CASE r.current = t
    BY <1>3, <1>4, <1>7, <2>1 DEF Remembered
  <2>2. CASE r.current # t
    BY <1>4, <1>7, <2>2 DEF Remembered
  <2> QED
    BY <2>1, <2>2
<1>12. t \in r.active <=> r.state[t] # "EXITED"
  BY <1>3, <1>4, <1>7
<1>13. \A u \in Thread \ {t} :
         /\ r.state[u] = kk.state[u] /\ (u \in r.active <=> u \in kk.active)
         /\ r.queue[u] = kk.queue[u]
  BY <1>4, <1>5, <1>7
<1> QED
  BY <1>7, <1>9, <1>10, <1>11, <1>12, <1>13 DEF Ended

\* Unlinking a sleeper from its wait queue.
LEMMA UnlinkSleeper ==
  ASSUME NEW kk, Good(kk, {}), NEW t \in Thread, kk.state[t] = "SLEEPING",
         NEW r, r = [kk EXCEPT !.q[kk.queue[t]] = Unlink(@, t),
                               !.queue[t] = NULL]
  PROVE  /\ Good(r, {t}) /\ Withdrawn(kk, r, t)
         /\ r.priority = kk.priority
<1> DEFINE q == kk.queue[t]
           s == Unlink(kk.q[q], t)
           e == [kk.q EXCEPT ![q] = s]
           w == [kk.queue EXCEPT ![t] = NULL]
<1>1. kk \in Kernel /\ q \in BlockingQueues /\ q \in Queues /\ In(kk, q, t)
  BY QueueNames DEF Good, Sound, In
<1>2. /\ kk.q[q] \in Seq(Thread) /\ IsInjective(kk.q[q])
      /\ t \in Range(kk.q[q]) /\ SortedBy(kk.q[q], kk.priority)
  BY <1>1, Fields DEF Good
<1>3. r = [kk EXCEPT !.q = e, !.queue = w]
  BY <1>1, Fields DEF Kernel
<1>4. w \in [Thread -> Queues \cup {NULL}]
      /\ \A u \in Thread \ {t} : w[u] = kk.queue[u]
  BY <1>1, Fields
<1> HIDE DEF q, w
<1>5. /\ s \in Seq(Thread) /\ IsInjective(s)
      /\ Range(s) = Range(kk.q[q]) \ {t}
  BY <1>2, UnlinkProperties
<1>6. SortedBy(s, kk.priority)
  BY <1>2, UnlinkSorted
<1> HIDE DEF s
<1>7. e \in [Queues -> Seq(Thread)]
      /\ \A p \in Queues \ {q} : e[p] = kk.q[p]
  BY <1>1, <1>5, Fields
<1>8. e = [kk.q EXCEPT ![q] = s]
  OBVIOUS
<1> HIDE DEF e
<1>9. r \in Kernel
  BY <1>1, <1>3, <1>4, <1>7 DEF Kernel
<1>10. /\ r.q = e /\ r.RunQueueBits = kk.RunQueueBits
       /\ r.current = kk.current /\ r.state = kk.state
       /\ r.suspend = kk.suspend /\ r.priority = kk.priority
       /\ r.queue = w /\ r.RunQueueHint = kk.RunQueueHint /\ Frame(kk, r)
  BY <1>1, <1>3 DEF Kernel, Frame
<1>11. BitsExact(r)
  <2>1. \A x \in Priority : r.q[RunQueue(x)] = kk.q[RunQueue(x)]
    <3> TAKE x \in Priority
    <3>1. RunQueue(x) \in Queues /\ RunQueue(x) # q
      BY <1>1, QueueNames
    <3> QED
      BY <1>7, <1>10, <3>1
  <2> QED
    BY <1>10, <2>1 DEF BitsExact, Good
<1>12. \A u \in Thread \ {t} : SameAt(kk, r, u)
  BY <1>4, <1>10 DEF SameAt
<1>13. Good(r, {t})
  <2> DEFINE L == {}
             M == L \cup {t}
  <2>1. Good(kk, L) /\ t \in Thread \ L
    OBVIOUS
  <2> HIDE DEF L
  <2>2. r.q = [kk.q EXCEPT ![q] = s] /\ r.current = kk.current
        /\ SortedBy(s, r.priority)
    BY <1>6, <1>8, <1>10
  <2>3. Good(r, M)
    BY <1>1, <1>5, <1>9, <1>11, <1>12, <2>1, <2>2, TakeOff
  <2>4. M = {t}
    BY DEF L
  <2> QED
    BY <2>3, <2>4
<1>14. \A u \in Thread \ {t} : r.queue[u] = kk.queue[u]
  BY <1>4, <1>10
<1>15. Remembered(kk) => Remembered(r)
  BY <1>10 DEF Remembered
<1> QED
  BY <1>10, <1>13, <1>14, <1>15 DEF Withdrawn

\* Taking a runnable thread off the run queue.
LEMMA UnsetReady ==
  ASSUME NEW kk, NEW L, Good(kk, L), NEW t \in Thread \ L,
         kk.state[t] = "READY", kk.suspend[t] = 0,
         NEW r, r = UnsetRun(kk, t)
  PROVE  /\ Good(r, L \cup {t}) /\ Frame(kk, r)
         /\ r.current = kk.current /\ r.state = kk.state
         /\ r.suspend = kk.suspend /\ r.priority = kk.priority
         /\ r.RunQueueHint = kk.RunQueueHint
         /\ r.RunQueueBits \subseteq kk.RunQueueBits
         /\ \A u \in Thread \ {t} : r.queue[u] = kk.queue[u]
<1>1. kk \in Kernel
  BY DEF Good
<1>2. \A u \in Thread \ {t} : SameAt(kk, kk, u)
  BY DEF SameAt
<1> QED
  BY <1>1, <1>2, UnsetRunEffect

\* A sleeper that is not deadlocked is taken out of its queue; C are the
\* threads that it waits for.
LEMMA WithdrawParts ==
  ASSUME OwnershipType, Good(k, {}), NEW t \in Thread, ~Deadlocked(t),
         k.state[t] = "SLEEPING", NEW s, s = Withdraw(k, t)
  PROVE  \E off, C : /\ Good(off, {t}) /\ Withdrawn(k, off, t)
                     /\ off.priority = k.priority
                     /\ ClosedFor(C, off, {t})
                     /\ off.mutex[t] # NULL
                          => owner[off.mutex[t]] \in C \cup {NULL}
                     /\ k.suspend[t] = 0 => s = UpdateBlocker(off, t)
                     /\ k.suspend[t] # 0 => s = off
<1> DEFINE off == [k EXCEPT !.q[k.queue[t]] = Unlink(@, t), !.queue[t] = NULL]
<1>1. k \in Kernel /\ k.suspend \in [Thread -> Nat]
  BY Fields DEF Good
<1>2. k.suspend[t] <= 0 <=> k.suspend[t] = 0
  BY <1>1
<1>3. s = IF k.suspend[t] = 0 THEN UpdateBlocker(off, t) ELSE off
  BY <1>2 DEF Withdraw
<1>4. Good(off, {t}) /\ Withdrawn(k, off, t) /\ off.priority = k.priority
  BY UnlinkSleeper
<1> HIDE DEF off
<1>5. PICK C \in SUBSET (Thread \ {t}) :
         \A u \in C \cup {t} : BlockedBy(k, u) \in C \cup {NULL}
  BY <1>1, WaitsForOthers
<1>6. \A u : BlockedBy(off, u) = BlockedBy(k, u)
  BY <1>4 DEF Withdrawn, Frame, BlockedBy
<1>7. ClosedFor(C, off, {t})
  BY <1>5, <1>6 DEF ClosedFor
<1>8. off.mutex[t] # NULL => owner[off.mutex[t]] \in C \cup {NULL}
  <2>1. off.mutex = k.mutex
    BY <1>4 DEF Withdrawn, Frame
  <2>2. BlockedBy(k, t) \in C \cup {NULL}
    BY <1>5
  <2> QED
    BY <2>1, <2>2 DEF BlockedBy
<1> QED
  BY <1>3, <1>4, <1>7, <1>8

\* OSCancelThread takes a thread that is not deadlocked out of its queue, and
\* the owner it waited for gives its priority up.
LEMMA WithdrawEffect ==
  ASSUME OwnershipType, Good(k, {}), NEW t \in Thread, ~Deadlocked(t),
         NEW s, s = Withdraw(k, t)
  PROVE  /\ \/ Good(s, {t})
            \/ Good(s, {}) /\ \A q \in Queues : ~In(s, q, t)
         /\ Withdrawn(k, s, t)
<1>1. k \in Kernel /\ k.suspend \in [Thread -> Nat]
  BY Fields DEF Good
<1>2. k.suspend[t] <= 0 <=> k.suspend[t] = 0
  BY <1>1
<1>3. CASE k.state[t] = "READY" /\ k.suspend[t] = 0
  <2>1. s = UnsetRun(k, t)
    BY <1>2, <1>3 DEF Withdraw
  <2> DEFINE L == {}
             M == L \cup {t}
  <2>2. /\ Good(s, M) /\ Frame(k, s)
        /\ s.current = k.current /\ s.state = k.state
        /\ s.suspend = k.suspend /\ s.priority = k.priority
        /\ s.RunQueueHint = k.RunQueueHint
        /\ s.RunQueueBits \subseteq k.RunQueueBits
        /\ \A u \in Thread \ {t} : s.queue[u] = k.queue[u]
    <3>1. Good(k, L) /\ t \in Thread \ L
      OBVIOUS
    <3> HIDE DEF L
    <3> QED
      BY <1>3, <2>1, <3>1, UnsetReady
  <2>3. M = {t}
    OBVIOUS
  <2> HIDE DEF M
  <2>4. Withdrawn(k, s, t)
    BY <2>2 DEF Withdrawn, Remembered
  <2> QED
    BY <2>2, <2>3, <2>4
<1>4. CASE k.state[t] = "RUNNING"
  <2>1. s = [k EXCEPT !.RunQueueHint = TRUE]
    BY <1>4 DEF Withdraw
  <2>2. /\ s.q = k.q /\ s.RunQueueBits = k.RunQueueBits
        /\ s.current = k.current /\ s.state = k.state
        /\ s.suspend = k.suspend /\ s.priority = k.priority
        /\ s.queue = k.queue /\ s.RunQueueHint /\ Frame(k, s)
    BY <1>1, <2>1 DEF Kernel, Frame
  <2>3. s \in Kernel
    BY <1>1, <2>1 DEF Kernel
  <2>4. Good(s, {})
    <3> DEFINE L == {}
    <3>1. \A u \in Thread :
            /\ SameAt(k, s, u)
            /\ u \notin L /\ s.state[u] = "RUNNING" => u = s.current
      BY <2>2 DEF SameAt, Good, Sound
    <3>2. Good(k, L)
      OBVIOUS
    <3> HIDE DEF L
    <3>3. Good(s, L)
      BY <2>2, <2>3, <3>1, <3>2, Unmoved
    <3> QED
      BY <3>3 DEF L
  <2>5. \A q \in Queues : ~In(s, q, t)
    BY <1>4, <2>2 DEF In
  <2>6. Withdrawn(k, s, t)
    BY <2>2 DEF Withdrawn, Remembered
  <2> QED
    BY <2>4, <2>5, <2>6
<1>5. CASE k.state[t] = "SLEEPING"
  <2>1. PICK off, C : /\ Good(off, {t}) /\ Withdrawn(k, off, t)
                      /\ ClosedFor(C, off, {t})
                      /\ off.mutex[t] # NULL
                           => owner[off.mutex[t]] \in C \cup {NULL}
                      /\ k.suspend[t] = 0 => s = UpdateBlocker(off, t)
                      /\ k.suspend[t] # 0 => s = off
    BY <1>5, WithdrawParts
  <2>2. CASE k.suspend[t] # 0
    BY <2>1, <2>2
  <2>3. CASE k.suspend[t] = 0
    <3> DEFINE M == {t}
    <3>1. Good(off, M) /\ ClosedFor(C, off, M) /\ s = UpdateBlocker(off, t)
      BY <2>1, <2>3
    <3> HIDE DEF M
    <3>2. Good(s, M) /\ Repriced(off, s)
      BY <2>1, <3>1, UpdateBlockerEffect
    <3>3. Frame(k, s)
      BY <2>1, <3>2 DEF Withdrawn, Repriced, Frame
    <3>4. Withdrawn(k, s, t)
      BY <2>1, <3>2, <3>3 DEF Withdrawn, Repriced
    <3>5. Good(s, {t})
      BY <3>2 DEF M
    <3> QED
      BY <3>4, <3>5
  <2> QED
    BY <2>2, <2>3
<1>6. CASE /\ ~(k.state[t] = "READY" /\ k.suspend[t] = 0)
           /\ k.state[t] \notin {"RUNNING", "SLEEPING"}
  <2>1. s = k
    BY <1>2, <1>6 DEF Withdraw
  <2>2. \A q \in Queues : ~In(k, q, t)
    BY <1>6 DEF In
  <2>3. Withdrawn(k, k, t)
    BY DEF Withdrawn, Frame
  <2> QED
    BY <2>1, <2>2, <2>3
<1> QED
  BY <1>3, <1>4, <1>5, <1>6

\* OSCancelThread and OSExitThread end the thread.
LEMMA CancelEffect ==
  ASSUME OwnershipType, Good(k, {}), NEW t \in Thread, ~Deadlocked(t),
         t \in k.active, NEW r, r = Terminate(Withdraw(k, t), t)
  PROVE  Good(r, {}) /\ Ended(k, r, t)
<1> DEFINE s == Withdraw(k, t)
<1>1. /\ \/ Good(s, {t})
         \/ Good(s, {}) /\ \A q \in Queues : ~In(s, q, t)
      /\ Withdrawn(k, s, t)
  BY WithdrawEffect
<1>2. r = Terminate(s, t)
  OBVIOUS
<1> HIDE DEF s
<1>3. t \in s.active /\ s.active = k.active
  BY <1>1 DEF Withdrawn, Frame
<1>4. Good(r, {}) /\ Ended(s, r, t)
  <2>1. CASE Good(s, {t})
    <3> DEFINE L == {t}
    <3>1. Good(s, L) /\ t \in L /\ L \subseteq {t} /\ L \in SUBSET Thread
      BY <2>1
    <3> HIDE DEF L
    <3> QED
      BY <1>2, <1>3, <3>1, TerminateEffect
  <2>2. CASE Good(s, {}) /\ \A q \in Queues : ~In(s, q, t)
    <3> DEFINE L == {}
    <3>1. Good(s, L) /\ L \subseteq {t} /\ L \in SUBSET Thread
      BY <2>2
    <3> HIDE DEF L
    <3> QED
      BY <1>2, <1>3, <2>2, <3>1, TerminateEffect
  <2> QED
    BY <1>1, <2>1, <2>2
<1>5. Ended(k, r, t)
  BY <1>1, <1>4 DEF Withdrawn, Ended, Frame
<1> QED
  BY <1>4, <1>5

\* OSExitThread ends the thread that runs.
LEMMA ExitEffect ==
  ASSUME NEW kk, Good(kk, {}), NEW t \in Thread, kk.state[t] = "RUNNING",
         t \in kk.active, NEW r, r = Terminate(kk, t)
  PROVE  Good(r, {}) /\ Ended(kk, r, t)
<1> DEFINE L == {}
<1>1. Good(kk, L) /\ L \subseteq {t} /\ L \in SUBSET Thread
  OBVIOUS
<1>2. \A q \in Queues : ~In(kk, q, t)
  BY DEF In
<1> HIDE DEF L
<1> QED
  BY <1>1, <1>2, TerminateEffect
=============================================================================
