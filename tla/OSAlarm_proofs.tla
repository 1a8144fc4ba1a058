--------------------------- MODULE OSAlarm_proofs ---------------------------
(***************************************************************************)
(* The properties of OSAlarm, for every number of alarms, every width of   *)
(* the decrementer and all times.                                          *)
(***************************************************************************)
EXTENDS OSAlarm, DataFacts, FiniteSetTheorems

-----------------------------------------------------------------------------
(* The inductive invariant. *)

Link == Alarm \cup {NULL}

Queue ==
    [head : Link, tail : Link, prev : [Alarm -> Link], next : [Alarm -> Link]]

\* The types of all the variables.
StateType ==
    /\ AlarmQueue \in Queue /\ handler \subseteq Alarm
    /\ end \in [Alarm -> Nat] /\ period \in [Alarm -> Nat]
    /\ start \in [Alarm -> Nat]
    /\ now \in Nat /\ timer \in Nat \cup {NULL}
    /\ running \in Link /\ final \in BOOLEAN

\* The links of queue are those of the list of the n alarms l.
Chain(queue, n, l) ==
    /\ l \in [1 .. n -> Alarm]
    /\ \A i, j \in 1 .. n : l[i] = l[j] => i = j
    /\ queue.head = IF n = 0 THEN NULL ELSE l[1]
    /\ queue.tail = IF n = 0 THEN NULL ELSE l[n]
    /\ \A i \in 1 .. n :
         /\ queue.prev[l[i]] = IF i = 1 THEN NULL ELSE l[i - 1]
         /\ queue.next[l[i]] = IF i = n THEN NULL ELSE l[i + 1]

Members(n, l) == {l[i] : i \in 1 .. n}

Sorted(n, l, at) == \A i, j \in 1 .. n : i < j => at[l[i]] <= at[l[j]]

\* The list holds the alarms that are set, sorted.
Holds(queue, set, at, n, l) ==
    Chain(queue, n, l) /\ Members(n, l) = set /\ Sorted(n, l, at)

Listed ==
    \E n \in Nat : \E l \in [1 .. n -> Alarm] :
      Holds(AlarmQueue, handler, end, n, l)

\* The decrementer raises its exception in time for the first alarm, and after
\* the time at which that was started, if it is a periodic one.
Covers(queue, at, t) ==
    queue.head # NULL =>
      /\ t # NULL
      /\ t <= now + 1 \/ t <= at[queue.head] + 1
      /\ period[queue.head] > 0 /\ start[queue.head] = now => now < t

TimerSet == ~final => Covers(AlarmQueue, end, timer)

\* A periodic alarm that is set is due at a point of its grid, and its grid
\* does not start in the future.
OnGrid ==
    \A a \in Alarm :
      /\ start[a] <= now
      /\ a \in handler /\ period[a] > 0 =>
           \E k \in Nat : end[a] = start[a] + period[a] * k

AlarmInv == StateType /\ Listed /\ TimerSet /\ OnGrid

-----------------------------------------------------------------------------
(* The doubly linked list. *)

\* What the assumptions say of the alarms.
LEMMA Alarms0 ==
  /\ IsFiniteSet(Alarm) /\ Cardinality(Alarm) \in Nat
  /\ NULL \notin Alarm /\ NULL \notin Int
BY AlarmAssumption, FS_CardinalityType

\* The number of members of a list is the number of places, and no more than
\* there are alarms.
LEMMA ChainLength ==
  ASSUME NEW q, NEW n \in Nat, NEW l, Chain(q, n, l)
  PROVE  n <= Cardinality(Alarm) /\ Cardinality(Members(n, l)) = n
<1>1. l \in Injection(1 .. n, Alarm)
  BY DEF Chain, Injection, IsInjective
<1>2. Cardinality(1 .. n) = n
  BY FS_Interval
<1>3. n <= Cardinality(Alarm)
  BY <1>1, <1>2, Alarms0, FS_Injection
<1>4. l \in Bijection(1 .. n, Members(n, l))
  BY DEF Chain, Members, Bijection, Injection, Surjection, IsInjective
<1>5. Cardinality(Members(n, l)) = n
  BY <1>4, FS_CountingElements DEF ExistsBijection
<1> QED
  BY <1>3, <1>5

\* What the recursion of Node defines.
IsNode(q, i, f) ==
    f = [j \in 0 .. i |-> IF j = 0 THEN q.head
                          ELSE IF f[j - 1] = NULL THEN NULL
                          ELSE q.next[f[j - 1]]]

\* Following the links from the head leads from each alarm of the list to the
\* next one, and after the last one to NULL.
LEMMA NodeOfChain ==
  ASSUME NEW q, NEW n \in Nat, NEW l, Chain(q, n, l), NEW i \in 0 .. n
  PROVE  Node(q, i) = IF i < n THEN l[i + 1] ELSE NULL
<1> DEFINE at(j) == IF j < n THEN l[j + 1] ELSE NULL
           node == CHOOSE f : IsNode(q, i, f)
<1>1. \E f : IsNode(q, i, f)
  <2> DEFINE f == [j \in 0 .. i |-> at(j)]
  <2>1. ASSUME NEW j \in 0 .. i, j # 0
        PROVE  at(j) = IF f[j - 1] = NULL THEN NULL ELSE q.next[f[j - 1]]
    <3>1. j - 1 \in 0 .. i /\ j - 1 < n /\ f[j - 1] = l[j] /\ j \in 1 .. n
      BY <2>1
    <3>2. l[j] # NULL
      BY <3>1, Alarms0 DEF Chain
    <3> QED
      BY <3>1, <3>2 DEF Chain
  <2>2. at(0) = q.head
    BY DEF Chain
  <2>3. f = [j \in 0 .. i |-> IF j = 0 THEN q.head
                              ELSE IF f[j - 1] = NULL THEN NULL
                              ELSE q.next[f[j - 1]]]
    BY <2>1, <2>2
  <2> QED
    BY <2>3 DEF IsNode
<1>2. IsNode(q, i, node)
  BY <1>1
<1>3. Node(q, i) = node[i]
  BY DEF Node, IsNode
<1> HIDE DEF node
<1> DEFINE S == {j \in Nat : j <= i => node[j] = at(j)}
<1>4. 0 \in S
  <2>1. node[0] = q.head
    BY <1>2 DEF IsNode
  <2> QED
    BY <2>1 DEF Chain
<1>5. \A j \in Nat : j \in S => j + 1 \in S
  <2> SUFFICES ASSUME NEW j \in Nat, j \in S, j + 1 <= i
               PROVE  node[j + 1] = at(j + 1)
    OBVIOUS
  <2>1. node[j] = at(j) /\ j < n /\ j + 1 \in 1 .. n
    OBVIOUS
  <2>2. node[j] = l[j + 1] /\ l[j + 1] # NULL
    BY <2>1, Alarms0 DEF Chain
  <2>3. node[j + 1] = q.next[node[j]]
    BY <1>2, <2>2 DEF IsNode
  <2> QED
    BY <2>1, <2>2, <2>3 DEF Chain
<1> HIDE DEF S
<1>6. i \in S
  BY <1>4, <1>5, Induction
<1> QED
  BY <1>3, <1>6 DEF S

\* Where the loop of InsertAlarm stops: the alarms before that place end no
\* later, those from there on later.
LEMMA FirstAfterPlace ==
  ASSUME NEW q, NEW n \in Nat, NEW l, Chain(q, n, l), Sorted(n, l, end),
         end \in [Alarm -> Nat], NEW time \in Nat
  PROVE  \E p \in 0 .. n :
           /\ FirstAfter(q, time) = IF p < n THEN l[p + 1] ELSE NULL
           /\ \A i \in 1 .. p : end[l[i]] <= time
           /\ \A i \in p + 1 .. n : end[l[i]] > time
<1> DEFINE stop(i) == Node(q, i) # NULL => end[Node(q, i)] > time
           S == {i \in 0 .. Cardinality(Alarm) : stop(i)}
           p == Min(S)
<1>1. n <= Cardinality(Alarm) /\ Cardinality(Alarm) \in Nat
  BY ChainLength, Alarms0
<1>2. n \in S
  <2>1. Node(q, n) = NULL
    BY NodeOfChain
  <2> QED
    BY <1>1, <2>1
<1>3. S \in SUBSET Nat
  BY <1>1
<1>4. \E m \in S : \A k \in S : m <= k
  BY <1>2, <1>3, LeastElement
<1>5. p \in S /\ \A k \in S : p <= k
  BY <1>4 DEF Min
<1>6. FirstAfter(q, time) = Node(q, p)
  BY DEF FirstAfter
<1> HIDE DEF p
<1>7. p \in 0 .. n
  BY <1>1, <1>2, <1>5
<1>8. Node(q, p) = IF p < n THEN l[p + 1] ELSE NULL
  BY <1>7, NodeOfChain
<1>9. ASSUME NEW i \in 1 .. p PROVE end[l[i]] <= time
  <2>1. i - 1 \in 0 .. n /\ i - 1 < n /\ i - 1 \notin S /\ i \in 1 .. n
        /\ i - 1 \in 0 .. Cardinality(Alarm)
    BY <1>1, <1>5, <1>7
  <2>2. Node(q, i - 1) = l[i]
    BY <2>1, NodeOfChain
  <2>3. l[i] \in Alarm
    BY <2>1 DEF Chain
  <2>4. ~(end[l[i]] > time)
    BY <2>1, <2>2
  <2> QED
    BY <2>3, <2>4
<1>10. ASSUME NEW i \in p + 1 .. n PROVE end[l[i]] > time
  <2>1. p < n /\ p + 1 \in 1 .. n /\ i \in 1 .. n
    BY <1>7
  <2>2. Node(q, p) = l[p + 1] /\ l[p + 1] # NULL
    BY <1>8, <2>1, Alarms0 DEF Chain
  <2>3. end[l[p + 1]] > time
    BY <1>5, <2>2
  <2>4. end[l[p + 1]] <= end[l[i]]
    <3>1. CASE i = p + 1
      BY <2>1, <3>1 DEF Chain
    <3>2. CASE p + 1 < i
      BY <2>1, <3>2 DEF Sorted
    <3> QED
      BY <1>7, <3>1, <3>2
  <2>5. end[l[p + 1]] \in Nat /\ end[l[i]] \in Nat
    BY <2>1 DEF Chain
  <2> QED
    BY <2>3, <2>4, <2>5
<1> QED
  BY <1>6, <1>7, <1>8, <1>9, <1>10

Put(f, x, y) == [f EXCEPT ![x] = y]

\* The fields of the list after LinkBefore.
LEMMA LinkFields ==
  ASSUME NEW q \in Queue, NEW a \in Alarm, NEW iter \in Link,
         NEW prev, prev = IF iter = NULL THEN q.tail ELSE q.prev[iter],
         NEW r, r = LinkBefore(q, a, iter)
  PROVE  /\ r \in Queue /\ prev \in Link
         /\ r.head = IF prev = NULL THEN a ELSE q.head
         /\ r.tail = IF iter = NULL THEN a ELSE q.tail
         /\ r.prev = IF iter = NULL THEN Put(q.prev, a, prev)
                     ELSE Put(Put(q.prev, a, prev), iter, a)
         /\ r.next = IF prev = NULL THEN Put(q.next, a, iter)
                     ELSE Put(Put(q.next, a, iter), prev, a)
<1> DEFINE linked == [q EXCEPT !.next[a] = iter, !.prev[a] = prev]
           before == IF iter = NULL THEN [linked EXCEPT !.tail = a]
                                    ELSE [linked EXCEPT !.prev[iter] = a]
           back == [q.prev EXCEPT ![a] = prev]
           ahead == [q.next EXCEPT ![a] = iter]
<1>1. prev \in Link
  BY DEF Queue, Link
<1>2. /\ linked \in Queue /\ linked.head = q.head /\ linked.tail = q.tail
      /\ linked.prev = back /\ linked.next = ahead
  BY <1>1 DEF Queue, Link
<1> HIDE DEF linked
<1>3. /\ before \in Queue /\ before.head = q.head
      /\ before.tail = IF iter = NULL THEN a ELSE q.tail
      /\ before.prev = IF iter = NULL THEN back ELSE [back EXCEPT ![iter] = a]
      /\ before.next = ahead
  <2>1. CASE iter = NULL
    BY <1>2, <2>1 DEF Queue, Link
  <2>2. CASE iter # NULL
    BY <1>2, <2>2 DEF Queue, Link
  <2> QED
    BY <2>1, <2>2
<1>4. r = IF prev = NULL THEN [before EXCEPT !.head = a]
                         ELSE [before EXCEPT !.next[prev] = a]
  BY DEF LinkBefore, linked
<1> HIDE DEF before
<1>5. /\ r \in Queue
      /\ r.head = IF prev = NULL THEN a ELSE q.head
      /\ r.tail = before.tail /\ r.prev = before.prev
      /\ r.next = IF prev = NULL THEN ahead ELSE [ahead EXCEPT ![prev] = a]
  <2>1. CASE prev = NULL
    BY <1>3, <1>4, <2>1 DEF Queue, Link
  <2>2. CASE prev # NULL
    BY <1>1, <1>3, <1>4, <2>2 DEF Queue, Link
  <2> QED
    BY <2>1, <2>2
<1> QED
  BY <1>1, <1>3, <1>5 DEF Put

\* The list with a at the place p + 1.
With(n, l, p, a) ==
    [i \in 1 .. n + 1 |-> IF i <= p THEN l[i]
                          ELSE IF i = p + 1 THEN a ELSE l[i - 1]]

\* Linking an alarm in front of an alarm of the list, or at its end, puts it
\* at that place.
LEMMA LinkChain ==
  ASSUME NEW q \in Queue, NEW n \in Nat, NEW l, Chain(q, n, l),
         NEW a \in Alarm, a \notin Members(n, l), NEW p \in 0 .. n
  PROVE  LET r == LinkBefore(q, a, IF p < n THEN l[p + 1] ELSE NULL)
         IN  r \in Queue /\ Chain(r, n + 1, With(n, l, p, a))
<1> DEFINE iter == IF p < n THEN l[p + 1] ELSE NULL
           prev == IF iter = NULL THEN q.tail ELSE q.prev[iter]
           r == LinkBefore(q, a, iter)
           m == With(n, l, p, a)
<1>1. \A i \in 1 .. n : l[i] \in Alarm /\ l[i] # NULL /\ l[i] # a
  BY Alarms0 DEF Chain, Members
<1>2. iter \in Link /\ (iter = NULL <=> p = n)
  BY <1>1 DEF Link
<1>3. prev = IF p = 0 THEN NULL ELSE l[p]
  <2>1. CASE p = n
    BY <1>2, <2>1 DEF Chain
  <2>2. CASE p < n
    BY <1>1, <1>2, <2>2 DEF Chain
  <2> QED
    BY <2>1, <2>2
<1>4. prev = NULL <=> p = 0
  BY <1>1, <1>3
<1>5. /\ prev = IF iter = NULL THEN q.tail ELSE q.prev[iter]
      /\ r = LinkBefore(q, a, iter)
  OBVIOUS
<1> HIDE DEF iter, prev, r
<1>6. /\ r \in Queue
      /\ r.head = IF prev = NULL THEN a ELSE q.head
      /\ r.tail = IF iter = NULL THEN a ELSE q.tail
      /\ r.prev = IF iter = NULL THEN Put(q.prev, a, prev)
                  ELSE Put(Put(q.prev, a, prev), iter, a)
      /\ r.next = IF prev = NULL THEN Put(q.next, a, iter)
                  ELSE Put(Put(q.next, a, iter), prev, a)
  <2>1. q \in Queue /\ a \in Alarm /\ iter \in Link
    BY <1>2
  <2>2. r \in Queue
    BY <2>1, <1>5, LinkFields
  <2>3. r.head = IF prev = NULL THEN a ELSE q.head
    BY <2>1, <1>5, LinkFields
  <2>4. r.tail = IF iter = NULL THEN a ELSE q.tail
    BY <2>1, <1>5, LinkFields
  <2>5. r.prev = IF iter = NULL THEN Put(q.prev, a, prev)
                 ELSE Put(Put(q.prev, a, prev), iter, a)
    BY <2>1, <1>5, LinkFields
  <2>6. r.next = IF prev = NULL THEN Put(q.next, a, iter)
                 ELSE Put(Put(q.next, a, iter), prev, a)
    BY <2>1, <1>5, LinkFields
  <2> QED
    BY <2>2, <2>3, <2>4, <2>5, <2>6
<1>7. q.prev \in [Alarm -> Link] /\ q.next \in [Alarm -> Link]
  BY DEF Queue
<1>8. \A i \in 1 .. n + 1 :
        /\ i <= p => m[i] = l[i] /\ i \in 1 .. n
        /\ i = p + 1 => m[i] = a
        /\ i > p + 1 => m[i] = l[i - 1] /\ i - 1 \in 1 .. n
  BY DEF With
<1>9. m \in [1 .. n + 1 -> Alarm]
  BY <1>1 DEF With
<1> HIDE DEF m
<1>10. \A i, j \in 1 .. n + 1 : m[i] = m[j] => i = j
  <2> TAKE i, j \in 1 .. n + 1
  <2> HAVE m[i] = m[j]
  <2>1. \A u, v \in 1 .. n : l[u] = l[v] => u = v
    BY DEF Chain
  <2>2. CASE i = p + 1 \/ j = p + 1
    BY <1>1, <1>8, <2>2
  <2>3. CASE i <= p /\ j <= p
    BY <1>8, <2>1, <2>3
  <2>4. CASE i <= p /\ j > p + 1
    <3>1. l[i] = l[j - 1]
      BY <1>8, <2>4
    <3>2. i = j - 1
      BY <1>8, <2>1, <2>4, <3>1
    <3> QED
      BY <2>4, <3>2
  <2>5. CASE i > p + 1 /\ j <= p
    <3>1. l[i - 1] = l[j]
      BY <1>8, <2>5
    <3>2. i - 1 = j
      BY <1>8, <2>1, <2>5, <3>1
    <3> QED
      BY <2>5, <3>2
  <2>6. CASE i > p + 1 /\ j > p + 1
    <3>1. i - 1 = j - 1
      BY <1>8, <2>1, <2>6
    <3> QED
      BY <3>1
  <2> QED
    BY <2>2, <2>3, <2>4, <2>5, <2>6
<1>11. r.head = m[1]
  BY <1>3, <1>4, <1>6, <1>8 DEF Chain
<1>12. r.tail = m[n + 1]
  BY <1>2, <1>6, <1>8 DEF Chain
<1>13. ASSUME NEW i \in 1 .. n + 1
       PROVE  /\ r.prev[m[i]] = IF i = 1 THEN NULL ELSE m[i - 1]
              /\ r.next[m[i]] = IF i = n + 1 THEN NULL ELSE m[i + 1]
  <2>1. CASE i = p + 1
    <3>1. m[i] = a /\ iter # a /\ prev # a
      BY <1>1, <1>3, <1>8, <2>1, Alarms0 DEF iter
    <3>2. r.prev[a] = prev /\ r.next[a] = iter
      BY <1>6, <1>7, <3>1 DEF Put
    <3>3. prev = IF i = 1 THEN NULL ELSE m[i - 1]
      BY <1>3, <1>8, <2>1
    <3>4. iter = IF i = n + 1 THEN NULL ELSE m[i + 1]
      BY <1>8, <2>1 DEF iter
    <3> QED
      BY <3>1, <3>2, <3>3, <3>4
  <2>2. CASE i <= p
    <3>1. m[i] = l[i] /\ i \in 1 .. n /\ l[i] # a /\ l[i] \in Alarm
      BY <1>1, <1>8, <2>2
    <3>2. r.prev[l[i]] = q.prev[l[i]]
      <4>1. iter # l[i]
        BY <1>1, <2>2, <3>1 DEF iter, Chain
      <4> QED
        BY <1>6, <1>7, <3>1, <4>1 DEF Put
    <3>3. r.next[l[i]] = IF i = p THEN a ELSE q.next[l[i]]
      <4>1. prev # NULL /\ (prev = l[i] <=> i = p)
        BY <1>3, <1>4, <2>2, <3>1 DEF Chain
      <4> QED
        BY <1>6, <1>7, <3>1, <4>1 DEF Put
    <3>4. q.prev[l[i]] = IF i = 1 THEN NULL ELSE m[i - 1]
      BY <1>8, <2>2, <3>1 DEF Chain
    <3>5. i # p => q.next[l[i]] = m[i + 1]
      BY <1>8, <2>2, <3>1 DEF Chain
    <3>6. i = p => a = m[i + 1]
      BY <1>8
    <3> QED
      BY <2>2, <3>1, <3>2, <3>3, <3>4, <3>5, <3>6
  <2>3. CASE i > p + 1
    <3> DEFINE j == i - 1
    <3>1. m[i] = l[j] /\ j \in 1 .. n /\ l[j] # a /\ l[j] \in Alarm
      BY <1>1, <1>8, <2>3
    <3>2. r.prev[l[j]] = IF j = p + 1 THEN a ELSE q.prev[l[j]]
      <4>1. iter # NULL /\ (iter = l[j] <=> j = p + 1)
        BY <1>1, <1>2, <2>3, <3>1 DEF iter, Chain
      <4> QED
        BY <1>6, <1>7, <3>1, <4>1 DEF Put
    <3>3. r.next[l[j]] = q.next[l[j]]
      <4>1. prev # l[j]
        BY <1>1, <1>3, <2>3, <3>1 DEF Chain
      <4> QED
        BY <1>6, <1>7, <3>1, <4>1 DEF Put
    <3>4. q.next[l[j]] = IF i = n + 1 THEN NULL ELSE m[i + 1]
      BY <1>8, <2>3, <3>1 DEF Chain
    <3>5. j # p + 1 => q.prev[l[j]] = m[i - 1]
      BY <1>8, <2>3, <3>1 DEF Chain
    <3>6. j = p + 1 => a = m[i - 1]
      BY <1>8
    <3> QED
      BY <2>3, <3>1, <3>2, <3>3, <3>4, <3>5, <3>6
  <2> QED
    BY <2>1, <2>2, <2>3
<1> QED
  BY <1>6, <1>9, <1>10, <1>11, <1>12, <1>13 DEF Chain, r, m, iter

\* Insert puts an alarm that is not in the list at the place its time asks
\* for, so that the list holds it as well and is still sorted.
LEMMA InsertHolds ==
  ASSUME NEW q \in Queue, NEW set, NEW n \in Nat, NEW l,
         Holds(q, set, end, n, l), end \in [Alarm -> Nat],
         NEW a \in Alarm, a \notin set, NEW time \in Nat
  PROVE  /\ Insert(q, a, time) \in Queue
         /\ \E m \in [1 .. n + 1 -> Alarm] :
              Holds(Insert(q, a, time), set \cup {a},
                    [end EXCEPT ![a] = time], n + 1, m)
         /\ Insert(q, a, time).head # a =>
              Insert(q, a, time).head = q.head /\ q.head # NULL
<1> DEFINE at == [end EXCEPT ![a] = time]
           r == Insert(q, a, time)
<1>1. Chain(q, n, l) /\ Members(n, l) = set /\ Sorted(n, l, end)
  BY DEF Holds
<1>2. PICK p \in 0 .. n :
        /\ FirstAfter(q, time) = IF p < n THEN l[p + 1] ELSE NULL
        /\ \A i \in 1 .. p : end[l[i]] <= time
        /\ \A i \in p + 1 .. n : end[l[i]] > time
  BY <1>1, FirstAfterPlace
<1> DEFINE m == With(n, l, p, a)
<1>3. r \in Queue /\ Chain(r, n + 1, m)
  <2>1. r = LinkBefore(q, a, IF p < n THEN l[p + 1] ELSE NULL)
    BY <1>2 DEF Insert
  <2> HIDE DEF r, m
  <2> QED
    BY <1>1, <2>1, LinkChain DEF m
<1>4. \A i \in 1 .. n + 1 :
        /\ i <= p => m[i] = l[i] /\ i \in 1 .. n
        /\ i = p + 1 => m[i] = a
        /\ i > p + 1 => m[i] = l[i - 1] /\ i - 1 \in 1 .. n
  BY DEF With
<1>5. \A i \in 1 .. n : l[i] \in Alarm /\ l[i] # a /\ l[i] # NULL
  BY <1>1, Alarms0 DEF Chain, Members
<1>6. /\ at[a] = time
      /\ \A i \in 1 .. n : at[l[i]] = end[l[i]] /\ end[l[i]] \in Nat
  BY <1>5
<1> HIDE DEF m, r, at
<1>7. Members(n + 1, m) = set \cup {a}
  <2>1. ASSUME NEW i \in 1 .. n + 1 PROVE m[i] \in set \cup {a}
    BY <1>1, <1>4 DEF Members
  <2>2. ASSUME NEW b \in set PROVE \E i \in 1 .. n + 1 : m[i] = b
    <3>1. PICK i \in 1 .. n : l[i] = b
      BY <1>1 DEF Members
    <3>2. CASE i <= p
      BY <1>4, <3>1, <3>2
    <3>3. CASE i > p
      <4>1. i + 1 \in 1 .. n + 1 /\ i + 1 > p + 1 /\ (i + 1) - 1 = i
        BY <3>3
      <4> QED
        BY <1>4, <3>1, <4>1
    <3> QED
      BY <3>2, <3>3
  <2>3. p + 1 \in 1 .. n + 1 /\ m[p + 1] = a
    BY <1>4
  <2> QED
    BY <2>1, <2>2, <2>3 DEF Members
<1>8. Sorted(n + 1, m, at)
  <2> SUFFICES ASSUME NEW i \in 1 .. n + 1, NEW j \in 1 .. n + 1, i < j
               PROVE  at[m[i]] <= at[m[j]]
    BY DEF Sorted
  <2>1. CASE j <= p
    BY <1>1, <1>4, <1>6, <2>1 DEF Sorted
  <2>2. CASE j = p + 1
    BY <1>2, <1>4, <1>6, <2>2
  <2>3. CASE i = p + 1
    <3>1. j - 1 \in p + 1 .. n
      BY <2>3
    <3> QED
      BY <1>2, <1>4, <1>6, <2>3, <3>1
  <2>4. CASE i <= p /\ j > p + 1
    <3>1. i \in 1 .. n /\ j - 1 \in 1 .. n /\ i < j - 1
      BY <2>4
    <3>2. end[l[i]] <= end[l[j - 1]]
      BY <1>1, <3>1 DEF Sorted
    <3> QED
      BY <1>4, <1>6, <2>4, <3>1, <3>2
  <2>5. CASE i > p + 1
    <3>1. i - 1 \in 1 .. n /\ j - 1 \in 1 .. n /\ i - 1 < j - 1
      BY <2>5
    <3>2. end[l[i - 1]] <= end[l[j - 1]]
      BY <1>1, <3>1 DEF Sorted
    <3> QED
      BY <1>4, <1>6, <2>5, <3>1, <3>2
  <2> QED
    BY <2>1, <2>2, <2>3, <2>4, <2>5
<1>9. r.head # a => r.head = q.head /\ q.head # NULL
  <2>1. r.head = m[1]
    BY <1>3 DEF Chain
  <2>2. CASE p = 0
    BY <1>4, <2>1, <2>2
  <2>3. CASE p # 0
    <3>1. m[1] = l[1] /\ n # 0 /\ 1 \in 1 .. n
      BY <1>4, <2>3
    <3> QED
      BY <1>1, <1>5, <2>1, <3>1 DEF Chain
  <2> QED
    BY <2>2, <2>3
<1>10. Holds(r, set \cup {a}, at, n + 1, m) /\ m \in [1 .. n + 1 -> Alarm]
  BY <1>3, <1>7, <1>8 DEF Holds, Chain
<1> QED
  BY <1>3, <1>9, <1>10 DEF r, at

\* The fields of the list after Unlink.
LEMMA UnlinkFields ==
  ASSUME NEW q \in Queue, NEW a \in Alarm,
         NEW next, next = q.next[a], NEW prev, prev = q.prev[a],
         NEW r, r = Unlink(q, a)
  PROVE  /\ r \in Queue
         /\ r.head = IF prev = NULL THEN next ELSE q.head
         /\ r.tail = IF next = NULL THEN prev ELSE q.tail
         /\ r.prev = IF next = NULL THEN q.prev ELSE Put(q.prev, next, prev)
         /\ r.next = IF prev = NULL THEN q.next ELSE Put(q.next, prev, next)
<1> DEFINE right == IF next = NULL THEN [q EXCEPT !.tail = prev]
                                   ELSE [q EXCEPT !.prev[next] = prev]
<1>1. next \in Link /\ prev \in Link
  BY DEF Queue
<1>2. /\ right \in Queue /\ right.head = q.head /\ right.next = q.next
      /\ right.tail = IF next = NULL THEN prev ELSE q.tail
      /\ right.prev = IF next = NULL THEN q.prev
                                     ELSE [q.prev EXCEPT ![next] = prev]
  <2>1. CASE next = NULL
    BY <1>1, <2>1 DEF Queue, Link
  <2>2. CASE next # NULL
    BY <1>1, <2>2 DEF Queue, Link
  <2> QED
    BY <2>1, <2>2
<1>3. r = IF prev = NULL THEN [right EXCEPT !.head = next]
                         ELSE [right EXCEPT !.next[prev] = next]
  BY DEF Unlink
<1> HIDE DEF right
<1>4. /\ r \in Queue
      /\ r.head = IF prev = NULL THEN next ELSE q.head
      /\ r.tail = right.tail /\ r.prev = right.prev
      /\ r.next = IF prev = NULL THEN q.next
                                 ELSE [q.next EXCEPT ![prev] = next]
  <2>1. CASE prev = NULL
    BY <1>1, <1>2, <1>3, <2>1 DEF Queue, Link
  <2>2. CASE prev # NULL
    BY <1>1, <1>2, <1>3, <2>2 DEF Queue, Link
  <2> QED
    BY <2>1, <2>2
<1> QED
  BY <1>2, <1>4 DEF Put

\* The list without the alarm at the place k.
Without(n, l, k) == [i \in 1 .. n - 1 |-> IF i < k THEN l[i] ELSE l[i + 1]]

\* Taking the alarm at a place off the list leaves the list of the others.
LEMMA UnlinkChain ==
  ASSUME NEW q \in Queue, NEW n \in Nat, NEW l, Chain(q, n, l),
         NEW k \in 1 .. n, NEW r, r = Unlink(q, l[k])
  PROVE  r \in Queue /\ n - 1 \in Nat /\ Chain(r, n - 1, Without(n, l, k))
<1> DEFINE a == l[k]
           next == IF k = n THEN NULL ELSE l[k + 1]
           prev == IF k = 1 THEN NULL ELSE l[k - 1]
           m == Without(n, l, k)
<1>1. \A i \in 1 .. n : l[i] \in Alarm /\ l[i] # NULL
  BY Alarms0 DEF Chain
<1>2. next = q.next[a] /\ prev = q.prev[a] /\ a \in Alarm
  BY <1>1 DEF Chain
<1>3. (next = NULL <=> k = n) /\ (prev = NULL <=> k = 1)
  BY <1>1
<1>4. /\ k < n => next = l[k + 1] /\ k + 1 \in 1 .. n
      /\ k > 1 => prev = l[k - 1] /\ k - 1 \in 1 .. n
  OBVIOUS
<1>5. r = Unlink(q, a)
  OBVIOUS
<1> HIDE DEF next, prev
<1>6. /\ r \in Queue
      /\ r.head = IF prev = NULL THEN next ELSE q.head
      /\ r.tail = IF next = NULL THEN prev ELSE q.tail
  BY <1>2, <1>5, UnlinkFields
<1>7. r.prev = IF next = NULL THEN q.prev ELSE Put(q.prev, next, prev)
  BY <1>2, <1>5, UnlinkFields
<1>8. r.next = IF prev = NULL THEN q.next ELSE Put(q.next, prev, next)
  BY <1>2, <1>5, UnlinkFields
<1>9. q.prev \in [Alarm -> Link] /\ q.next \in [Alarm -> Link]
  BY DEF Queue
<1>10. \A i \in 1 .. n - 1 :
         /\ i \in 1 .. n /\ i + 1 \in 1 .. n
         /\ i < k => m[i] = l[i]
         /\ i >= k => m[i] = l[i + 1]
  BY DEF Without
<1>11. m \in [1 .. n - 1 -> Alarm] /\ n - 1 \in Nat
  BY <1>1 DEF Without
<1> HIDE DEF m
<1>12. \A i, j \in 1 .. n : l[i] = l[j] => i = j
  BY DEF Chain
<1>13. \A i, j \in 1 .. n - 1 : m[i] = m[j] => i = j
  <2> TAKE i, j \in 1 .. n - 1
  <2> HAVE m[i] = m[j]
  <2>1. CASE i < k /\ j < k
    BY <1>10, <1>12, <2>1
  <2>2. CASE i < k /\ j >= k
    BY <1>10, <1>12, <2>2
  <2>3. CASE i >= k /\ j < k
    BY <1>10, <1>12, <2>3
  <2>4. CASE i >= k /\ j >= k
    <3>1. i + 1 = j + 1
      BY <1>10, <1>12, <2>4
    <3> QED
      BY <3>1
  <2> QED
    BY <2>1, <2>2, <2>3, <2>4
<1>14. r.head = IF n - 1 = 0 THEN NULL ELSE m[1]
  <2>1. CASE k = 1
    BY <1>3, <1>4, <1>6, <1>10, <2>1
  <2>2. CASE k > 1
    BY <1>3, <1>6, <1>10, <2>2 DEF Chain
  <2> QED
    BY <2>1, <2>2
<1>15. r.tail = IF n - 1 = 0 THEN NULL ELSE m[n - 1]
  <2>1. CASE k = n
    BY <1>3, <1>4, <1>6, <1>10, <2>1
  <2>2. CASE k < n
    BY <1>3, <1>6, <1>10, <2>2 DEF Chain
  <2> QED
    BY <2>1, <2>2
<1>16. ASSUME NEW i \in 1 .. n - 1
       PROVE  r.prev[m[i]] = IF i = 1 THEN NULL ELSE m[i - 1]
  <2>1. CASE i < k
    <3>1. m[i] = l[i] /\ (i # 1 => m[i - 1] = l[i - 1])
      BY <1>10, <2>1
    <3>2. next # l[i] /\ l[i] \in Alarm
      BY <1>1, <1>3, <1>4, <1>10, <1>12, <2>1
    <3>3. r.prev[l[i]] = q.prev[l[i]]
      BY <1>7, <1>9, <3>2 DEF Put
    <3>4. q.prev[l[i]] = IF i = 1 THEN NULL ELSE l[i - 1]
      BY <1>10 DEF Chain
    <3> QED
      BY <3>1, <3>3, <3>4
  <2>2. CASE i = k
    <3>1. m[i] = l[k + 1] /\ (i # 1 => m[i - 1] = l[k - 1])
      BY <1>10, <2>2
    <3>2. next # NULL /\ next = l[k + 1] /\ l[k + 1] \in Alarm
      BY <1>1, <1>3, <1>4, <2>2
    <3>3. r.prev[l[k + 1]] = prev
      BY <1>7, <1>9, <3>2 DEF Put
    <3> QED
      BY <2>2, <3>1, <3>3 DEF prev
  <2>3. CASE i > k
    <3>1. m[i] = l[i + 1] /\ m[i - 1] = l[i] /\ i # 1
      BY <1>10, <2>3
    <3>2. next # NULL /\ next # l[i + 1] /\ l[i + 1] \in Alarm
      BY <1>1, <1>3, <1>4, <1>10, <1>12, <2>3
    <3>3. r.prev[l[i + 1]] = q.prev[l[i + 1]]
      BY <1>7, <1>9, <3>2 DEF Put
    <3>4. q.prev[l[i + 1]] = l[i]
      BY <1>10 DEF Chain
    <3> QED
      BY <3>1, <3>3, <3>4
  <2> QED
    BY <2>1, <2>2, <2>3
<1>17. ASSUME NEW i \in 1 .. n - 1
       PROVE  r.next[m[i]] = IF i = n - 1 THEN NULL ELSE m[i + 1]
  <2>1. CASE i + 1 < k
    <3>1. m[i] = l[i] /\ m[i + 1] = l[i + 1] /\ i # n - 1
      BY <1>10, <2>1
    <3>2. prev # l[i] /\ l[i] \in Alarm
      BY <1>1, <1>3, <1>4, <1>10, <1>12, <2>1
    <3>3. r.next[l[i]] = q.next[l[i]]
      BY <1>8, <1>9, <3>2 DEF Put
    <3>4. q.next[l[i]] = l[i + 1]
      BY <1>10, <3>1 DEF Chain
    <3> QED
      BY <3>1, <3>3, <3>4
  <2>2. CASE i + 1 = k
    <3>1. m[i] = l[k - 1] /\ (i # n - 1 => m[i + 1] = l[k + 1])
      BY <1>10, <2>2
    <3>2. prev # NULL /\ prev = l[k - 1] /\ l[k - 1] \in Alarm
      BY <1>1, <1>3, <1>4, <2>2
    <3>3. r.next[l[k - 1]] = next
      BY <1>8, <1>9, <3>2 DEF Put
    <3> QED
      BY <2>2, <3>1, <3>3 DEF next
  <2>3. CASE i + 1 > k
    <3>1. m[i] = l[i + 1] /\ (i # n - 1 => m[i + 1] = l[i + 2])
      BY <1>10, <2>3
    <3>2. prev # l[i + 1] /\ l[i + 1] \in Alarm
      BY <1>1, <1>3, <1>4, <1>10, <1>12, <2>3
    <3>3. r.next[l[i + 1]] = q.next[l[i + 1]]
      BY <1>8, <1>9, <3>2 DEF Put
    <3>4. q.next[l[i + 1]] = IF i + 1 = n THEN NULL ELSE l[i + 2]
      BY <1>10 DEF Chain
    <3> QED
      BY <3>1, <3>3, <3>4
  <2> QED
    BY <2>1, <2>2, <2>3
<1> QED
  BY <1>6, <1>11, <1>13, <1>14, <1>15, <1>16, <1>17 DEF Chain, m

\* The same of what the list holds.
LEMMA UnlinkHolds ==
  ASSUME NEW q \in Queue, NEW set, NEW at, NEW n \in Nat, NEW l,
         Holds(q, set, at, n, l), NEW a, a \in set, NEW r, r = Unlink(q, a)
  PROVE  /\ r \in Queue /\ n - 1 \in Nat
         /\ \E k \in 1 .. n :
              /\ l[k] = a
              /\ Holds(r, set \ {a}, at, n - 1, Without(n, l, k))
<1>1. PICK k \in 1 .. n : l[k] = a
  BY DEF Holds, Members
<1> DEFINE m == Without(n, l, k)
<1>2. Chain(q, n, l) /\ Sorted(n, l, at) /\ Members(n, l) = set
  BY DEF Holds
<1>3. r \in Queue /\ n - 1 \in Nat /\ Chain(r, n - 1, m)
  BY <1>1, <1>2, UnlinkChain
<1>4. \A i \in 1 .. n - 1 :
         /\ i \in 1 .. n /\ i + 1 \in 1 .. n
         /\ i < k => m[i] = l[i]
         /\ i >= k => m[i] = l[i + 1]
  BY DEF Without
<1>5. \A i, j \in 1 .. n : l[i] = l[j] => i = j
  BY <1>2 DEF Chain
<1> HIDE DEF m
<1>6. Members(n - 1, m) = set \ {a}
  <2>1. ASSUME NEW i \in 1 .. n - 1 PROVE m[i] \in set \ {a}
    <3>1. CASE i < k
      BY <1>1, <1>2, <1>4, <1>5, <3>1 DEF Members
    <3>2. CASE i >= k
      BY <1>1, <1>2, <1>4, <1>5, <3>2 DEF Members
    <3> QED
      BY <3>1, <3>2
  <2>2. ASSUME NEW b \in set \ {a} PROVE \E i \in 1 .. n - 1 : m[i] = b
    <3>1. PICK i \in 1 .. n : l[i] = b /\ i # k
      BY <1>1, <1>2 DEF Members
    <3>2. CASE i < k
      BY <1>4, <3>1, <3>2
    <3>3. CASE i > k
      <4>1. i - 1 \in 1 .. n - 1 /\ i - 1 >= k /\ (i - 1) + 1 = i
        BY <3>3
      <4> QED
        BY <1>4, <3>1, <4>1
    <3> QED
      BY <3>1, <3>2, <3>3
  <2> QED
    BY <2>1, <2>2 DEF Members
<1>7. Sorted(n - 1, m, at)
  <2> SUFFICES ASSUME NEW i \in 1 .. n - 1, NEW j \in 1 .. n - 1, i < j
               PROVE  at[m[i]] <= at[m[j]]
    BY DEF Sorted
  <2>1. CASE j < k
    BY <1>2, <1>4, <2>1 DEF Sorted
  <2>2. CASE i < k /\ j >= k
    BY <1>2, <1>4, <2>2 DEF Sorted
  <2>3. CASE i >= k
    BY <1>2, <1>4, <2>3 DEF Sorted
  <2> QED
    BY <2>1, <2>2, <2>3
<1> QED
  BY <1>1, <1>3, <1>6, <1>7 DEF Holds, m

-----------------------------------------------------------------------------
(* The times. *)

\* A multiple of a number leaves no remainder.
LEMMA Multiple ==
  ASSUME NEW p \in Nat, p > 0, NEW k \in Nat
  PROVE  (p * k) % p = 0
<1> DEFINE x == p * k
           d == x \div p
           r == x % p
<1>1. x \in Int
  OBVIOUS
<1>2. x = p * k
  OBVIOUS
<1> HIDE DEF x
<1>3. d \in Int /\ r \in 0 .. p - 1 /\ x = p * d + r
  BY <1>1
<1> HIDE DEF d, r
<1>4. p * (k - d) = r
  BY <1>2, <1>3
<1>5. k - d <= 0
  <2> SUFFICES ASSUME k - d >= 1 PROVE FALSE
    BY <1>3
  <2>1. p * (k - d) >= p
    BY <1>3
  <2> QED
    BY <1>3, <1>4, <2>1
<1>6. k - d >= 0
  <2> SUFFICES ASSUME k - d <= -1 PROVE FALSE
    BY <1>3
  <2>1. p * (k - d) <= -p
    BY <1>3
  <2> QED
    BY <1>3, <1>4, <2>1
<1>7. k = d
  BY <1>3, <1>5, <1>6
<1>8. r = 0
  BY <1>2, <1>3, <1>7
<1> QED
  BY <1>8 DEF r, x

\* The decrementer is set for a time, and never for the present one.
LEMMA TimerTime ==
  ASSUME now \in Nat, NEW time \in Nat
  PROVE  /\ SetTimer(time) \in Nat /\ now < SetTimer(time)
         /\ SetTimer(time) <= now + 1 \/ SetTimer(time) <= time + 1
BY AlarmAssumption DEF SetTimer

\* InsertAlarm sets a periodic alarm for a point of its grid: the first one
\* that is still to come.
LEMMA PeriodicPoint ==
  ASSUME now \in Nat, NEW from \in Nat, NEW p \in Nat, p > 0
  PROVE  /\ PeriodicEnd(from, p) \in Nat
         /\ \E k \in Nat : PeriodicEnd(from, p) = from + p * k
         /\ from = now => PeriodicEnd(from, p) = from
         /\ from < now => /\ now < PeriodicEnd(from, p)
                          /\ PeriodicEnd(from, p) <= now + p
<1>1. CASE from >= now
  <2>1. PeriodicEnd(from, p) = from
    BY <1>1 DEF PeriodicEnd
  <2>2. from = from + p * 0
    OBVIOUS
  <2> QED
    BY <1>1, <2>1, <2>2
<1>2. CASE from < now
  <2> DEFINE x == now - from
             d == x \div p
             r == x % p
  <2>1. x \in Nat /\ x > 0 /\ now = from + x
    BY <1>2
  <2>2. PeriodicEnd(from, p) = from + p * (d + 1)
    BY <1>2 DEF PeriodicEnd
  <2> HIDE DEF x
  <2>3. d \in Int /\ r \in 0 .. p - 1 /\ x = p * d + r
    BY <2>1
  <2> HIDE DEF d, r
  <2>4. d >= 0
    <3> SUFFICES ASSUME d <= -1 PROVE FALSE
      BY <2>3
    <3>1. p * d <= -p
      BY <2>3
    <3> QED
      BY <2>1, <2>3, <3>1
  <2>5. p * (d + 1) = p * d + p /\ p * d \in Int
    BY <2>3
  <2>6. d + 1 \in Nat
    BY <2>3, <2>4
  <2>7. x < p * (d + 1) /\ p * (d + 1) <= x + p
    BY <2>1, <2>3, <2>5
  <2> DEFINE e == p * (d + 1)
  <2>8. e \in Int /\ x < e /\ e <= x + p /\ PeriodicEnd(from, p) = from + e
    BY <2>2, <2>5, <2>7
  <2>9. \E k \in Nat : PeriodicEnd(from, p) = from + p * k
    BY <2>2, <2>6
  <2> HIDE DEF e
  <2>10. from + e \in Nat /\ now < from + e /\ from + e <= now + p
    BY <1>2, <2>1, <2>8
  <2> QED
    BY <1>2, <2>8, <2>9, <2>10
<1> QED
  BY <1>1, <1>2

\* The distance between two points of a grid is a multiple of the period.
LEMMA GridDistance ==
  ASSUME NEW from \in Int, NEW p \in Nat, p > 0, NEW j \in Nat, NEW k \in Nat,
         from + p * j < from + p * k
  PROVE  ((from + p * k) - (from + p * j)) % p = 0
<1>1. (from + p * k) - (from + p * j) = p * (k - j)
  OBVIOUS
<1>2. k - j >= 0
  <2> SUFFICES ASSUME k - j <= -1 PROVE FALSE
    OBVIOUS
  <2>1. p * (k - j) <= 0
    OBVIOUS
  <2> QED
    BY <1>1, <2>1
<1>3. (p * (k - j)) % p = 0
  BY <1>2, Multiple
<1> QED
  BY <1>1, <1>3

-----------------------------------------------------------------------------
(* Cancelling alarms. *)

Sets == [queue : Queue, handler : SUBSET Alarm, timer : Nat \cup {NULL}]

\* OSCancelAlarm takes the alarm off the list and leaves the others as they
\* are; if it was the first one, the timer is set for the one after it.
LEMMA CancelHolds ==
  ASSUME now \in Nat, end \in [Alarm -> Nat], NEW s \in Sets,
         NEW n \in Nat, NEW l, Holds(s.queue, s.handler, end, n, l),
         NEW a \in s.handler, NEW r, r = Cancel(s, a)
  PROVE  /\ r \in Sets /\ r.handler = s.handler \ {a}
         /\ \E k \in 1 .. n :
              /\ l[k] = a
              /\ Holds(r.queue, r.handler, end, n - 1, Without(n, l, k))
         /\ Covers(s.queue, end, s.timer) => Covers(r.queue, end, r.timer)
<1> DEFINE rest == Unlink(s.queue, a)
           first == s.queue.prev[a] = NULL /\ rest.head # NULL
           t == IF first THEN SetTimer(end[rest.head]) ELSE s.timer
<1>1. s.queue \in Queue /\ s.handler \subseteq Alarm /\ a \in Alarm
      /\ s.timer \in Nat \cup {NULL}
  BY DEF Sets
<1>2. rest \in Queue /\ n - 1 \in Nat
      /\ \E k \in 1 .. n :
           /\ l[k] = a
           /\ Holds(rest, s.handler \ {a}, end, n - 1, Without(n, l, k))
  <2> DEFINE q == s.queue
             set == s.handler
  <2>1. /\ rest = Unlink(q, a) /\ a \in set /\ q \in Queue
        /\ Holds(q, set, end, n, l)
    BY <1>1
  <2> HIDE DEF rest, q, set
  <2>2. rest \in Queue
    BY <2>1, UnlinkHolds, Zenon
  <2>3. \E k \in 1 .. n :
          /\ l[k] = a
          /\ Holds(rest, set \ {a}, end, n - 1, Without(n, l, k))
    BY <2>1, UnlinkHolds
  <2>4. n - 1 \in Nat
    BY <2>3
  <2> QED
    BY <2>2, <2>3, <2>4 DEF set
<1>3. r = [s EXCEPT !.queue = rest, !.handler = @ \ {a}, !.timer = t]
  <2>1. s.timer = t \/ first
    OBVIOUS
  <2> QED
    BY DEF Cancel, Sets
<1>4. rest.head # NULL =>
        /\ SetTimer(end[rest.head]) \in Nat /\ now < SetTimer(end[rest.head])
        /\ \/ SetTimer(end[rest.head]) <= now + 1
           \/ SetTimer(end[rest.head]) <= end[rest.head] + 1
  <2> SUFFICES ASSUME rest.head # NULL
               PROVE  /\ SetTimer(end[rest.head]) \in Nat
                      /\ now < SetTimer(end[rest.head])
                      /\ \/ SetTimer(end[rest.head]) <= now + 1
                         \/ SetTimer(end[rest.head]) <= end[rest.head] + 1
    OBVIOUS
  <2>1. end[rest.head] \in Nat
    BY <1>2 DEF Queue, Link
  <2> HIDE DEF rest
  <2> QED
    BY <2>1, TimerTime
<1> HIDE DEF rest
<1>5. t \in Nat \cup {NULL}
  BY <1>1, <1>4
<1>6. Covers(s.queue, end, s.timer) => Covers(rest, end, t)
  <2> SUFFICES ASSUME Covers(s.queue, end, s.timer), rest.head # NULL
               PROVE  /\ t # NULL
                      /\ t <= now + 1 \/ t <= end[rest.head] + 1
                      /\ period[rest.head] > 0 /\ start[rest.head] = now
                           => now < t
    BY DEF Covers
  <2>1. CASE first
    BY <1>4, <2>1, Alarms0
  <2>2. CASE ~first
    <3>1. s.queue.prev[a] # NULL
      BY <2>2
    <3>2. rest.head = s.queue.head
      <4>1. /\ rest.head = IF s.queue.prev[a] = NULL THEN s.queue.next[a]
                                                     ELSE s.queue.head
        BY <1>1, UnlinkFields DEF rest
      <4> QED
        BY <3>1, <4>1
    <3>3. t = s.timer
      BY <2>2
    <3> HIDE DEF t
    <3> QED
      BY <3>2, <3>3 DEF Covers
  <2> QED
    BY <2>1, <2>2
<1> HIDE DEF t
<1>7. /\ r.queue = rest /\ r.handler = s.handler \ {a} /\ r.timer = t
      /\ r \in Sets
  BY <1>1, <1>2, <1>3, <1>5 DEF Sets
<1> QED
  BY <1>2, <1>6, <1>7

\* The loop of OnReset with e alarms before it, behind the c alarms of the
\* DVD that it has kept.
Resetting(r, set, e, c, m) ==
    /\ r.s \in Sets
    /\ Holds(r.s.queue, r.s.handler, end, c + e, m)
    /\ r.iter = IF e > 0 THEN m[c + 1] ELSE NULL
    /\ r.next = IF e > 1 THEN m[c + 2] ELSE NULL
    /\ \A i \in 1 .. c : m[i] \in DVDAlarm
    /\ r.s.handler \subseteq set
    /\ r.s.handler \cap DVDAlarm = set \cap DVDAlarm

\* A turn of the loop keeps the next alarm or takes it off the list; the
\* pointer that it read one alarm ahead stays on the list.
LEMMA ResetTurn ==
  ASSUME now \in Nat, end \in [Alarm -> Nat], NEW r, NEW set,
         NEW e \in Nat, NEW c \in Nat, NEW m, Resetting(r, set, e, c, m),
         NEW o, o = ResetOne(r)
  PROVE  /\ e = 0 => o = r
         /\ e > 0 => \E d \in Nat : \E w : Resetting(o, set, e - 1, d, w)
<1>1. r.s \in Sets /\ Holds(r.s.queue, r.s.handler, end, c + e, m)
  BY DEF Resetting
<1>2. Chain(r.s.queue, c + e, m) /\ Members(c + e, m) = r.s.handler
  BY <1>1 DEF Holds
<1>3. \A i \in 1 .. c + e : m[i] \in Alarm /\ m[i] # NULL
  BY <1>2, Alarms0 DEF Chain
<1>4. CASE e = 0
  BY <1>4 DEF Resetting, ResetOne
<1>5. CASE e > 0
  <2>1. /\ r.iter = m[c + 1] /\ r.iter # NULL /\ c + 1 \in 1 .. c + e
        /\ e > 1 => c + 2 \in 1 .. c + e
        /\ c + e \in Nat /\ e - 1 \in Nat
    BY <1>3, <1>5 DEF Resetting
  <2>2. r.next = NULL <=> e = 1
    BY <1>3, <1>5, <2>1 DEF Resetting
  <2>3. CASE r.iter \in DVDAlarm
    <3>1. o = [s |-> r.s, iter |-> r.next,
               next |-> IF r.next = NULL THEN NULL
                        ELSE r.s.queue.next[r.next]]
      BY <2>1, <2>3 DEF ResetOne
    <3>2. o.s = r.s /\ o.iter = r.next
          /\ o.next = IF r.next = NULL THEN NULL ELSE r.s.queue.next[r.next]
      BY <3>1
    <3>3. (c + 1) + (e - 1) = c + e /\ c + 1 \in Nat
      BY <1>5
    <3>4. o.iter = IF e - 1 > 0 THEN m[(c + 1) + 1] ELSE NULL
      BY <1>5, <3>2 DEF Resetting
    <3>5. o.next = IF e - 1 > 1 THEN m[(c + 1) + 2] ELSE NULL
      <4>1. CASE e = 1
        BY <2>2, <3>2, <4>1
      <4>2. CASE e > 1
        <5>1. r.next = m[c + 2] /\ r.next # NULL
          BY <2>2, <4>2 DEF Resetting
        <5>2. r.s.queue.next[m[c + 2]]
                = IF c + 2 = c + e THEN NULL ELSE m[(c + 2) + 1]
          BY <1>2, <2>1, <4>2 DEF Chain
        <5> QED
          BY <3>2, <4>2, <5>1, <5>2
      <4> QED
        BY <1>5, <4>1, <4>2
    <3>6. \A i \in 1 .. c + 1 : m[i] \in DVDAlarm
      BY <2>1, <2>3 DEF Resetting
    <3>7. Resetting(o, set, e - 1, c + 1, m)
      BY <3>2, <3>3, <3>4, <3>5, <3>6 DEF Resetting
    <3> QED
      BY <1>5, <3>3, <3>7
  <2>4. CASE r.iter \notin DVDAlarm
    <3> DEFINE v == Cancel(r.s, r.iter)
               w == Without(c + e, m, c + 1)
    <3>1. o = [s |-> v, iter |-> r.next,
               next |-> IF r.next = NULL THEN NULL ELSE v.queue.next[r.next]]
      BY <2>1, <2>4 DEF ResetOne
    <3>2. o.s = v /\ o.iter = r.next
          /\ o.next = IF r.next = NULL THEN NULL ELSE v.queue.next[r.next]
      BY <3>1
    <3>3. r.iter \in r.s.handler
      BY <1>2, <2>1 DEF Members
    <3>4. v = Cancel(r.s, r.iter)
      OBVIOUS
    <3> HIDE DEF v, w
    <3>5. v \in Sets /\ v.handler = r.s.handler \ {r.iter}
      BY <1>1, <2>1, <3>3, <3>4, CancelHolds
    <3>6. \E k \in 1 .. c + e :
            /\ m[k] = r.iter
            /\ Holds(v.queue, v.handler, end, c + e - 1, Without(c + e, m, k))
      BY <1>1, <2>1, <3>3, <3>4, CancelHolds
    <3>7. Holds(v.queue, v.handler, end, c + (e - 1), w)
      <4>1. PICK k \in 1 .. c + e :
              /\ m[k] = r.iter
              /\ Holds(v.queue, v.handler, end, c + e - 1,
                       Without(c + e, m, k))
        BY <3>6
      <4>2. k = c + 1
        BY <1>2, <2>1, <4>1 DEF Chain
      <4>3. c + e - 1 = c + (e - 1)
        BY <1>5
      <4> QED
        BY <4>1, <4>2, <4>3 DEF w
    <3>8. \A i \in 1 .. c + (e - 1) :
            /\ i \in 1 .. c + e /\ i + 1 \in 1 .. c + e
            /\ w[i] = IF i < c + 1 THEN m[i] ELSE m[i + 1]
      BY <1>5 DEF w, Without
    <3>9. o.iter = IF e - 1 > 0 THEN w[c + 1] ELSE NULL
      <4>1. CASE e = 1
        BY <2>2, <3>2, <4>1
      <4>2. CASE e > 1
        <5>1. r.next = m[c + 2]
          BY <4>2 DEF Resetting
        <5>2. w[c + 1] = m[(c + 1) + 1]
          BY <3>8, <4>2
        <5> QED
          BY <3>2, <4>2, <5>1, <5>2
      <4> QED
        BY <1>5, <4>1, <4>2
    <3>10. o.next = IF e - 1 > 1 THEN w[c + 2] ELSE NULL
      <4>1. CASE e = 1
        BY <2>2, <3>2, <4>1
      <4>2. CASE e > 1
        <5>1. r.next = w[c + 1] /\ r.next # NULL /\ c + 1 \in 1 .. c + (e - 1)
          BY <2>2, <3>2, <3>9, <4>2
        <5>2. v.queue.next[w[c + 1]]
                = IF c + 1 = c + (e - 1) THEN NULL ELSE w[(c + 1) + 1]
          BY <3>7, <5>1 DEF Holds, Chain
        <5> QED
          BY <3>2, <4>2, <5>1, <5>2
      <4> QED
        BY <1>5, <4>1, <4>2
    <3>11. \A i \in 1 .. c : w[i] \in DVDAlarm
      BY <1>5, <3>8 DEF Resetting
    <3>12. /\ v.handler \subseteq set
           /\ v.handler \cap DVDAlarm = set \cap DVDAlarm
      BY <2>4, <3>5 DEF Resetting
    <3>13. Resetting(o, set, e - 1, c, w)
      BY <3>2, <3>5, <3>7, <3>9, <3>10, <3>11, <3>12 DEF Resetting
    <3> QED
      BY <1>5, <3>13
  <2> QED
    BY <2>3, <2>4
<1> QED
  BY <1>4, <1>5

\* What the recursion of OnReset defines.
IsLoop(first, top, f) ==
    f = [i \in 0 .. top |-> IF i = 0 THEN first ELSE ResetOne(f[i - 1])]

\* There is such a function.
LEMMA LoopExists ==
  ASSUME NEW first, NEW top \in Nat
  PROVE  \E f : IsLoop(first, top, f)
<1> DEFINE S == {k \in Nat : \E f : IsLoop(first, k, f)}
<1>1. 0 \in S
  <2> DEFINE f == [i \in 0 .. 0 |-> first]
  <2>1. f = [i \in 0 .. 0 |-> IF i = 0 THEN first ELSE ResetOne(f[i - 1])]
    OBVIOUS
  <2> QED
    BY <2>1 DEF IsLoop
<1>2. \A k \in Nat : k \in S => k + 1 \in S
  <2> SUFFICES ASSUME NEW k \in Nat, k \in S PROVE k + 1 \in S
    OBVIOUS
  <2>1. PICK f : IsLoop(first, k, f)
    OBVIOUS
  <2> DEFINE g == [i \in 0 .. k + 1 |->
                     IF i <= k THEN f[i] ELSE ResetOne(f[k])]
  <2>2. ASSUME NEW i \in 0 .. k + 1
        PROVE  g[i] = IF i = 0 THEN first ELSE ResetOne(g[i - 1])
    <3>1. CASE i = 0
      <4>1. f[0] = first
        BY <2>1 DEF IsLoop
      <4> QED
        BY <3>1, <4>1
    <3>2. CASE i # 0 /\ i <= k
      <4>1. i \in 0 .. k /\ i - 1 \in 0 .. k + 1 /\ i - 1 <= k
        BY <3>2
      <4>2. f[i] = ResetOne(f[i - 1])
        BY <2>1, <3>2, <4>1 DEF IsLoop
      <4> QED
        BY <3>2, <4>1, <4>2
    <3>3. CASE i = k + 1
      <4>1. k \in 0 .. k + 1 /\ i - 1 = k
        BY <3>3
      <4>2. g[i] = ResetOne(f[k]) /\ g[k] = f[k]
        BY <3>3
      <4> QED
        BY <3>3, <4>1, <4>2
    <3> QED
      BY <3>1, <3>2, <3>3
  <2>3. g = [i \in 0 .. k + 1 |-> IF i = 0 THEN first ELSE ResetOne(g[i - 1])]
    BY <2>2
  <2>4. \E h : IsLoop(first, k + 1, h)
    BY <2>3 DEF IsLoop
  <2> QED
    BY <2>4
<1> HIDE DEF S
<1>3. top \in S
  BY <1>1, <1>2, Induction
<1> QED
  BY <1>3 DEF S

\* As many turns as there are alarms take all those off the list that are not
\* alarms of the DVD.
LEMMA LoopResult ==
  ASSUME now \in Nat, end \in [Alarm -> Nat], NEW first, NEW set, NEW f,
         NEW n \in Nat, NEW l, Resetting(first, set, n, 0, l),
         IsLoop(first, Cardinality(Alarm), f)
  PROVE  LET s == f[Cardinality(Alarm)].s
         IN  /\ s \in Sets /\ s.handler = set \cap DVDAlarm
             /\ \E c \in Nat : \E m : Holds(s.queue, s.handler, end, c, m)
<1> DEFINE C == Cardinality(Alarm)
           S == {j \in Nat : j <= C =>
                   \E e \in Nat : \E c \in Nat : \E m :
                     /\ Resetting(f[j], set, e, c, m)
                     /\ e = 0 \/ e + j <= C}
<1>1. C \in Nat
  BY Alarms0
<1>2. f[0] = first /\ \A j \in 1 .. C : f[j] = ResetOne(f[j - 1])
  BY <1>1 DEF IsLoop
<1>3. n <= C
  <2>1. n = 0 + n
    OBVIOUS
  <2>2. Holds(first.s.queue, first.s.handler, end, 0 + n, l)
    BY DEF Resetting
  <2> QED
    BY <2>1, <2>2, ChainLength DEF Holds
<1> HIDE DEF C
<1>4. 0 \in S
  <2>1. Resetting(f[0], set, n, 0, l) /\ n + 0 <= C
    BY <1>1, <1>2, <1>3
  <2> QED
    BY <2>1
<1>5. \A j \in Nat : j \in S => j + 1 \in S
  <2> DEFINE Goal(j) == j <= C => \E e \in Nat : \E c \in Nat : \E m :
                          /\ Resetting(f[j], set, e, c, m)
                          /\ e = 0 \/ e + j <= C
  <2>a. \A j \in Nat : j \in S <=> Goal(j)
    OBVIOUS
  <2>b. ASSUME NEW j \in Nat, j \in S, j + 1 <= C
        PROVE  \E e \in Nat : \E c \in Nat : \E m :
                 /\ Resetting(f[j + 1], set, e, c, m)
                 /\ e = 0 \/ e + (j + 1) <= C
    <3>1. PICK e \in Nat : \E c \in Nat : \E m :
            Resetting(f[j], set, e, c, m) /\ (e = 0 \/ e + j <= C)
      BY <1>1, <2>a, <2>b
    <3>2. PICK c \in Nat : \E m :
            Resetting(f[j], set, e, c, m) /\ (e = 0 \/ e + j <= C)
      BY <3>1
    <3>3. PICK m : Resetting(f[j], set, e, c, m) /\ (e = 0 \/ e + j <= C)
      BY <3>2
    <3>4. f[j + 1] = ResetOne(f[j])
      <4>1. j + 1 \in 1 .. C /\ (j + 1) - 1 = j
        BY <1>1, <2>b
      <4> QED
        BY <1>2, <4>1
    <3>5. CASE e = 0
      <4>1. f[j + 1] = f[j]
        BY <3>3, <3>4, <3>5, ResetTurn
      <4> QED
        BY <3>3, <3>5, <4>1
    <3>6. CASE e > 0
      <4>1. \E d \in Nat : \E w : Resetting(f[j + 1], set, e - 1, d, w)
        BY <3>3, <3>4, <3>6, ResetTurn
      <4>2. e - 1 \in Nat /\ (e - 1) + (j + 1) <= C
        BY <1>1, <3>3, <3>6
      <4> QED
        BY <4>1, <4>2
    <3> QED
      BY <3>5, <3>6
  <2>c. ASSUME NEW j \in Nat, j \in S PROVE Goal(j + 1)
    BY <2>b, <2>c
  <2> HIDE DEF S, Goal
  <2> QED
    BY <2>a, <2>c
<1> HIDE DEF S
<1>6. C \in S
  BY <1>1, <1>4, <1>5, Induction
<1>7. PICK e \in Nat : \E c \in Nat : \E m :
        Resetting(f[C], set, e, c, m) /\ (e = 0 \/ e + C <= C)
  BY <1>1, <1>6 DEF S
<1>8. PICK c \in Nat : \E m :
        Resetting(f[C], set, e, c, m) /\ (e = 0 \/ e + C <= C)
  BY <1>7
<1>9. PICK m : Resetting(f[C], set, e, c, m) /\ (e = 0 \/ e + C <= C)
  BY <1>8
<1>10. e = 0 /\ c + e = c
  BY <1>1, <1>9
<1> DEFINE s == f[C].s
<1>11. s \in Sets /\ Holds(s.queue, s.handler, end, c, m)
  BY <1>9, <1>10 DEF Resetting
<1>12. s.handler \subseteq DVDAlarm
  BY <1>9, <1>11 DEF Resetting, Holds, Members
<1>13. s.handler = set \cap DVDAlarm
  BY <1>9, <1>12 DEF Resetting
<1> QED
  BY <1>11, <1>13 DEF C

-----------------------------------------------------------------------------
(* What the steps do. *)

\* The first alarm of the list is one that is set, and none ends before it.
LEMMA FirstAlarm ==
  ASSUME StateType, Listed
  PROVE  /\ AlarmQueue.head = NULL <=> handler = {}
         /\ AlarmQueue.head # NULL =>
              /\ AlarmQueue.head \in handler
              /\ \A b \in handler : end[AlarmQueue.head] <= end[b]
<1>1. PICK n \in Nat : \E l \in [1 .. n -> Alarm] :
        Holds(AlarmQueue, handler, end, n, l)
  BY DEF Listed
<1>2. PICK l \in [1 .. n -> Alarm] : Holds(AlarmQueue, handler, end, n, l)
  BY <1>1
<1>3. AlarmQueue.head = IF n = 0 THEN NULL ELSE l[1]
  BY <1>2 DEF Holds, Chain
<1>4. handler = Members(n, l) /\ Sorted(n, l, end)
  BY <1>2 DEF Holds
<1>5. CASE n = 0
  BY <1>3, <1>4, <1>5 DEF Members
<1>6. CASE n > 0
  <2>1. 1 \in 1 .. n /\ AlarmQueue.head = l[1] /\ l[1] \in Alarm
    BY <1>3, <1>6
  <2>2. l[1] # NULL /\ l[1] \in handler
    BY <1>4, <2>1, Alarms0 DEF Members
  <2>3. ASSUME NEW b \in handler PROVE end[l[1]] <= end[b]
    <3>1. PICK i \in 1 .. n : l[i] = b
      BY <1>4 DEF Members
    <3>2. CASE i = 1
      BY <2>1, <3>1, <3>2 DEF StateType
    <3>3. CASE i > 1
      BY <1>4, <2>1, <3>1, <3>3 DEF Sorted
    <3> QED
      BY <3>2, <3>3
  <2> QED
    BY <2>1, <2>2, <2>3
<1> QED
  BY <1>5, <1>6

\* InsertAlarm: the alarm is on the list; if it is the first one the timer is
\* set for it, if not, the first one and the timer are those of before.
LEMMA InsertEffect ==
  ASSUME StateType, Listed, NEW a \in Alarm, a \notin handler,
         NEW time \in Nat, InsertAlarm(a, time)
  PROVE  /\ AlarmQueue' \in Queue /\ handler' = handler \cup {a}
         /\ end' = [end EXCEPT ![a] = time] /\ Listed'
         /\ AlarmQueue'.head = a =>
              /\ timer' \in Nat /\ now < timer'
              /\ timer' <= now + 1 \/ timer' <= time + 1
         /\ AlarmQueue'.head # a =>
              /\ AlarmQueue'.head = AlarmQueue.head /\ AlarmQueue.head # NULL
              /\ timer' = timer
<1>1. PICK n \in Nat : \E l \in [1 .. n -> Alarm] :
        Holds(AlarmQueue, handler, end, n, l)
  BY DEF Listed
<1>2. PICK l \in [1 .. n -> Alarm] : Holds(AlarmQueue, handler, end, n, l)
  BY <1>1
<1>3. /\ AlarmQueue' = Insert(AlarmQueue, a, time)
      /\ handler' = handler \cup {a}
      /\ end' = [end EXCEPT ![a] = time]
      /\ timer' = IF AlarmQueue'.head = a THEN SetTimer(time) ELSE timer
  BY DEF InsertAlarm
<1>4. AlarmQueue \in Queue /\ end \in [Alarm -> Nat] /\ now \in Nat
  BY DEF StateType
<1>5. /\ Insert(AlarmQueue, a, time) \in Queue
      /\ Insert(AlarmQueue, a, time).head # a =>
           /\ Insert(AlarmQueue, a, time).head = AlarmQueue.head
           /\ AlarmQueue.head # NULL
  BY <1>2, <1>4, InsertHolds
<1>6. \E m \in [1 .. n + 1 -> Alarm] :
        Holds(Insert(AlarmQueue, a, time), handler \cup {a},
              [end EXCEPT ![a] = time], n + 1, m)
  BY <1>2, <1>4, InsertHolds
<1>7. Listed'
  <2>1. \E m \in [1 .. n + 1 -> Alarm] :
          Holds(AlarmQueue', handler', end', n + 1, m)
    BY <1>3, <1>6
  <2>2. n + 1 \in Nat
    OBVIOUS
  <2> QED
    BY <2>1, <2>2 DEF Listed
<1>8. /\ SetTimer(time) \in Nat /\ now < SetTimer(time)
      /\ SetTimer(time) <= now + 1 \/ SetTimer(time) <= time + 1
  BY <1>4, TimerTime
<1> QED
  BY <1>3, <1>5, <1>7, <1>8

\* OSCancelAlarm: the alarm is off the list, and the timer covers the others.
LEMMA CancelEffect ==
  ASSUME StateType, Listed, NEW a \in handler, Become(Cancel(Alarms, a))
  PROVE  /\ AlarmQueue' \in Queue /\ handler' = handler \ {a}
         /\ timer' \in Nat \cup {NULL} /\ Listed'
         /\ Covers(AlarmQueue, end, timer) => Covers(AlarmQueue, end, timer)'
         /\ UNCHANGED <<end, period, start, now>>
<1>1. PICK n \in Nat : \E l \in [1 .. n -> Alarm] :
        Holds(AlarmQueue, handler, end, n, l)
  BY DEF Listed
<1>2. PICK l \in [1 .. n -> Alarm] : Holds(AlarmQueue, handler, end, n, l)
  BY <1>1
<1> DEFINE s == Alarms
           r == Cancel(s, a)
<1>3. /\ s.queue = AlarmQueue /\ s.handler = handler /\ s.timer = timer
      /\ s \in Sets
  BY DEF Alarms, Sets, StateType
<1>4. /\ AlarmQueue' = r.queue /\ handler' = r.handler /\ timer' = r.timer
      /\ UNCHANGED <<end, period, start, now>>
  BY DEF Become
<1>5. r = Cancel(s, a) /\ Holds(s.queue, s.handler, end, n, l)
      /\ a \in s.handler /\ now \in Nat /\ end \in [Alarm -> Nat]
  BY <1>2, <1>3 DEF StateType
<1> HIDE DEF s, r
<1>6. r \in Sets /\ r.handler = s.handler \ {a}
  BY <1>3, <1>5, CancelHolds
<1>7. \E k \in 1 .. n :
        /\ l[k] = a
        /\ Holds(r.queue, r.handler, end, n - 1, Without(n, l, k))
  BY <1>3, <1>5, CancelHolds
<1>8. Covers(s.queue, end, s.timer) => Covers(r.queue, end, r.timer)
  BY <1>3, <1>5, CancelHolds
<1>9. PICK k \in 1 .. n :
        Holds(r.queue, r.handler, end, n - 1, Without(n, l, k))
  BY <1>7
<1>10. Listed'
  <2>1. Without(n, l, k) \in [1 .. n - 1 -> Alarm] /\ n - 1 \in Nat
    BY <1>9 DEF Holds, Chain
  <2>2. Holds(AlarmQueue', handler', end', n - 1, Without(n, l, k))
    BY <1>4, <1>9
  <2> QED
    BY <2>1, <2>2 DEF Listed
<1>11. Covers(AlarmQueue, end, timer) => Covers(AlarmQueue, end, timer)'
  BY <1>3, <1>4, <1>8 DEF Covers
<1> QED
  BY <1>3, <1>4, <1>6, <1>10, <1>11 DEF Sets

\* OnReset: only the alarms of the DVD are left.
LEMMA ResetEffect ==
  ASSUME StateType, Listed, OnReset
  PROVE  /\ AlarmQueue' \in Queue /\ handler' = handler \cap DVDAlarm
         /\ timer' \in Nat \cup {NULL} /\ Listed' /\ final' = TRUE /\ ~final
         /\ UNCHANGED <<end, period, start, now, running>>
<1>1. PICK n \in Nat : \E l \in [1 .. n -> Alarm] :
        Holds(AlarmQueue, handler, end, n, l)
  BY DEF Listed
<1>2. PICK l \in [1 .. n -> Alarm] : Holds(AlarmQueue, handler, end, n, l)
  BY <1>1
<1> DEFINE head == AlarmQueue.head
           next == IF head = NULL THEN NULL ELSE AlarmQueue.next[head]
           first == [s |-> Alarms, iter |-> head, next |-> next]
           top == Cardinality(Alarm)
           loop == CHOOSE f : IsLoop(first, top, f)
           s == loop[top].s
<1>3. Become(s) /\ final' = TRUE /\ ~final /\ UNCHANGED running
  BY DEF OnReset, IsLoop
<1>4. Resetting(first, handler, n, 0, l)
  <2>1. /\ Alarms.queue = AlarmQueue /\ Alarms.handler = handler
        /\ Alarms \in Sets /\ first.s = Alarms
        /\ first.iter = head /\ first.next = next
    BY DEF Alarms, Sets, StateType
  <2>2. Chain(AlarmQueue, n, l)
    BY <1>2 DEF Holds
  <2>3. \A i \in 1 .. n : l[i] # NULL
    BY Alarms0
  <2>4. head = IF n > 0 THEN l[0 + 1] ELSE NULL
    BY <2>2 DEF Chain
  <2>5. next = IF n > 1 THEN l[0 + 2] ELSE NULL
    <3>1. CASE n = 0
      BY <2>4, <3>1
    <3>2. CASE n > 0
      <4>1. head = l[1] /\ head # NULL /\ 1 \in 1 .. n
        BY <2>3, <2>4, <3>2
      <4>2. AlarmQueue.next[l[1]] = IF 1 = n THEN NULL ELSE l[1 + 1]
        BY <2>2, <4>1 DEF Chain
      <4> QED
        BY <3>2, <4>1, <4>2
    <3> QED
      BY <3>1, <3>2
  <2>6. 0 + n = n
    OBVIOUS
  <2> HIDE DEF first, head, next
  <2> QED
    BY <1>2, <2>1, <2>4, <2>5, <2>6 DEF Resetting
<1> HIDE DEF first
<1>5. IsLoop(first, top, loop)
  BY Alarms0, LoopExists
<1>6. now \in Nat /\ end \in [Alarm -> Nat]
  BY DEF StateType
<1> HIDE DEF loop
<1>7. /\ s \in Sets /\ s.handler = handler \cap DVDAlarm
      /\ \E c \in Nat : \E m : Holds(s.queue, s.handler, end, c, m)
  BY <1>4, <1>5, <1>6, LoopResult
<1> HIDE DEF s
<1>8. PICK c \in Nat : \E m : Holds(s.queue, s.handler, end, c, m)
  BY <1>7
<1>9. PICK m : Holds(s.queue, s.handler, end, c, m)
  BY <1>8
<1>10. /\ AlarmQueue' = s.queue /\ handler' = s.handler /\ timer' = s.timer
       /\ UNCHANGED <<end, period, start, now>>
  BY <1>3 DEF Become
<1>11. Listed'
  <2>1. m \in [1 .. c -> Alarm]
    BY <1>9 DEF Holds, Chain
  <2>2. Holds(AlarmQueue', handler', end', c, m)
    BY <1>9, <1>10
  <2> QED
    BY <2>1, <2>2 DEF Listed
<1> QED
  BY <1>3, <1>7, <1>10, <1>11 DEF Sets

\* The timer set for the first alarm of a list covers it.
LEMMA TimerForHeadCovers ==
  ASSUME now \in Nat, NEW q \in Queue, NEW at \in [Alarm -> Nat],
         NEW t, t = TimerForHead(q, at)
  PROVE  t \in Nat \cup {NULL} /\ Covers(q, at, t)
<1>1. CASE q.head = NULL
  BY <1>1 DEF TimerForHead, Covers
<1>2. CASE q.head # NULL
  <2> DEFINE time == at[q.head]
  <2>1. time \in Nat /\ t = SetTimer(time)
    BY <1>2 DEF TimerForHead, Queue, Link
  <2> HIDE DEF time
  <2>2. t \in Nat /\ now < t /\ (t <= now + 1 \/ t <= time + 1)
    BY <2>1, TimerTime
  <2>3. t # NULL
    BY <2>2, Alarms0
  <2> QED
    BY <2>2, <2>3 DEF Covers, time
<1> QED
  BY <1>1, <1>2

\* The exception handler: the first alarm leaves the list, or stays on it for
\* a later point of its grid, and the timer is set for the first one then.
LEMMA TakeEffect ==
  ASSUME StateType, Listed, NEW a \in handler, a = AlarmQueue.head,
         NEW time \in Nat,
         period[a] > 0 => time = PeriodicEnd(start[a], period[a]),
         TakeFirst(a)
  PROVE  /\ AlarmQueue' \in Queue /\ Listed'
         /\ timer' = TimerForHead(AlarmQueue', end')
         /\ period[a] > 0 => /\ handler' = handler
                             /\ end' = [end EXCEPT ![a] = time]
         /\ period[a] = 0 => handler' = handler \ {a} /\ end' = end
<1>1. PICK n \in Nat : \E l \in [1 .. n -> Alarm] :
        Holds(AlarmQueue, handler, end, n, l)
  BY DEF Listed
<1>2. PICK l \in [1 .. n -> Alarm] : Holds(AlarmQueue, handler, end, n, l)
  BY <1>1
<1> DEFINE rest == Unlink(AlarmQueue, a)
<1>3. /\ AlarmQueue \in Queue /\ end \in [Alarm -> Nat] /\ a \in Alarm
      /\ period[a] \in Nat /\ rest = Unlink(AlarmQueue, a)
  BY DEF StateType
<1>4. /\ period[a] > 0 => /\ AlarmQueue' = Insert(rest, a, time)
                          /\ handler' = handler
                          /\ end' = [end EXCEPT ![a] = time]
      /\ period[a] = 0 => /\ AlarmQueue' = rest
                          /\ handler' = handler \ {a} /\ end' = end
      /\ timer' = TimerForHead(AlarmQueue', end')
  BY <1>3 DEF TakeFirst
<1> HIDE DEF rest
<1>5. rest \in Queue
  BY <1>2, <1>3, UnlinkHolds, Zenon
<1>6. \E k \in 1 .. n :
        /\ l[k] = a
        /\ Holds(rest, handler \ {a}, end, n - 1, Without(n, l, k))
  BY <1>2, <1>3, UnlinkHolds
<1>7. PICK k \in 1 .. n :
        Holds(rest, handler \ {a}, end, n - 1, Without(n, l, k))
  BY <1>6
<1> DEFINE m == Without(n, l, k)
           set == handler \ {a}
<1>8. /\ n - 1 \in Nat /\ m \in [1 .. n - 1 -> Alarm]
      /\ Holds(rest, set, end, n - 1, m)
  <2>1. m \in [1 .. n - 1 -> Alarm]
    BY <1>7 DEF Holds, Chain
  <2> QED
    BY <1>7, <2>1
<1>9. a \notin set /\ set \cup {a} = handler
  OBVIOUS
<1> HIDE DEF m, set
<1>10. CASE period[a] = 0
  <2>1. Holds(AlarmQueue', handler', end', n - 1, m)
    BY <1>4, <1>8, <1>10 DEF set
  <2>2. Listed'
    BY <1>8, <2>1 DEF Listed
  <2> QED
    BY <1>4, <1>5, <1>10, <2>2
<1>11. CASE period[a] > 0
  <2> DEFINE c == n - 1
  <2>1. c \in Nat /\ Holds(rest, set, end, c, m)
    BY <1>8
  <2> HIDE DEF c
  <2>2. Insert(rest, a, time) \in Queue
    BY <1>3, <1>5, <1>9, <2>1, InsertHolds
  <2>3. \E w \in [1 .. c + 1 -> Alarm] :
          Holds(Insert(rest, a, time), set \cup {a},
                [end EXCEPT ![a] = time], c + 1, w)
    BY <1>3, <1>5, <1>9, <2>1, InsertHolds
  <2>4. \E w \in [1 .. c + 1 -> Alarm] :
          Holds(AlarmQueue', handler', end', c + 1, w)
    BY <1>4, <1>9, <1>11, <2>3
  <2>5. c + 1 \in Nat
    BY <2>1
  <2>6. Listed'
    BY <2>4, <2>5 DEF Listed
  <2> QED
    BY <1>4, <1>11, <2>2, <2>6
<1> QED
  BY <1>3, <1>10, <1>11

-----------------------------------------------------------------------------
(* The invariant is inductive. *)

\* At the beginning no alarm is set.
LEMMA InitAlarmInv == Init => AlarmInv
<1> SUFFICES ASSUME Init PROVE AlarmInv
  OBVIOUS
<1>1. StateType
  BY DEF Init, StateType, Queue, Link
<1>2. Listed
  <2> DEFINE l == [i \in 1 .. 0 |-> NULL]
  <2>1. l \in [1 .. 0 -> Alarm]
    OBVIOUS
  <2>2. Holds(AlarmQueue, handler, end, 0, l)
    BY <2>1 DEF Init, Holds, Chain, Members, Sorted
  <2> QED
    BY <2>1, <2>2 DEF Listed
<1>3. TimerSet
  BY DEF Init, TimerSet, Covers
<1>4. OnGrid
  BY DEF Init, OnGrid
<1> QED
  BY <1>1, <1>2, <1>3, <1>4 DEF AlarmInv

\* An alarm set once.
LEMMA SetKeepsInv ==
  ASSUME AlarmInv, NEW a \in Alarm, OSSetAlarm(a)
  PROVE  AlarmInv'
<1>1. PICK tick \in Ticks : InsertAlarm(a, now + tick)
  BY DEF OSSetAlarm
<1> DEFINE time == now + tick
<1>2. /\ ~final /\ a \notin handler /\ StateType /\ Listed
      /\ Covers(AlarmQueue, end, timer) /\ OnGrid
      /\ period' = [period EXCEPT ![a] = 0]
      /\ UNCHANGED <<start, now, running, final>>
  BY DEF OSSetAlarm, MaySet, AlarmInv, TimerSet
<1>3. time \in Nat /\ InsertAlarm(a, time)
  BY <1>1, <1>2, AlarmAssumption DEF StateType
<1> HIDE DEF time
<1>4. /\ AlarmQueue' \in Queue /\ handler' = handler \cup {a}
      /\ end' = [end EXCEPT ![a] = time] /\ Listed'
      /\ AlarmQueue'.head = a =>
           /\ timer' \in Nat /\ now < timer'
           /\ timer' <= now + 1 \/ timer' <= time + 1
      /\ AlarmQueue'.head # a =>
           /\ AlarmQueue'.head = AlarmQueue.head /\ AlarmQueue.head # NULL
           /\ timer' = timer
  BY <1>2, <1>3, InsertEffect
<1>5. StateType'
  BY <1>2, <1>3, <1>4 DEF StateType
<1>6. TimerSet'
  <2>1. CASE AlarmQueue'.head = a
    <3>1. end'[a] = time /\ period'[a] = 0 /\ timer' # NULL
      BY <1>2, <1>4, <2>1, Alarms0 DEF StateType
    <3> QED
      BY <1>2, <1>4, <2>1, <3>1 DEF TimerSet, Covers
  <2>2. CASE AlarmQueue'.head # a
    <3> DEFINE h == AlarmQueue.head
    <3>1. AlarmQueue'.head = h /\ h # NULL /\ h # a /\ timer' = timer
          /\ h \in Alarm
      BY <1>2, <1>4, <2>2 DEF StateType, Queue, Link
    <3>2. end'[h] = end[h] /\ period'[h] = period[h]
      BY <1>2, <1>4, <3>1 DEF StateType
    <3> QED
      BY <1>2, <3>1, <3>2 DEF TimerSet, Covers
  <2> QED
    BY <2>1, <2>2
<1>7. OnGrid'
  <2> SUFFICES ASSUME NEW b \in Alarm
               PROVE  /\ start'[b] <= now'
                      /\ b \in handler' /\ period'[b] > 0 =>
                           \E k \in Nat : end'[b] = start'[b] + period'[b] * k
    BY DEF OnGrid
  <2>1. CASE b = a
    BY <1>2, <2>1 DEF OnGrid, StateType
  <2>2. CASE b # a
    <3>1. end'[b] = end[b] /\ period'[b] = period[b] /\ start'[b] = start[b]
          /\ now' = now /\ (b \in handler' <=> b \in handler)
      BY <1>2, <1>4, <2>2 DEF StateType
    <3> QED
      BY <1>2, <3>1 DEF OnGrid
  <2> QED
    BY <2>1, <2>2
<1> QED
  BY <1>4, <1>5, <1>6, <1>7 DEF AlarmInv

\* A periodic alarm set: its first point is the present time.
LEMMA SetPeriodicKeepsInv ==
  ASSUME AlarmInv, NEW a \in Alarm, OSSetPeriodicAlarm(a)
  PROVE  AlarmInv'
<1>1. PICK p \in Periods :
        /\ period' = [period EXCEPT ![a] = p]
        /\ start' = [start EXCEPT ![a] = now]
        /\ InsertAlarm(a, PeriodicEnd(now, p))
  BY DEF OSSetPeriodicAlarm
<1>2. /\ ~final /\ a \notin handler /\ StateType /\ Listed
      /\ Covers(AlarmQueue, end, timer) /\ OnGrid
      /\ UNCHANGED <<now, running, final>>
  BY DEF OSSetPeriodicAlarm, MaySet, AlarmInv, TimerSet
<1>3. now \in Nat /\ p \in Nat /\ p > 0 /\ PeriodicEnd(now, p) = now
  BY <1>2, AlarmAssumption DEF StateType, PeriodicEnd
<1>4. InsertAlarm(a, now)
  BY <1>1, <1>3
<1>5. /\ AlarmQueue' \in Queue /\ handler' = handler \cup {a}
      /\ end' = [end EXCEPT ![a] = now] /\ Listed'
      /\ AlarmQueue'.head = a =>
           /\ timer' \in Nat /\ now < timer'
           /\ timer' <= now + 1 \/ timer' <= now + 1
      /\ AlarmQueue'.head # a =>
           /\ AlarmQueue'.head = AlarmQueue.head /\ AlarmQueue.head # NULL
           /\ timer' = timer
  BY <1>2, <1>3, <1>4, InsertEffect
<1>6. StateType'
  BY <1>1, <1>2, <1>3, <1>5 DEF StateType
<1>7. TimerSet'
  <2>1. CASE AlarmQueue'.head = a
    <3>1. timer' # NULL
      BY <1>5, <2>1, Alarms0
    <3> QED
      BY <1>2, <1>5, <2>1, <3>1 DEF TimerSet, Covers
  <2>2. CASE AlarmQueue'.head # a
    <3> DEFINE h == AlarmQueue.head
    <3>1. AlarmQueue'.head = h /\ h # NULL /\ h # a /\ timer' = timer
          /\ h \in Alarm
      BY <1>2, <1>5, <2>2 DEF StateType, Queue, Link
    <3>2. end'[h] = end[h] /\ period'[h] = period[h] /\ start'[h] = start[h]
      BY <1>1, <1>2, <1>5, <3>1 DEF StateType
    <3> QED
      BY <1>2, <3>1, <3>2 DEF TimerSet, Covers
  <2> QED
    BY <2>1, <2>2
<1>8. OnGrid'
  <2> SUFFICES ASSUME NEW b \in Alarm
               PROVE  /\ start'[b] <= now'
                      /\ b \in handler' /\ period'[b] > 0 =>
                           \E k \in Nat : end'[b] = start'[b] + period'[b] * k
    BY DEF OnGrid
  <2>1. CASE b = a
    <3>1. end'[a] = now /\ start'[a] = now /\ period'[a] = p /\ now' = now
      BY <1>1, <1>2, <1>5 DEF StateType
    <3>2. now = now + p * 0
      BY <1>3
    <3> QED
      BY <1>3, <2>1, <3>1, <3>2
  <2>2. CASE b # a
    <3>1. end'[b] = end[b] /\ period'[b] = period[b] /\ start'[b] = start[b]
          /\ now' = now /\ (b \in handler' <=> b \in handler)
      BY <1>1, <1>2, <1>5, <2>2 DEF StateType
    <3> QED
      BY <1>2, <3>1 DEF OnGrid
  <2> QED
    BY <2>1, <2>2
<1> QED
  BY <1>5, <1>6, <1>7, <1>8 DEF AlarmInv

\* An alarm cancelled.
LEMMA CancelKeepsInv ==
  ASSUME AlarmInv, NEW a \in Alarm, OSCancelAlarm(a)
  PROVE  AlarmInv'
<1>1. /\ StateType /\ Listed /\ OnGrid /\ ~final
      /\ Covers(AlarmQueue, end, timer)
      /\ a \in handler /\ Become(Cancel(Alarms, a))
      /\ UNCHANGED <<running, final>>
  BY DEF OSCancelAlarm, AlarmInv, TimerSet
<1>2. /\ AlarmQueue' \in Queue /\ handler' = handler \ {a}
      /\ timer' \in Nat \cup {NULL} /\ Listed'
      /\ Covers(AlarmQueue, end, timer)'
      /\ UNCHANGED <<end, period, start, now>>
  BY <1>1, CancelEffect
<1>3. StateType'
  BY <1>1, <1>2 DEF StateType
<1>4. TimerSet'
  BY <1>2 DEF TimerSet
<1>5. OnGrid'
  BY <1>1, <1>2 DEF OnGrid
<1> QED
  BY <1>2, <1>3, <1>4, <1>5 DEF AlarmInv

\* The shutdown.
LEMMA ResetKeepsInv == ASSUME AlarmInv, OnReset PROVE AlarmInv'
<1>1. StateType /\ Listed /\ OnGrid
  BY DEF AlarmInv
<1>2. /\ AlarmQueue' \in Queue /\ handler' = handler \cap DVDAlarm
      /\ timer' \in Nat \cup {NULL} /\ Listed' /\ final' = TRUE
      /\ UNCHANGED <<end, period, start, now, running>>
  BY <1>1, ResetEffect
<1>3. StateType'
  BY <1>1, <1>2 DEF StateType
<1>4. TimerSet' /\ OnGrid'
  BY <1>1, <1>2 DEF TimerSet, OnGrid
<1> QED
  BY <1>2, <1>3, <1>4 DEF AlarmInv

\* Time goes on.
LEMMA TickKeepsInv == ASSUME AlarmInv, Tick PROVE AlarmInv'
<1>1. /\ StateType /\ Listed /\ OnGrid /\ TimerSet /\ now' = now + 1
      /\ UNCHANGED <<AlarmQueue, handler, end, period, start, timer,
                     running, final>>
  BY DEF AlarmInv, Tick, alarmVars
<1>2. StateType'
  BY <1>1 DEF StateType
<1>3. Listed'
  BY <1>1 DEF Listed
<1>4. TimerSet'
  <2> SUFFICES ASSUME ~final, AlarmQueue.head # NULL
               PROVE  /\ timer # NULL
                      /\ timer <= now + 1 + 1
                           \/ timer <= end[AlarmQueue.head] + 1
                      /\ start[AlarmQueue.head] # now + 1
    BY <1>1 DEF TimerSet, Covers
  <2>1. AlarmQueue.head \in Alarm
    BY <1>1 DEF StateType, Queue, Link
  <2>2. /\ timer # NULL /\ timer \in Nat /\ now \in Nat
        /\ timer <= now + 1 \/ timer <= end[AlarmQueue.head] + 1
        /\ start[AlarmQueue.head] <= now /\ start[AlarmQueue.head] \in Nat
    BY <1>1, <2>1 DEF TimerSet, Covers, OnGrid, StateType
  <2> QED
    BY <2>2
<1>5. OnGrid'
  <2> SUFFICES ASSUME NEW b \in Alarm PROVE start[b] <= now + 1
    BY <1>1 DEF OnGrid
  <2> QED
    BY <1>1 DEF OnGrid, StateType
<1> QED
  BY <1>2, <1>3, <1>4, <1>5 DEF AlarmInv

\* An early exception.
LEMMA EarlyKeepsInv == ASSUME AlarmInv, DecrementerEarly PROVE AlarmInv'
<1>1. /\ StateType /\ Listed /\ OnGrid
      /\ timer' = TimerForHead(AlarmQueue, end)
      /\ UNCHANGED <<AlarmQueue, handler, end, period, start, now,
                     running, final>>
  BY DEF AlarmInv, DecrementerEarly, alarmVars
<1>2. /\ AlarmQueue \in Queue /\ end \in [Alarm -> Nat] /\ now \in Nat
  BY <1>1 DEF StateType
<1>3. TimerForHead(AlarmQueue, end) \in Nat \cup {NULL}
      /\ Covers(AlarmQueue, end, TimerForHead(AlarmQueue, end))
  BY <1>2, TimerForHeadCovers
<1>4. StateType'
  BY <1>1, <1>3 DEF StateType
<1>5. Listed' /\ OnGrid'
  BY <1>1 DEF Listed, OnGrid
<1>6. TimerSet'
  BY <1>1, <1>3 DEF TimerSet, Covers
<1> QED
  BY <1>4, <1>5, <1>6 DEF AlarmInv

\* The end of a handler.
LEMMA ReturnKeepsInv == ASSUME AlarmInv, HandlerReturns PROVE AlarmInv'
<1>1. /\ StateType /\ Listed /\ OnGrid /\ TimerSet /\ running' = NULL
      /\ UNCHANGED <<AlarmQueue, handler, end, period, start, now,
                     timer, final>>
  BY DEF AlarmInv, HandlerReturns, alarmVars
<1>2. StateType'
  BY <1>1 DEF StateType, Link
<1>3. Listed' /\ OnGrid' /\ TimerSet'
  BY <1>1 DEF Listed, OnGrid, TimerSet, Covers
<1> QED
  BY <1>2, <1>3 DEF AlarmInv

\* The alarm that the exception handler takes, and the time that it works out
\* for it: a point of the alarm's grid that is still to come.
LEMMA TakenAlarm ==
  ASSUME AlarmInv, DecrementerExceptionCallback
  PROVE  \E a \in handler : \E time \in Nat :
           /\ a = AlarmQueue.head /\ end[a] <= now /\ ~final /\ running = NULL
           /\ running' = a /\ UNCHANGED <<period, start, now, final>>
           /\ period[a] > 0 =>
                /\ \E k \in Nat : time = start[a] + period[a] * k
                /\ now < time /\ time <= now + period[a]
           /\ AlarmQueue' \in Queue /\ Listed'
           /\ timer' = TimerForHead(AlarmQueue', end')
           /\ period[a] > 0 => /\ handler' = handler
                               /\ end' = [end EXCEPT ![a] = time]
           /\ period[a] = 0 => handler' = handler \ {a} /\ end' = end
<1> DEFINE a == AlarmQueue.head
           time == IF period[a] > 0 THEN PeriodicEnd(start[a], period[a])
                                    ELSE 0
<1>1. /\ StateType /\ Listed /\ OnGrid /\ Covers(AlarmQueue, end, timer)
      /\ running = NULL /\ ~final /\ timer # NULL /\ timer <= now
      /\ a # NULL /\ end[a] <= now /\ TakeFirst(a) /\ running' = a
      /\ UNCHANGED <<period, start, now, final>>
  BY DEF AlarmInv, DecrementerExceptionCallback, Raised, TimerSet
<1>2. a \in handler
  BY <1>1, FirstAlarm
<1>3. /\ start[a] \in Nat /\ period[a] \in Nat /\ now \in Nat
      /\ timer \in Nat /\ start[a] <= now /\ end[a] \in Nat
  BY <1>1, <1>2 DEF StateType, OnGrid
<1>4. time \in Nat /\ (period[a] > 0 =>
        /\ \E k \in Nat : time = start[a] + period[a] * k
        /\ now < time /\ time <= now + period[a])
  <2>1. CASE period[a] = 0
    BY <2>1
  <2>2. CASE period[a] > 0
    <3>1. start[a] # now
      BY <1>1, <1>3, <2>2 DEF Covers
    <3> DEFINE from == start[a]
               p == period[a]
    <3>2. from \in Nat /\ p \in Nat /\ p > 0 /\ from < now /\ now \in Nat
      BY <1>3, <2>2, <3>1
    <3>3. time = PeriodicEnd(from, p)
      BY <2>2
    <3> HIDE DEF time, from, p
    <3>4. time \in Nat /\ now < time /\ time <= now + p
      BY <3>2, <3>3, PeriodicPoint
    <3>5. \E k \in Nat : time = from + p * k
      BY <3>2, <3>3, PeriodicPoint
    <3> QED
      BY <3>4, <3>5 DEF from, p
  <2> QED
    BY <1>3, <2>1, <2>2
<1>5. /\ a = AlarmQueue.head
      /\ period[a] > 0 => time = PeriodicEnd(start[a], period[a])
  OBVIOUS
<1> HIDE DEF a, time
<1>6. /\ AlarmQueue' \in Queue /\ Listed'
      /\ timer' = TimerForHead(AlarmQueue', end')
      /\ period[a] > 0 => /\ handler' = handler
                          /\ end' = [end EXCEPT ![a] = time]
      /\ period[a] = 0 => handler' = handler \ {a} /\ end' = end
  BY <1>1, <1>2, <1>4, <1>5, TakeEffect
<1> QED
  BY <1>1, <1>2, <1>4, <1>5, <1>6

\* The exception handler takes the first alarm.
LEMMA CallbackKeepsInv ==
  ASSUME AlarmInv, DecrementerExceptionCallback
  PROVE  AlarmInv'
<1>1. PICK a \in handler : \E time \in Nat :
        /\ a = AlarmQueue.head /\ end[a] <= now /\ ~final /\ running = NULL
        /\ running' = a /\ UNCHANGED <<period, start, now, final>>
        /\ period[a] > 0 =>
             /\ \E k \in Nat : time = start[a] + period[a] * k
             /\ now < time /\ time <= now + period[a]
        /\ AlarmQueue' \in Queue /\ Listed'
        /\ timer' = TimerForHead(AlarmQueue', end')
        /\ period[a] > 0 => /\ handler' = handler
                            /\ end' = [end EXCEPT ![a] = time]
        /\ period[a] = 0 => handler' = handler \ {a} /\ end' = end
  BY TakenAlarm
<1>2. PICK time \in Nat :
        /\ running' = a /\ UNCHANGED <<period, start, now, final>>
        /\ period[a] > 0 => \E k \in Nat : time = start[a] + period[a] * k
        /\ AlarmQueue' \in Queue /\ Listed'
        /\ timer' = TimerForHead(AlarmQueue', end')
        /\ period[a] > 0 => /\ handler' = handler
                            /\ end' = [end EXCEPT ![a] = time]
        /\ period[a] = 0 => handler' = handler \ {a} /\ end' = end
  BY <1>1
<1>3. StateType /\ OnGrid /\ a \in Alarm /\ period[a] \in Nat /\ now \in Nat
  BY DEF AlarmInv, StateType
<1>4. period[a] > 0 \/ period[a] = 0
  BY <1>3
<1>5. end' \in [Alarm -> Nat] /\ handler' \subseteq Alarm
  BY <1>2, <1>3, <1>4 DEF StateType
<1>6. timer' \in Nat \cup {NULL} /\ TimerSet'
  <2>1. PICK q \in Queue : q = AlarmQueue'
    BY <1>2
  <2>2. PICK at \in [Alarm -> Nat] : at = end'
    BY <1>5
  <2>3. PICK t : t = timer'
    OBVIOUS
  <2>4. t \in Nat \cup {NULL} /\ Covers(q, at, t)
    BY <1>2, <1>3, <2>1, <2>2, <2>3, TimerForHeadCovers
  <2> QED
    BY <1>2, <2>1, <2>2, <2>3, <2>4 DEF TimerSet, Covers
<1>7. StateType'
  BY <1>2, <1>3, <1>5, <1>6 DEF StateType, Link
<1>8. OnGrid'
  <2> SUFFICES ASSUME NEW b \in Alarm
               PROVE  /\ start[b] <= now
                      /\ b \in handler' /\ period[b] > 0 =>
                           \E k \in Nat : end'[b] = start[b] + period[b] * k
    BY <1>2 DEF OnGrid
  <2>1. CASE b = a
    <3>1. start[b] <= now
      BY <1>3 DEF OnGrid
    <3>2. period[a] > 0 => end'[a] = time
      BY <1>2, <1>3 DEF StateType
    <3> QED
      BY <1>2, <2>1, <3>1, <3>2
  <2>2. CASE b # a
    <3>1. end'[b] = end[b] /\ (b \in handler' <=> b \in handler)
      BY <1>2, <1>3, <1>4, <2>2 DEF StateType
    <3> QED
      BY <1>3, <3>1 DEF OnGrid
  <2> QED
    BY <2>1, <2>2
<1> QED
  BY <1>2, <1>6, <1>7, <1>8 DEF AlarmInv

\* Every step preserves the invariant.
LEMMA NextAlarmInv == AlarmInv /\ [Next]_vars => AlarmInv'
<1> SUFFICES ASSUME AlarmInv, [Next]_vars PROVE AlarmInv'
  OBVIOUS
<1>1. ASSUME NEW a \in Alarm, OSSetAlarm(a) PROVE AlarmInv'
  BY <1>1, SetKeepsInv
<1>2. ASSUME NEW a \in Alarm, OSSetPeriodicAlarm(a) PROVE AlarmInv'
  BY <1>2, SetPeriodicKeepsInv
<1>3. ASSUME NEW a \in Alarm, OSCancelAlarm(a) PROVE AlarmInv'
  BY <1>3, CancelKeepsInv
<1>4. CASE OnReset
  BY <1>4, ResetKeepsInv
<1>5. CASE Tick
  BY <1>5, TickKeepsInv
<1>6. CASE DecrementerEarly
  BY <1>6, EarlyKeepsInv
<1>7. CASE DecrementerExceptionCallback
  BY <1>7, CallbackKeepsInv
<1>8. CASE HandlerReturns
  BY <1>8, ReturnKeepsInv
<1>9. CASE UNCHANGED vars
  BY <1>9 DEF vars, alarmVars, AlarmInv, StateType, Listed, TimerSet, Covers,
              OnGrid
<1> QED
  BY <1>1, <1>2, <1>3, <1>4, <1>5, <1>6, <1>7, <1>8, <1>9 DEF Next

\* The invariant holds in every state.
THEOREM AlarmInvariance == Spec => []AlarmInv
<1>1. Init => AlarmInv
  BY InitAlarmInv
<1>2. AlarmInv /\ [Next]_vars => AlarmInv'
  BY NextAlarmInv
<1> QED
  BY <1>1, <1>2, PTL DEF Spec

-----------------------------------------------------------------------------
(* The properties. *)

\* What the invariant says of the list is what the property reads off its
\* links.
LEMMA ListedIsExact == ASSUME AlarmInv PROVE AlarmListExact
<1>1. StateType /\ Listed
  BY DEF AlarmInv
<1>2. PICK n \in Nat : \E l \in [1 .. n -> Alarm] :
        Holds(AlarmQueue, handler, end, n, l)
  BY <1>1 DEF Listed
<1>3. PICK l \in [1 .. n -> Alarm] : Holds(AlarmQueue, handler, end, n, l)
  BY <1>2
<1>4. /\ Chain(AlarmQueue, n, l) /\ Members(n, l) = handler
      /\ Sorted(n, l, end)
  BY <1>3 DEF Holds
<1>5. Cardinality(handler) = n
  BY <1>4, ChainLength
<1>6. \A i \in 0 .. n :
        Node(AlarmQueue, i) = IF i < n THEN l[i + 1] ELSE NULL
  BY <1>4, NodeOfChain
<1>7. \A i \in 1 .. n : Node(AlarmQueue, i - 1) = l[i]
  <2> TAKE i \in 1 .. n
  <2>1. i - 1 \in 0 .. n /\ i - 1 < n /\ (i - 1) + 1 = i
    OBVIOUS
  <2> QED
    BY <1>6, <2>1
<1>8. DOMAIN List = 1 .. n /\ \A i \in 1 .. n : List[i] = l[i]
  BY <1>5, <1>7 DEF List
<1>9. {List[i] : i \in DOMAIN List} = handler
  BY <1>4, <1>8 DEF Members
<1>10. Node(AlarmQueue, Cardinality(handler)) = NULL
  BY <1>5, <1>6
<1>11. AlarmQueue.tail = IF handler = {} THEN NULL
                         ELSE List[Cardinality(handler)]
  <2>1. handler = {} <=> n = 0
    BY <1>4 DEF Members
  <2> QED
    BY <1>4, <1>5, <1>8, <2>1 DEF Chain
<1>12. ASSUME NEW i \in DOMAIN List
       PROVE  /\ AlarmQueue.prev[List[i]] = IF i = 1 THEN NULL ELSE List[i - 1]
              /\ i > 1 => end[List[i - 1]] <= end[List[i]]
  <2>1. i \in 1 .. n /\ List[i] = l[i]
    BY <1>8
  <2>2. i > 1 => i - 1 \in 1 .. n /\ i - 1 < i /\ List[i - 1] = l[i - 1]
    BY <1>8, <2>1
  <2>3. AlarmQueue.prev[l[i]] = IF i = 1 THEN NULL ELSE l[i - 1]
    BY <1>4, <2>1 DEF Chain
  <2>4. i > 1 => end[l[i - 1]] <= end[l[i]]
    BY <1>4, <2>1, <2>2 DEF Sorted
  <2> QED
    BY <2>1, <2>2, <2>3, <2>4
<1> QED
  BY <1>9, <1>10, <1>11, <1>12 DEF AlarmListExact

\* However alarms are set, cancelled, taken and reset, the links of the alarm
\* queue are those of a doubly linked list of exactly the alarms that are set,
\* sorted by the times at which they end.
THEOREM AlarmListIsExact == Spec => []AlarmListExact
<1>1. AlarmInv => AlarmListExact
  BY ListedIsExact
<1> QED
  BY <1>1, AlarmInvariance, PTL

\* The decrementer is always set to raise its exception by the time at which
\* the first alarm ends, so that no alarm is forgotten.
THEOREM TimerCovers == Spec => []TimerCoversFirstAlarm
<1>1. AlarmInv => TimerCoversFirstAlarm
  <2> SUFFICES ASSUME AlarmInv, AlarmQueue.head # NULL, ~final
               PROVE  /\ timer # NULL
                      /\ timer <= Max({now, end[AlarmQueue.head]}) + 1
    BY DEF TimerCoversFirstAlarm
  <2> DEFINE e == end[AlarmQueue.head]
             S == {now, e}
  <2>1. now \in Nat /\ e \in Nat /\ timer \in Nat \cup {NULL}
    BY DEF AlarmInv, StateType, Queue, Link
  <2>2. timer # NULL /\ (timer <= now + 1 \/ timer <= e + 1)
    BY DEF AlarmInv, TimerSet, Covers
  <2> HIDE DEF e
  <2>3. \E x \in S : \A y \in S : x >= y
    BY <2>1
  <2>4. Max(S) \in S /\ \A y \in S : Max(S) >= y
    BY <2>3 DEF Max
  <2> QED
    BY <2>1, <2>2, <2>4 DEF e
<1> QED
  BY <1>1, AlarmInvariance, PTL

-----------------------------------------------------------------------------
(* The alarm service is implemented. *)

\* Setting an alarm sets it in the service.
LEMMA SetImplements ==
  ASSUME AlarmInv, NEW a \in Alarm, OSSetAlarm(a) \/ OSSetPeriodicAlarm(a)
  PROVE  Service!Next
<1>1. /\ ~final /\ a \notin handler /\ StateType
      /\ UNCHANGED <<now, running, final>>
      /\ \A b \in Alarm \ {a} : period'[b] = period[b]
      /\ \E time \in Nat : time >= now /\ InsertAlarm(a, time)
  <2>1. StateType /\ now \in Nat
    BY DEF AlarmInv, StateType
  <2>2. CASE OSSetAlarm(a)
    <3>1. PICK tick \in Ticks : InsertAlarm(a, now + tick)
      BY <2>2 DEF OSSetAlarm
    <3>2. now + tick \in Nat /\ now + tick >= now
      BY <2>1, AlarmAssumption
    <3> QED
      BY <2>1, <2>2, <3>1, <3>2 DEF OSSetAlarm, MaySet, StateType
  <2>3. CASE OSSetPeriodicAlarm(a)
    <3>1. PICK p \in Periods :
            /\ period' = [period EXCEPT ![a] = p]
            /\ InsertAlarm(a, PeriodicEnd(now, p))
      BY <2>3 DEF OSSetPeriodicAlarm
    <3>2. PeriodicEnd(now, p) = now
      BY <2>1 DEF PeriodicEnd
    <3> QED
      BY <2>1, <2>3, <3>1, <3>2 DEF OSSetPeriodicAlarm, MaySet, StateType
  <2> QED
    BY <2>2, <2>3
<1>2. PICK time \in Nat : time >= now /\ InsertAlarm(a, time)
  BY <1>1
<1>3. handler' = handler \cup {a} /\ end' = [end EXCEPT ![a] = time]
  BY <1>2 DEF InsertAlarm
<1>4. end'[a] = time /\ \A b \in Alarm \ {a} : end'[b] = end[b]
  BY <1>1, <1>3 DEF StateType
<1>5. Service!Set(a)
  BY <1>1, <1>2, <1>3, <1>4 DEF Service!Set
<1>6. \A b \in Alarm : Service!Undisturbed(b)
  BY <1>1, <1>4 DEF Service!Undisturbed
<1> QED
  BY <1>5, <1>6 DEF Service!Next

\* An alarm that the exception handler takes expires in the service: it is
\* due, no other one is due before it, and a periodic one comes again at the
\* next point of its grid.
LEMMA CallbackImplements ==
  ASSUME AlarmInv, DecrementerExceptionCallback
  PROVE  Service!Next
<1>1. PICK a \in handler : \E time \in Nat :
        /\ a = AlarmQueue.head /\ end[a] <= now /\ ~final /\ running = NULL
        /\ running' = a /\ UNCHANGED <<period, start, now, final>>
        /\ period[a] > 0 =>
             /\ \E k \in Nat : time = start[a] + period[a] * k
             /\ now < time /\ time <= now + period[a]
        /\ AlarmQueue' \in Queue /\ Listed'
        /\ timer' = TimerForHead(AlarmQueue', end')
        /\ period[a] > 0 => /\ handler' = handler
                            /\ end' = [end EXCEPT ![a] = time]
        /\ period[a] = 0 => handler' = handler \ {a} /\ end' = end
  BY TakenAlarm
<1>2. PICK time \in Nat :
        /\ a = AlarmQueue.head /\ end[a] <= now /\ ~final /\ running = NULL
        /\ running' = a /\ UNCHANGED <<period, start, now, final>>
        /\ period[a] > 0 =>
             /\ \E k \in Nat : time = start[a] + period[a] * k
             /\ now < time /\ time <= now + period[a]
        /\ period[a] > 0 => /\ handler' = handler
                            /\ end' = [end EXCEPT ![a] = time]
        /\ period[a] = 0 => handler' = handler \ {a} /\ end' = end
  BY <1>1
<1>3. /\ StateType /\ Listed /\ OnGrid /\ a \in Alarm /\ a # NULL
      /\ period[a] \in Nat /\ now \in Nat /\ start[a] \in Nat
      /\ end[a] \in Nat
  BY Alarms0 DEF AlarmInv, StateType
<1>4. \A b \in handler : end[a] <= end[b]
  BY <1>2, <1>3, FirstAlarm
<1>5. IF period[a] = 0
      THEN handler' = handler \ {a}
      ELSE /\ UNCHANGED handler
           /\ now < end'[a] /\ end'[a] <= now + period[a]
           /\ (end'[a] - end[a]) % period[a] = 0
  <2>1. CASE period[a] = 0
    BY <1>2, <2>1
  <2>2. CASE period[a] > 0
    <3> DEFINE from == start[a]
               p == period[a]
    <3>1. end'[a] = time /\ handler' = handler
      BY <1>2, <1>3, <2>2 DEF StateType
    <3>2. PICK k \in Nat : time = from + p * k
      BY <1>2, <2>2
    <3>3. PICK j \in Nat : end[a] = from + p * j
      BY <1>3, <2>2 DEF OnGrid
    <3>4. from + p * j < from + p * k
      <4>1. end[a] < time
        BY <1>2, <1>3, <2>2
      <4> QED
        BY <3>2, <3>3, <4>1
    <3>5. from \in Int /\ p \in Nat /\ p > 0
      BY <1>3, <2>2
    <3> HIDE DEF from, p
    <3>6. ((from + p * k) - (from + p * j)) % p = 0
      BY <3>4, <3>5, GridDistance
    <3>7. (end'[a] - end[a]) % p = 0
      BY <3>1, <3>2, <3>3, <3>6
    <3> QED
      BY <1>2, <2>2, <3>1, <3>7 DEF p
  <2> QED
    BY <1>3, <2>1, <2>2
<1>6. Service!Expire(a)
  BY <1>2, <1>4, <1>5 DEF Service!Expire
<1>7. \A b \in Alarm \ {a} : Service!Undisturbed(b)
  <2>1. \A b \in Alarm \ {a} : end'[b] = end[b]
    <3>1. CASE period[a] = 0
      BY <1>2, <3>1
    <3>2. CASE period[a] > 0
      BY <1>2, <1>3, <3>2 DEF StateType
    <3> QED
      BY <1>3, <3>1, <3>2
  <2> QED
    BY <1>2, <2>1 DEF Service!Undisturbed
<1> QED
  BY <1>2, <1>3, <1>6, <1>7 DEF Service!Next

\* Every step is a step of the service, or does not change what it shows.
LEMMA StepImplements ==
  AlarmInv /\ [Next]_vars
    => [Service!Next]_<<handler, end, period, now, running, final>>
<1> SUFFICES ASSUME AlarmInv, [Next]_vars
             PROVE  \/ Service!Next
                    \/ UNCHANGED <<handler, end, period, now, running, final>>
  OBVIOUS
<1>1. ASSUME NEW a \in Alarm, OSSetAlarm(a) \/ OSSetPeriodicAlarm(a)
      PROVE  Service!Next
  BY <1>1, SetImplements
<1>2. ASSUME NEW a \in Alarm, OSCancelAlarm(a) PROVE Service!Next
  <2>1. /\ StateType /\ Listed /\ a \in handler /\ Become(Cancel(Alarms, a))
        /\ UNCHANGED <<running, final>>
    BY <1>2 DEF OSCancelAlarm, AlarmInv
  <2>2. handler' = handler \ {a} /\ UNCHANGED <<end, period, start, now>>
    BY <2>1, CancelEffect
  <2>3. Service!Cancel(a)
    BY <2>1, <2>2 DEF Service!Cancel
  <2>4. \A b \in Alarm : Service!Undisturbed(b)
    BY <2>2 DEF Service!Undisturbed
  <2> QED
    BY <2>3, <2>4 DEF Service!Next
<1>3. CASE OnReset
  <2>1. /\ handler' = handler \cap DVDAlarm /\ final' = TRUE /\ ~final
        /\ UNCHANGED <<end, period, start, now, running>>
    BY <1>3, ResetEffect DEF AlarmInv
  <2>2. Service!Shutdown
    BY <2>1 DEF Service!Shutdown
  <2>3. \A b \in Alarm : Service!Undisturbed(b)
    BY <2>1 DEF Service!Undisturbed
  <2> QED
    BY <2>2, <2>3 DEF Service!Next
<1>4. CASE Tick
  <2>1. /\ now' = now + 1
        /\ UNCHANGED <<handler, end, period, running, final>>
    BY <1>4 DEF Tick, alarmVars
  <2>2. Service!TimePasses /\ \A b \in Alarm : Service!Undisturbed(b)
    BY <2>1 DEF Service!TimePasses, Service!Undisturbed
  <2> QED
    BY <2>2 DEF Service!Next
<1>5. CASE DecrementerEarly
  BY <1>5 DEF DecrementerEarly, alarmVars
<1>6. CASE DecrementerExceptionCallback
  BY <1>6, CallbackImplements
<1>7. CASE HandlerReturns
  <2>1. /\ running # NULL /\ running' = NULL
        /\ UNCHANGED <<handler, end, period, now, final>>
    BY <1>7 DEF HandlerReturns, alarmVars
  <2>2. Service!HandlerReturns /\ \A b \in Alarm : Service!Undisturbed(b)
    BY <2>1 DEF Service!HandlerReturns, Service!Undisturbed
  <2> QED
    BY <2>2 DEF Service!Next
<1>8. CASE UNCHANGED vars
  BY <1>8 DEF vars, alarmVars
<1> QED
  BY <1>1, <1>2, <1>3, <1>4, <1>5, <1>6, <1>7, <1>8 DEF Next

\* The list, the timer and the exception handler implement the alarm service:
\* an alarm expires after its time, the earliest one first and a periodic one
\* on its grid, and nothing else changes an alarm that is set.
THEOREM AlarmServiceImplemented == Spec => ImplementsAlarmService
<1>1. Init => Service!Init
  BY DEF Init, Service!Init
<1>2. AlarmInv /\ [Next]_vars
        => [Service!Next]_<<handler, end, period, now, running, final>>
  BY StepImplements
<1> QED
  BY <1>1, <1>2, AlarmInvariance, PTL
     DEF Spec, ImplementsAlarmService, Service!Spec
=============================================================================
