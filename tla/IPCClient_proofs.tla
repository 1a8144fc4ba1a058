--------------------------- MODULE IPCClient_proofs ---------------------------
(***************************************************************************)
(* The IPC client keeps its promise for every number of requests, every    *)
(* capacity of the ring and every width of its counters, whatever the IOS  *)
(* and the callers do.                                                     *)
(***************************************************************************)
EXTENDS IPCClient, Sequences, FiniteSetTheorems, TLAPS

-----------------------------------------------------------------------------
(* The ring, as a function of the client's record, so that the record after *)
(* a request was queued and before another was sent can be spoken of.       *)

Client ==
    [queue : [0 .. Capacity - 1 -> Req \cup {NULL}],
     front : 0 .. Capacity - 1, back : 0 .. Capacity - 1,
     sent : 0 .. Width - 1, queued : 0 .. Width - 1,
     mailboxAck : Int, relnchFl : BOOLEAN, relnchRpc : Req \cup {NULL},
     reboot : SUBSET Req]

\* How many requests wait, and where the i-th is, without a modulus.
Count(s) == IF s.queued < s.sent THEN s.queued - s.sent + Width
                                 ELSE s.queued - s.sent

Place(f, i) == IF f + i - 1 < Capacity THEN f + i - 1
                                       ELSE f + i - 1 - Capacity

\* The requests that wait, in order.
Accepted(s) == [i \in 1 .. Count(s) |-> s.queue[Place(s.front, i)]]

Members(q) == {q[i] : i \in DOMAIN q}

RingInv(s) ==
    /\ s \in Client
    /\ Count(s) <= Capacity
    /\ s.back = Place(s.front, Count(s) + 1)
    /\ Accepted(s) \in Seq(Req)
    /\ \A i, j \in 1 .. Count(s) : Accepted(s)[i] = Accepted(s)[j] => i = j

-----------------------------------------------------------------------------
(* The invariant. *)

Relaunching == c.relnchFl /\ c.relnchRpc \in ios \cup {PPCMSG, ARMMSG}

Allocated == {r \in Req : use[r] # "free"}

\* The variables beside the client's record have their types.
RestTypeOK ==
    /\ use \in [Req -> {"free", "sync", "async"}] /\ woken \subseteq Req
    /\ PPCMSG \in Req \cup {NULL} /\ ARMMSG \in Req \cup {NULL}
    /\ callback \in Req \cup {NULL}
    /\ ios \subseteq Req /\ ackFlag \in BOOLEAN /\ ready \in BOOLEAN

\* Every block is in one place.
PlaceInv ==
    /\ Pending \cup Issued \cup Done \subseteq Allocated
    /\ Pending \cap Issued = {} /\ Done \cap (Pending \cup Issued) = {}
    /\ ARMMSG # NULL => ARMMSG \notin ios \cup {PPCMSG}
    /\ PPCMSG \notin ios
    /\ callback \notin woken

\* The two mailboxes are used in turns, and while a relaunch is open its
\* request is the last that was sent.
MailboxInv ==
    /\ ackFlag => PPCMSG = NULL
    /\ ready => ARMMSG = NULL /\ callback = NULL
    /\ callback # NULL => ARMMSG = NULL
    /\ c.relnchFl => c.relnchRpc \in Req
    /\ c.relnchFl /\ PPCMSG # NULL => PPCMSG = c.relnchRpc
    /\ c.relnchFl /\ ~Relaunching => ackFlag /\ ios = {} /\ ARMMSG = NULL
    /\ (ios \cup {PPCMSG, ARMMSG}) \cap c.reboot \subseteq RelaunchOpen

IPCInv ==
    /\ RingInv(c) /\ RestTypeOK
    /\ PlaceInv /\ MailboxInv /\ CreditExact

-----------------------------------------------------------------------------
(* Facts about the ring. *)

\* The arithmetic of the indices and counters never goes beyond one turn.
LEMMA WrapOnce ==
  ASSUME NEW n \in Nat, n > 0, NEW x \in Int, -n < x, x < 2 * n
  PROVE  x % n = IF x < 0 THEN x + n ELSE IF x < n THEN x ELSE x - n
<1> DEFINE d == x \div n
           r == x % n
<1>1. d \in Int /\ r \in 0 .. n - 1 /\ x = n * d + r
  OBVIOUS
<1> HIDE DEF d, r
<1>2. d >= -1
  BY <1>1
<1>3. d < 2
  BY <1>1
<1>4. d = -1 \/ d = 0 \/ d = 1
  BY <1>1, <1>2, <1>3
<1>5. r = IF x < 0 THEN x + n ELSE IF x < n THEN x ELSE x - n
  BY <1>1, <1>4
<1> QED
  BY <1>5 DEF r

\* The step of an index or a counter.
LEMMA NextIndex ==
  ASSUME NEW n \in Nat, n > 0, NEW x \in 0 .. n - 1
  PROVE  (x + 1) % n = IF x + 1 < n THEN x + 1 ELSE 0
<1> DEFINE y == x + 1
<1>1. y \in Int /\ -n < y /\ y < 2 * n /\ 0 < y /\ y <= n
  OBVIOUS
<1> HIDE DEF y
<1>2. y % n = IF y < n THEN y ELSE 0
  BY <1>1, WrapOnce
<1> QED
  BY <1>2 DEF y

\* What the assumptions say of the two sizes.
LEMMA Sizes ==
  /\ Capacity \in Nat /\ Capacity > 0
  /\ Width \in Nat /\ Width > 1 /\ Capacity < Width
BY IPCAssumption

\* The types of the fields of the record.
LEMMA ClientFields ==
  ASSUME NEW s \in Client
  PROVE  /\ s.queue \in [0 .. Capacity - 1 -> Req \cup {NULL}]
         /\ s.front \in 0 .. Capacity - 1 /\ s.back \in 0 .. Capacity - 1
         /\ s.sent \in 0 .. Width - 1 /\ s.queued \in 0 .. Width - 1
         /\ s.mailboxAck \in Int /\ s.relnchFl \in BOOLEAN
         /\ s.relnchRpc \in Req \cup {NULL} /\ s.reboot \subseteq Req
BY DEF Client

\* The place of a request is a place of the ring.
LEMMA PlaceType ==
  ASSUME NEW f \in 0 .. Capacity - 1, NEW i \in 1 .. Capacity + 1
  PROVE  /\ Place(f, i) \in 0 .. Capacity - 1
         /\ (f + i - 1) % Capacity = Place(f, i)
<1>1. /\ f + i - 1 \in Int /\ -Capacity < f + i - 1
      /\ f + i - 1 < 2 * Capacity
  BY Sizes
<1> QED
  BY <1>1, Sizes, WrapOnce DEF Place

\* When the front moves on, every request comes one place closer to it.
LEMMA PlaceNext ==
  ASSUME NEW f \in 0 .. Capacity - 1, NEW i \in 1 .. Capacity
  PROVE  Place(IF f + 1 < Capacity THEN f + 1 ELSE 0, i) = Place(f, i + 1)
<1>1. CASE f + 1 < Capacity
  BY <1>1, Sizes DEF Place
<1>2. CASE f + 1 = Capacity
  BY <1>2, Sizes DEF Place
<1> QED
  BY <1>1, <1>2, Sizes

\* The number of requests that wait.
LEMMA CountType ==
  ASSUME NEW s \in Client
  PROVE  Count(s) \in Nat /\ Count(s) < Width
BY Sizes, ClientFields DEF Count

\* A function on 1 .. n is a sequence.
LEMMA FunctionIsSequence ==
  ASSUME NEW S, NEW n \in Nat, NEW f \in [1 .. n -> S]
  PROVE  f \in Seq(S) /\ Len(f) = n
OBVIOUS

\* Two sequences of one length with the same elements are equal.
LEMMA SameSequence ==
  ASSUME NEW S, NEW s1 \in Seq(S), NEW s2 \in Seq(S), NEW n \in Nat,
         Len(s1) = n, Len(s2) = n, \A i \in 1 .. n : s1[i] = s2[i]
  PROVE  s1 = s2
OBVIOUS

\* What the ring of c holds, as the properties of IPCClient say it.
RingMeans ==
    /\ Waiting = Count(c)
    /\ [i \in 1 .. Waiting |-> WaitingAt(i)] = Accepted(c)
    /\ Pending = Members(Accepted(c))

\* A ring in order is read as the sequence of its requests.
LEMMA RingMeaning == RingInv(c) => RingMeans
<1> SUFFICES ASSUME RingInv(c)
             PROVE  RingMeans
  OBVIOUS
<1>1. /\ c \in Client /\ Count(c) \in Nat /\ Count(c) <= Capacity
      /\ c.front \in 0 .. Capacity - 1
  BY ClientFields, CountType DEF RingInv
<1>2. Waiting = Count(c)
  <2>1. /\ c.queued - c.sent \in Int /\ -Width < c.queued - c.sent
        /\ c.queued - c.sent < 2 * Width /\ c.queued - c.sent < Width
        /\ c.queued \in Int /\ c.sent \in Int
    BY <1>1, Sizes, ClientFields
  <2> QED
    BY <2>1, Sizes, WrapOnce DEF Waiting, Count
<1>3. ASSUME NEW i \in 1 .. Count(c)
      PROVE  WaitingAt(i) = c.queue[Place(c.front, i)]
  <2>1. i \in 1 .. Capacity + 1
    BY <1>1, Sizes
  <2> QED
    BY <1>1, <2>1, PlaceType DEF WaitingAt
<1>4. [i \in 1 .. Waiting |-> WaitingAt(i)] = Accepted(c)
  BY <1>2, <1>3 DEF Accepted
<1>5. Pending = Members(Accepted(c))
  BY <1>2, <1>3 DEF Pending, Members, Accepted
<1> QED
  BY <1>2, <1>4, <1>5 DEF RingMeans

\* The same after a step.
LEMMA RingMeaningNext == RingInv(c)' => RingMeans'
BY RingMeaning, PTL

\* The sequence of the requests that wait.
LEMMA AcceptedProperties ==
  ASSUME NEW s, RingInv(s)
  PROVE  /\ Accepted(s) \in Seq(Req) /\ Len(Accepted(s)) = Count(s)
         /\ Count(s) \in Nat /\ DOMAIN Accepted(s) = 1 .. Count(s)
         /\ \A i \in 1 .. Count(s) :
               /\ Accepted(s)[i] = s.queue[Place(s.front, i)]
               /\ Accepted(s)[i] \in Req
<1>1. Count(s) \in Nat
  BY CountType DEF RingInv
<1>2. DOMAIN Accepted(s) = 1 .. Count(s)
  BY DEF Accepted
<1>3. Len(Accepted(s)) = Count(s)
  BY <1>1, <1>2 DEF RingInv
<1> QED
  BY <1>1, <1>2, <1>3 DEF RingInv, Accepted

\* There are as many requests in the ring as the counters say.
LEMMA RingCardinality ==
  ASSUME NEW s, RingInv(s)
  PROVE  Cardinality(Members(Accepted(s))) = Count(s)
<1>1. Accepted(s) \in Bijection(1 .. Count(s), Members(Accepted(s)))
  <2>1. /\ Accepted(s) = [i \in 1 .. Count(s) |-> Accepted(s)[i]]
        /\ DOMAIN Accepted(s) = 1 .. Count(s)
    BY DEF Accepted
  <2>2. \A i, j \in 1 .. Count(s) : Accepted(s)[i] = Accepted(s)[j] => i = j
    BY DEF RingInv
  <2> QED
    BY <2>1, <2>2 DEF Members, Bijection, Injection, Surjection, IsInjective
<1>2. ExistsBijection(1 .. Count(s), Members(Accepted(s)))
  BY <1>1 DEF ExistsBijection
<1> QED
  BY <1>2, AcceptedProperties, FS_CountingElements

\* What __ipcQueueRequest makes of the record.
LEMMA QueueRequestFields ==
  ASSUME NEW s \in Client, NEW r \in Req
  PROVE  LET q == QueueRequest(s, r)
         IN  /\ q \in Client
             /\ q.queue = [s.queue EXCEPT ![s.back] = r]
             /\ q.front = s.front /\ q.sent = s.sent
             /\ q.back = IF s.back + 1 < Capacity THEN s.back + 1 ELSE 0
             /\ q.queued = IF s.queued + 1 < Width THEN s.queued + 1 ELSE 0
             /\ q.mailboxAck = s.mailboxAck /\ q.relnchFl = s.relnchFl
             /\ q.relnchRpc = s.relnchRpc /\ q.reboot = s.reboot
<1>1. (s.back + 1) % Capacity = IF s.back + 1 < Capacity THEN s.back + 1 ELSE 0
  BY Sizes, ClientFields, NextIndex
<1>2. (s.queued + 1) % Width = IF s.queued + 1 < Width THEN s.queued + 1 ELSE 0
  <2>1. Width \in Nat /\ Width > 0
    BY Sizes
  <2> QED
    BY <2>1, ClientFields, NextIndex
<1>3. /\ (s.back + 1) % Capacity \in 0 .. Capacity - 1
      /\ (s.queued + 1) % Width \in 0 .. Width - 1
  BY <1>1, <1>2, Sizes, ClientFields
<1> QED
  BY <1>1, <1>2, <1>3 DEF QueueRequest, Client

\* A request goes behind the others, if the ring is not full.
LEMMA QueueRequestAppends ==
  ASSUME NEW s, RingInv(s), ~Full(s), NEW r \in Req,
         r \notin Members(Accepted(s))
  PROVE  /\ RingInv(QueueRequest(s, r))
         /\ Accepted(QueueRequest(s, r)) = Append(Accepted(s), r)
<1> DEFINE q == QueueRequest(s, r)
           n == Count(s)
<1>1. s \in Client /\ n \in Nat /\ n < Capacity /\ n = s.queued - s.sent
  BY Sizes, ClientFields DEF RingInv, Full, Count
<1>2. q \in Client
  BY <1>1, QueueRequestFields
<1>3. Count(q) = n + 1
  <2>1. /\ q.sent = s.sent
        /\ q.queued = IF s.queued + 1 < Width THEN s.queued + 1 ELSE 0
        /\ s.sent \in 0 .. Width - 1 /\ s.queued \in 0 .. Width - 1
        /\ s.queued >= s.sent
    <3>1. s.queued >= s.sent
      BY <1>1, ClientFields DEF Full
    <3> QED
      BY <1>1, <3>1, ClientFields, QueueRequestFields
  <2> HIDE DEF q, n
  <2>2. CASE s.queued + 1 < Width
    BY <1>1, <2>1, <2>2 DEF Count
  <2>3. CASE s.queued + 1 = Width
    BY <1>1, <2>1, <2>3, Sizes DEF Count
  <2> QED
    BY <2>1, <2>2, <2>3, Sizes
<1>4. s.back = Place(s.front, n + 1) /\ s.back \in 0 .. Capacity - 1
  BY <1>1, ClientFields DEF RingInv
<1>5. q.back = Place(s.front, n + 2)
  <2>1. /\ q.back = IF s.back + 1 < Capacity THEN s.back + 1 ELSE 0
        /\ s.front \in 0 .. Capacity - 1
    BY <1>1, ClientFields, QueueRequestFields
  <2> HIDE DEF q, n
  <2> QED
    BY <1>1, <1>4, <2>1, Sizes DEF Place
<1>6. \A i \in 1 .. n : Place(s.front, i) \in 0 .. Capacity - 1
                        /\ Place(s.front, i) # s.back
  <2>1. s.front \in 0 .. Capacity - 1
    BY <1>1, ClientFields
  <2> HIDE DEF q, n
  <2> QED
    BY <1>1, <1>4, <2>1, Sizes DEF Place
<1>7. /\ q.queue = [s.queue EXCEPT ![s.back] = r]
      /\ q.front = s.front
      /\ s.queue \in [0 .. Capacity - 1 -> Req \cup {NULL}]
  BY <1>1, ClientFields, QueueRequestFields
<1> HIDE DEF q, n
<1>8. ASSUME NEW i \in 1 .. n + 1
      PROVE  q.queue[Place(s.front, i)] = Append(Accepted(s), r)[i]
  <2>1. CASE i = n + 1
    <3>1. q.queue[Place(s.front, i)] = r
      BY <1>4, <1>7, <2>1
    <3>2. Append(Accepted(s), r)[n + 1] = r
      BY AcceptedProperties DEF n
    <3> QED
      BY <2>1, <3>1, <3>2
  <2>2. CASE i # n + 1
    <3>1. i \in 1 .. n
      BY <1>1, <2>2
    <3>2. q.queue[Place(s.front, i)] = s.queue[Place(s.front, i)]
      BY <1>6, <1>7, <3>1
    <3>3. Accepted(s)[i] = s.queue[Place(s.front, i)]
      BY <3>1, AcceptedProperties DEF n
    <3>4. Append(Accepted(s), r)[i] = Accepted(s)[i]
      BY <3>1, AcceptedProperties DEF n
    <3> QED
      BY <3>2, <3>3, <3>4
  <2> QED
    BY <2>1, <2>2
<1>9. /\ Append(Accepted(s), r) \in Seq(Req)
      /\ DOMAIN Append(Accepted(s), r) = 1 .. n + 1
  BY AcceptedProperties DEF n
<1>10. Accepted(q) = Append(Accepted(s), r)
  <2>1. Accepted(q) = [i \in 1 .. n + 1 |-> Append(Accepted(s), r)[i]]
    BY <1>3, <1>7, <1>8 DEF Accepted
  <2>2. \A i \in 1 .. n + 1 : Append(Accepted(s), r)[i] \in Req
    BY <1>9, <1>1
  <2>3. Accepted(q) \in Seq(Req) /\ Len(Accepted(q)) = n + 1
    <3>1. n + 1 \in Nat
      BY <1>1
    <3>2. Accepted(q) \in [1 .. n + 1 -> Req]
      BY <2>1, <2>2
    <3> QED
      BY <3>1, <3>2, FunctionIsSequence
  <2>4. Len(Append(Accepted(s), r)) = n + 1
    BY <1>1, <1>9
  <2> QED
    <3>1. \A i \in 1 .. n + 1 : Accepted(q)[i] = Append(Accepted(s), r)[i]
      BY <2>1
    <3>2. n + 1 \in Nat
      BY <1>1
    <3> QED
      BY <1>9, <2>3, <2>4, <3>1, <3>2, SameSequence
<1>11. ASSUME NEW i \in 1 .. n + 1, NEW j \in 1 .. n + 1,
              Append(Accepted(s), r)[i] = Append(Accepted(s), r)[j]
       PROVE  i = j
  <2>1. \A l \in 1 .. n : /\ Append(Accepted(s), r)[l] = Accepted(s)[l]
                          /\ Accepted(s)[l] # r
    BY AcceptedProperties DEF n, Members
  <2>2. Append(Accepted(s), r)[n + 1] = r
    BY AcceptedProperties DEF n
  <2>3. \A l, m \in 1 .. n : Accepted(s)[l] = Accepted(s)[m] => l = m
    BY DEF RingInv, n
  <2>4. CASE i \in 1 .. n /\ j \in 1 .. n
    BY <1>11, <2>1, <2>3, <2>4
  <2>5. CASE i = n + 1 \/ j = n + 1
    BY <1>1, <1>11, <2>1, <2>2, <2>5
  <2> QED
    BY <1>1, <2>4, <2>5
<1>12. RingInv(q)
  <2>1. Count(q) <= Capacity
    BY <1>1, <1>3, Sizes
  <2>2. q.back = Place(q.front, Count(q) + 1)
    <3>1. Count(q) + 1 = n + 2
      BY <1>1, <1>3
    <3> QED
      BY <1>5, <1>7, <3>1
  <2> QED
    BY <1>2, <1>3, <1>9, <1>10, <1>11, <2>1, <2>2 DEF RingInv
<1> QED
  BY <1>10, <1>12 DEF q

\* A request leaves the ring in front.
LEMMA FrontLeaves ==
  ASSUME NEW s, RingInv(s), ~NothingWaits(s), NEW t \in Client,
         t.queue = s.queue, t.back = s.back, t.queued = s.queued,
         t.front = IF s.front + 1 < Capacity THEN s.front + 1 ELSE 0,
         t.sent = s.sent + 1
  PROVE  /\ RingInv(t)
         /\ Accepted(s) # <<>> /\ First(s) = Head(Accepted(s))
         /\ Accepted(t) = Tail(Accepted(s))
<1> DEFINE n == Count(s)
<1>1. /\ s.front \in 0 .. Capacity - 1 /\ s.sent \in 0 .. Width - 1
      /\ s.queued \in 0 .. Width - 1
      /\ s.queue \in [0 .. Capacity - 1 -> Req \cup {NULL}]
      /\ s.back = Place(s.front, n + 1) /\ n <= Capacity
  BY ClientFields DEF RingInv
<1>2. /\ s.queued > s.sent /\ n = s.queued - s.sent
      /\ Count(t) = s.queued - (s.sent + 1)
  BY <1>1 DEF NothingWaits, Count
<1>3. n \in Nat /\ n > 0 /\ n - 1 \in Nat /\ Count(t) = n - 1
  <2>1. n \in Nat
    BY AcceptedProperties
  <2> HIDE DEF n
  <2> QED
    BY <1>1, <1>2, <2>1
<1> HIDE DEF n
<1>4. \A i \in 1 .. n : Place(t.front, i) = Place(s.front, i + 1)
  <2>1. \A i \in 1 .. n : i \in 1 .. Capacity
    BY <1>1, <1>3, Sizes
  <2> QED
    BY <1>1, <2>1, PlaceNext
<1>5. Place(s.front, 1) = s.front
  BY <1>1, Sizes DEF Place
<1>6. /\ Accepted(s) \in Seq(Req) /\ Len(Accepted(s)) = n
      /\ \A i \in 1 .. n : /\ Accepted(s)[i] = s.queue[Place(s.front, i)]
                           /\ Accepted(s)[i] \in Req
  BY AcceptedProperties DEF n
<1>7. Accepted(s) # <<>> /\ Head(Accepted(s)) = Accepted(s)[1]
  BY <1>3, <1>6
<1>8. First(s) = Head(Accepted(s))
  BY <1>3, <1>5, <1>6, <1>7 DEF First
<1>9. /\ Tail(Accepted(s)) \in Seq(Req) /\ Len(Tail(Accepted(s))) = n - 1
      /\ \A i \in 1 .. n - 1 : Tail(Accepted(s))[i] = Accepted(s)[i + 1]
  BY <1>3, <1>6, <1>7
<1>10. \A i \in 1 .. n - 1 : t.queue[Place(t.front, i)] = Accepted(s)[i + 1]
  <2>1. \A i \in 1 .. n - 1 : i \in 1 .. n /\ i + 1 \in 1 .. n
    BY <1>3
  <2> QED
    BY <1>4, <1>6, <2>1
<1>11. Accepted(t) = [i \in 1 .. n - 1 |-> Accepted(s)[i + 1]]
  BY <1>3, <1>10 DEF Accepted
<1>12. \A i \in 1 .. n - 1 : Accepted(s)[i + 1] \in Req
  BY <1>3, <1>6
<1>13. Accepted(t) \in Seq(Req) /\ Len(Accepted(t)) = n - 1
  <2>1. Accepted(t) \in [1 .. n - 1 -> Req]
    BY <1>11, <1>12
  <2> QED
    BY <1>3, <2>1, FunctionIsSequence
<1>14. Accepted(t) = Tail(Accepted(s))
  <2>1. \A i \in 1 .. n - 1 : Accepted(t)[i] = Tail(Accepted(s))[i]
    BY <1>9, <1>11
  <2> QED
    BY <1>3, <1>9, <1>13, <2>1, SameSequence
<1>15. ASSUME NEW i \in 1 .. n - 1, NEW j \in 1 .. n - 1,
              Accepted(t)[i] = Accepted(t)[j]
       PROVE  i = j
  <2>1. i + 1 \in 1 .. n /\ j + 1 \in 1 .. n
    BY <1>3
  <2>2. Accepted(s)[i + 1] = Accepted(s)[j + 1]
    BY <1>11, <1>15
  <2>3. i + 1 = j + 1
    BY <2>1, <2>2 DEF RingInv, n
  <2> QED
    BY <2>3
<1>16. t.back = Place(t.front, Count(t) + 1)
  <2>1. Count(t) + 1 = n
    BY <1>3
  <2>2. Place(t.front, n) = Place(s.front, n + 1)
    BY <1>3, <1>4
  <2> QED
    BY <1>1, <2>1, <2>2
<1>17. Count(t) <= Capacity
  BY <1>1, <1>3, Sizes
<1>18. RingInv(t)
  BY <1>3, <1>13, <1>15, <1>16, <1>17 DEF RingInv
<1> QED
  BY <1>7, <1>8, <1>14, <1>18

\* What __ipcSendRequest does to the record, if a request waits.
LEMMA SendRequestTakes ==
  ASSUME NEW s, RingInv(s), ~NothingWaits(s)
  PROVE  LET t == SendRequest(s)
             r == Head(Accepted(s))
         IN  /\ RingInv(t) /\ Accepted(s) # <<>> /\ First(s) = r
             /\ Accepted(t) = Tail(Accepted(s)) /\ t.reboot = s.reboot
             /\ t.queued = s.queued /\ t.sent = s.sent + 1
             /\ r \in s.reboot => /\ t.relnchFl /\ t.relnchRpc = r
                                  /\ t.mailboxAck = s.mailboxAck - 2
             /\ r \notin s.reboot => /\ t.relnchFl = s.relnchFl
                                     /\ t.relnchRpc = s.relnchRpc
                                     /\ t.mailboxAck = s.mailboxAck - 1
<1> DEFINE t == SendRequest(s)
<1>1. /\ s \in Client /\ s.sent + 1 \in 0 .. Width - 1
      /\ (s.sent + 1) % Width = s.sent + 1
  <2>1. s \in Client
    BY DEF RingInv
  <2>2. /\ s.sent \in 0 .. Width - 1 /\ s.queued \in 0 .. Width - 1
        /\ s.queued > s.sent
    BY <2>1, ClientFields DEF NothingWaits
  <2>3. Width \in Nat /\ Width > 0
    BY Sizes
  <2>4. (s.sent + 1) % Width = IF s.sent + 1 < Width THEN s.sent + 1 ELSE 0
    BY <2>2, <2>3, NextIndex
  <2> QED
    BY <2>1, <2>2, <2>3, <2>4
<1>2. /\ (s.front + 1) % Capacity
           = IF s.front + 1 < Capacity THEN s.front + 1 ELSE 0
      /\ (s.front + 1) % Capacity \in 0 .. Capacity - 1
  <2>1. (s.front + 1) % Capacity
           = IF s.front + 1 < Capacity THEN s.front + 1 ELSE 0
    BY <1>1, ClientFields, Sizes, NextIndex
  <2> QED
    BY <1>1, <2>1, ClientFields, Sizes
<1>3. First(s) \in Req \cup {NULL}
  BY <1>1, ClientFields DEF First
<1>4. LET u == TakeFirst(s)
      IN  /\ u \in Client
          /\ u.queue = s.queue /\ u.back = s.back /\ u.queued = s.queued
          /\ u.front = (s.front + 1) % Capacity /\ u.sent = s.sent + 1
          /\ u.reboot = s.reboot /\ u.mailboxAck = s.mailboxAck - 1
          /\ u.relnchFl = s.relnchFl /\ u.relnchRpc = s.relnchRpc
  <2>1. s.mailboxAck - 1 \in Int
    BY <1>1, ClientFields
  <2>2. TakeFirst(s) = [s EXCEPT !.front = (s.front + 1) % Capacity,
                                 !.sent = s.sent + 1,
                                 !.mailboxAck = s.mailboxAck - 1]
    BY <1>1 DEF TakeFirst
  <2> QED
    BY <1>1, <1>2, <2>1, <2>2 DEF Client
<1>5. /\ t \in Client
      /\ t.queue = s.queue /\ t.back = s.back /\ t.queued = s.queued
      /\ t.front = (s.front + 1) % Capacity /\ t.sent = s.sent + 1
      /\ t.reboot = s.reboot
      /\ First(s) \in s.reboot => /\ t.relnchFl /\ t.relnchRpc = First(s)
                                  /\ t.mailboxAck = s.mailboxAck - 2
      /\ First(s) \notin s.reboot => /\ t.relnchFl = s.relnchFl
                                     /\ t.relnchRpc = s.relnchRpc
                                     /\ t.mailboxAck = s.mailboxAck - 1
  <2>1. CASE First(s) \notin s.reboot
    BY <1>4, <2>1 DEF SendRequest
  <2>2. CASE First(s) \in s.reboot
    <3> DEFINE u == TakeFirst(s)
    <3>1. t = [u EXCEPT !.relnchFl = TRUE, !.relnchRpc = First(s),
                        !.mailboxAck = @ - 1]
      BY <2>2 DEF SendRequest
    <3>2. /\ u.mailboxAck - 1 = s.mailboxAck - 2 /\ u.mailboxAck - 1 \in Int
      BY <1>1, <1>4, ClientFields
    <3> HIDE DEF t, u
    <3>3. u \in Client
      BY <1>4 DEF u
    <3>4. /\ t \in Client
          /\ t.queue = u.queue /\ t.back = u.back /\ t.queued = u.queued
          /\ t.front = u.front /\ t.sent = u.sent /\ t.reboot = u.reboot
          /\ t.relnchFl /\ t.relnchRpc = First(s)
          /\ t.mailboxAck = u.mailboxAck - 1
      BY <1>3, <3>1, <3>2, <3>3 DEF Client
    <3> QED
      BY <1>4, <2>2, <3>2, <3>4 DEF u
  <2> QED
    BY <2>1, <2>2
<1> HIDE DEF t
<1>6. /\ RingInv(t)
      /\ Accepted(s) # <<>> /\ First(s) = Head(Accepted(s))
      /\ Accepted(t) = Tail(Accepted(s))
  BY <1>2, <1>5, FrontLeaves
<1> QED
  BY <1>5, <1>6 DEF t

\* A request queued is among those that wait.
LEMMA MembersAppend ==
  ASSUME NEW S, NEW q \in Seq(S), NEW r \in S
  PROVE  Members(Append(q, r)) = Members(q) \cup {r}
<1> DEFINE n == Len(q)
<1>1. /\ n \in Nat /\ DOMAIN q = 1 .. n
      /\ DOMAIN Append(q, r) = 1 .. n + 1
      /\ Append(q, r)[n + 1] = r
      /\ \A i \in 1 .. n : Append(q, r)[i] = q[i]
  OBVIOUS
<1> HIDE DEF n
<1>2. 1 .. n + 1 = (1 .. n) \cup {n + 1}
  BY <1>1
<1> QED
  BY <1>1, <1>2 DEF Members

\* The first request is one of those that wait, once.
LEMMA HeadLeaves ==
  ASSUME NEW s, RingInv(s), Accepted(s) # <<>>
  PROVE  /\ Head(Accepted(s)) \in Req
         /\ Head(Accepted(s)) \in Members(Accepted(s))
         /\ Members(Tail(Accepted(s)))
              = Members(Accepted(s)) \ {Head(Accepted(s))}
<1> DEFINE q == Accepted(s)
           n == Count(s)
<1>1. /\ q \in Seq(Req) /\ Len(q) = n /\ n \in Nat /\ DOMAIN q = 1 .. n
      /\ \A i \in 1 .. n : q[i] \in Req
  BY AcceptedProperties
<1>2. \A i, j \in 1 .. n : q[i] = q[j] => i = j
  BY DEF RingInv
<1> HIDE DEF q, n
<1>3. /\ n > 0 /\ Head(q) = q[1] /\ 1 \in 1 .. n
      /\ Tail(q) \in Seq(Req) /\ DOMAIN Tail(q) = 1 .. n - 1
      /\ \A i \in 1 .. n - 1 : Tail(q)[i] = q[i + 1]
  <2>1. q # <<>>
    BY DEF q
  <2> QED
    BY <1>1, <2>1
<1>4. Members(Tail(q)) = {q[i + 1] : i \in 1 .. n - 1}
  BY <1>3 DEF Members
<1>5. Members(q) = {q[i] : i \in 1 .. n}
  BY <1>1 DEF Members
<1>6. ASSUME NEW x \in Members(Tail(q))
      PROVE  x \in Members(q) /\ x # Head(q)
  <2>1. PICK i \in 1 .. n - 1 : x = q[i + 1]
    BY <1>4
  <2>2. i + 1 \in 1 .. n /\ i + 1 # 1
    BY <1>1
  <2> QED
    BY <1>2, <1>3, <1>5, <2>1, <2>2
<1>7. ASSUME NEW x \in Members(q), x # Head(q)
      PROVE  x \in Members(Tail(q))
  <2>1. PICK i \in 1 .. n : x = q[i]
    BY <1>5
  <2>2. i - 1 \in 1 .. n - 1 /\ (i - 1) + 1 = i
    BY <1>1, <1>3, <1>7, <2>1
  <2> QED
    BY <1>4, <2>1, <2>2
<1>8. Head(q) \in Req /\ Head(q) \in Members(q)
  BY <1>1, <1>3, <1>5
<1> QED
  BY <1>6, <1>7, <1>8 DEF q

-----------------------------------------------------------------------------
(* Sending the next request. *)

\* __ipcSendRequest puts the first request of s in the mailbox.
Sends(s) ==
    /\ s.mailboxAck > 0
    /\ Accepted(s) # <<>> /\ Accepted(c)' = Tail(Accepted(s))
    /\ PPCMSG' = Head(Accepted(s)) /\ PPCMSG' \in Req
    /\ PPCMSG' \in Members(Accepted(s))
    /\ Members(Accepted(c))' = Members(Accepted(s)) \ {PPCMSG'}
    /\ c'.reboot = s.reboot
    /\ s.sent < s.queued /\ c'.sent = s.sent + 1 /\ c'.queued = s.queued
    /\ PPCMSG' \in s.reboot => /\ c'.relnchFl /\ c'.relnchRpc = PPCMSG'
                               /\ c'.mailboxAck = s.mailboxAck - 2
    /\ PPCMSG' \notin s.reboot => /\ c'.relnchFl = s.relnchFl
                                  /\ c'.relnchRpc = s.relnchRpc
                                  /\ c'.mailboxAck = s.mailboxAck - 1

SendsNothing(s) ==
    /\ s.mailboxAck <= 0 \/ s.queued <= s.sent
    /\ c' = s /\ PPCMSG' = PPCMSG
    /\ Accepted(c)' = Accepted(s)

\* A handler or a call that ends in SendNext sends one request or none.
LEMMA SendNextOutcome ==
  ASSUME NEW s, RingInv(s), SendNext(s)
  PROVE  RingInv(c)' /\ (Sends(s) \/ SendsNothing(s))
<1>1. CASE s.mailboxAck <= 0 \/ NothingWaits(s)
  <2>1. s.mailboxAck <= 0 \/ s.queued <= s.sent
    BY <1>1, ClientFields DEF NothingWaits, RingInv
  <2> QED
    BY <1>1, <2>1 DEF SendNext, SendsNothing
<1>2. CASE ~(s.mailboxAck <= 0) /\ ~NothingWaits(s)
  <2>1. c' = SendRequest(s) /\ PPCMSG' = First(s)
    BY <1>2 DEF SendNext
  <2>2. s.mailboxAck > 0 /\ s.sent < s.queued
    BY <1>2, ClientFields DEF RingInv, NothingWaits
  <2>3. RingInv(c') /\ Accepted(c') = Tail(Accepted(s))
    BY <1>2, <2>1, SendRequestTakes
  <2>4. /\ Accepted(s) # <<>> /\ PPCMSG' = Head(Accepted(s))
        /\ PPCMSG' \in Req /\ PPCMSG' \in Members(Accepted(s))
        /\ Members(Accepted(c')) = Members(Accepted(s)) \ {PPCMSG'}
    BY <1>2, <2>1, <2>3, SendRequestTakes, HeadLeaves
  <2> QED
    BY <1>2, <2>1, <2>2, <2>3, <2>4, SendRequestTakes DEF Sends
<1> QED
  BY <1>1, <1>2

-----------------------------------------------------------------------------
(* The steps of the IOS and the returns of the callers, which leave the     *)
(* client's record alone.                                                   *)

Queue == [i \in 1 .. Waiting |-> WaitingAt(i)]

\* The variables of the IPC service.
serviceVars == <<Queue, Issued, Done, Lost>>

\* What the mailbox may do in a step.
Handshake ==
    PPCMSG' \notin {PPCMSG, NULL}
      => /\ PPCMSG = NULL
         /\ c'.relnchFl => c'.relnchRpc = PPCMSG'

\* A record that is left alone is in order and holds the same requests.
LEMMA RecordKept ==
  ASSUME RingInv(c), c' = c
  PROVE  /\ RingInv(c)' /\ Pending' = Pending /\ Queue' = Queue
         /\ Waiting' = Waiting
<1>1. Waiting' = Waiting
  BY DEF Waiting
<1>2. \A i : WaitingAt(i)' = WaitingAt(i)
  BY DEF WaitingAt
<1>3. Pending' = Pending /\ Queue' = Queue
  BY <1>1, <1>2 DEF Pending, Queue
<1>4. RingInv(c)'
  OBVIOUS
<1> QED
  BY <1>1, <1>3, <1>4

\* The IOS takes a request out of the mailbox.
LEMMA IosTakesStep ==
  ASSUME IPCInv, IosTakes
  PROVE  IPCInv' /\ UNCHANGED serviceVars
<1> USE DEF IPCInv
<1>1. /\ PPCMSG \in Req /\ PPCMSG # NULL /\ ios' = ios \cup {PPCMSG}
      /\ PPCMSG' = NULL /\ ackFlag' = TRUE /\ NULL \notin Req
      /\ c' = c /\ use' = use /\ woken' = woken /\ callback' = callback
      /\ ARMMSG' = ARMMSG /\ ready' = ready
  BY IPCAssumption DEF IosTakes, RestTypeOK
<1>2. /\ RingInv(c)' /\ Pending' = Pending /\ Queue' = Queue
  BY <1>1, RecordKept
<1>3. RestTypeOK'
  BY <1>1 DEF RestTypeOK
<1>4. RelaunchOpen' = RelaunchOpen
  BY <1>1 DEF RelaunchOpen
<1>5. Issued' = Issued
  BY <1>1, <1>4 DEF Issued
<1>6. Done' = Done /\ Allocated' = Allocated
  BY <1>1 DEF Done, Allocated
<1>7. Lost' = Lost
  BY <1>1, <1>2, <1>5, <1>6 DEF Lost
<1>8. PlaceInv'
  BY <1>1, <1>2, <1>5, <1>6 DEF PlaceInv, RestTypeOK
<1>9. Relaunching' = Relaunching
  BY <1>1 DEF Relaunching, MailboxInv
<1>10. MailboxInv'
  <2>1. NULL \notin c.reboot
    BY <1>1, ClientFields DEF RingInv
  <2> QED
    BY <1>1, <1>4, <1>9, <2>1 DEF MailboxInv
<1>11. CreditExact'
  BY <1>1, <1>9 DEF CreditExact, Relaunching, MailboxInv
<1> QED
  BY <1>2, <1>3, <1>5, <1>6, <1>7, <1>8, <1>10, <1>11 DEF serviceVars

\* The IOS answers a request.
LEMMA IosRepliesStep ==
  ASSUME IPCInv, NEW r \in Req, IosReplies(r)
  PROVE  IPCInv' /\ UNCHANGED serviceVars
<1> USE DEF IPCInv
<1>1. /\ r \in ios /\ ready /\ ios' = ios \ {r} /\ ARMMSG' = r
      /\ ready' = FALSE /\ NULL \notin Req
      /\ c' = c /\ use' = use /\ woken' = woken /\ callback' = callback
      /\ PPCMSG' = PPCMSG /\ ackFlag' = ackFlag
      /\ ARMMSG = NULL /\ callback = NULL
  BY IPCAssumption DEF IosReplies, MailboxInv
<1>2. /\ RingInv(c)' /\ Pending' = Pending /\ Queue' = Queue
  BY <1>1, RecordKept
<1>3. RestTypeOK'
  BY <1>1 DEF RestTypeOK
<1>4. RelaunchOpen' = RelaunchOpen
  BY <1>1 DEF RelaunchOpen
<1>5. Issued' = Issued
  BY <1>1, <1>4 DEF Issued
<1>6. Done' = Done /\ Allocated' = Allocated
  BY <1>1 DEF Done, Allocated
<1>7. Lost' = Lost
  BY <1>1, <1>2, <1>5, <1>6 DEF Lost
<1>8. PlaceInv'
  BY <1>1, <1>2, <1>5, <1>6 DEF PlaceInv, RestTypeOK
<1>9. Relaunching' = Relaunching
  BY <1>1 DEF Relaunching, MailboxInv
<1>10. MailboxInv'
  BY <1>1, <1>4, <1>9 DEF MailboxInv
<1>11. CreditExact'
  BY <1>1, <1>9 DEF CreditExact, Relaunching, MailboxInv
<1> QED
  BY <1>2, <1>3, <1>5, <1>6, <1>7, <1>8, <1>10, <1>11 DEF serviceVars

\* The IOS starts anew and forgets its requests.
LEMMA IosReloadsStep ==
  ASSUME IPCInv, IosReloads
  PROVE  IPCInv' /\ Service!Next
<1> USE DEF IPCInv
<1>1. /\ ~ackFlag /\ ARMMSG = NULL /\ ios' = {} /\ ackFlag' = TRUE
      /\ NULL \notin Req
      /\ c' = c /\ use' = use /\ woken' = woken /\ callback' = callback
      /\ PPCMSG' = PPCMSG /\ ARMMSG' = ARMMSG /\ ready' = ready
  BY IPCAssumption DEF IosReloads
<1>2. /\ c.relnchFl /\ c.relnchRpc \in ios \cap c.reboot
      /\ PPCMSG = NULL
  <2>1. PICK r \in ios \cap c.reboot : TRUE
    BY DEF IosReloads
  <2>2. c.relnchFl /\ c.relnchRpc = r
    BY <2>1 DEF MailboxInv, RelaunchOpen
  <2> QED
    BY <2>1, <2>2 DEF MailboxInv, PlaceInv
<1>3. /\ RingInv(c)' /\ Pending' = Pending /\ Queue' = Queue
  BY <1>1, RecordKept
<1>4. RestTypeOK'
  BY <1>1 DEF RestTypeOK
<1>5. RelaunchOpen' = RelaunchOpen /\ RelaunchOpen = {c.relnchRpc}
  BY <1>1, <1>2 DEF RelaunchOpen
<1>6. Issued' = {c.relnchRpc} /\ Issued = ios
  BY <1>1, <1>2, <1>5 DEF Issued
<1>7. Done' = Done /\ Allocated' = Allocated
  BY <1>1 DEF Done, Allocated
<1>8. PlaceInv'
  BY <1>1, <1>2, <1>3, <1>6, <1>7 DEF PlaceInv, RestTypeOK
<1>9. Relaunching /\ ~Relaunching'
  BY <1>1, <1>2 DEF Relaunching, RestTypeOK
<1>10. MailboxInv'
  BY <1>1, <1>2, <1>5, <1>9 DEF MailboxInv
<1>11. CreditExact'
  BY <1>1, <1>2, <1>9 DEF CreditExact, Relaunching
<1>12. Lost' = Lost \cup (Issued \ Issued')
  BY <1>1, <1>2, <1>3, <1>6, <1>7 DEF Lost, PlaceInv, Allocated
<1>13. Service!Relaunch(c.relnchRpc)
  BY <1>1, <1>2, <1>3, <1>6, <1>7, <1>12 DEF Service!Relaunch, Queue
<1>14. c.relnchRpc \in Req
  BY <1>2 DEF RestTypeOK
<1> QED
  BY <1>3, <1>4, <1>8, <1>10, <1>11, <1>13, <1>14 DEF Service!Next

\* The caller of a synchronous request returns.
LEMMA CallerReturnsStep ==
  ASSUME IPCInv, NEW r \in Req, CallerReturns(r)
  PROVE  IPCInv' /\ Service!Next
<1> USE DEF IPCInv
<1>1. /\ r \in woken /\ callback = NULL /\ woken' = woken \ {r}
      /\ use' = [use EXCEPT ![r] = "free"] /\ NULL \notin Req
      /\ c' = c /\ callback' = callback /\ PPCMSG' = PPCMSG /\ ios' = ios
      /\ ARMMSG' = ARMMSG /\ ackFlag' = ackFlag /\ ready' = ready
  BY IPCAssumption DEF CallerReturns, hardware
<1>2. /\ RingInv(c)' /\ Pending' = Pending /\ Queue' = Queue
  BY <1>1, RecordKept
<1>3. RestTypeOK'
  BY <1>1 DEF RestTypeOK
<1>4. /\ RelaunchOpen' = RelaunchOpen /\ Relaunching' = Relaunching
      /\ MailboxInv' /\ CreditExact'
  BY <1>1 DEF RelaunchOpen, Relaunching, MailboxInv, CreditExact
<1>5. Issued' = Issued
  BY <1>1, <1>4 DEF Issued
<1>6. /\ Done' = Done \ {r} /\ r \in Done
      /\ Allocated' = Allocated \ {r}
  BY <1>1 DEF Done, Allocated, RestTypeOK
<1>7. PlaceInv'
  BY <1>1, <1>2, <1>5, <1>6 DEF PlaceInv
<1>8. Lost' = Lost
  BY <1>2, <1>5, <1>6 DEF Lost, PlaceInv, Allocated
<1>9. Service!Release(r)
  BY <1>2, <1>5, <1>6, <1>8 DEF Service!Release, Queue
<1> QED
  BY <1>2, <1>3, <1>4, <1>7, <1>9 DEF Service!Next

\* A callback returns.
LEMMA CallbackReturnsStep ==
  ASSUME IPCInv, CallbackReturns
  PROVE  IPCInv' /\ Service!Next
<1> USE DEF IPCInv
<1>1. /\ callback \in Req /\ callback # NULL /\ callback' = NULL
      /\ use' = [use EXCEPT ![callback] = "free"] /\ NULL \notin Req
      /\ ready' = TRUE /\ ARMMSG = NULL
      /\ c' = c /\ woken' = woken /\ PPCMSG' = PPCMSG /\ ios' = ios
      /\ ARMMSG' = ARMMSG /\ ackFlag' = ackFlag
  BY IPCAssumption DEF CallbackReturns, RestTypeOK, MailboxInv
<1>2. /\ RingInv(c)' /\ Pending' = Pending /\ Queue' = Queue
  BY <1>1, RecordKept
<1>3. RestTypeOK'
  BY <1>1 DEF RestTypeOK
<1>4. /\ RelaunchOpen' = RelaunchOpen /\ Relaunching' = Relaunching
      /\ MailboxInv' /\ CreditExact'
  BY <1>1 DEF RelaunchOpen, Relaunching, MailboxInv, CreditExact
<1>5. Issued' = Issued
  BY <1>1, <1>4 DEF Issued
<1>6. /\ Done' = Done \ {callback} /\ callback \in Done
      /\ Allocated' = Allocated \ {callback}
  BY <1>1 DEF Done, Allocated, RestTypeOK, PlaceInv
<1>7. PlaceInv'
  BY <1>1, <1>2, <1>5, <1>6 DEF PlaceInv, RestTypeOK
<1>8. Lost' = Lost
  BY <1>2, <1>5, <1>6 DEF Lost, PlaceInv, Allocated
<1>9. Service!Release(callback)
  BY <1>2, <1>5, <1>6, <1>8 DEF Service!Release, Queue
<1> QED
  BY <1>1, <1>2, <1>3, <1>4, <1>7, <1>9 DEF Service!Next

-----------------------------------------------------------------------------
(* The interrupt handler. *)

\* The ring of a record whose other fields were changed.
LEMMA RingFieldsKept ==
  ASSUME NEW s, RingInv(s), NEW t \in Client,
         t.queue = s.queue, t.front = s.front, t.back = s.back,
         t.sent = s.sent, t.queued = s.queued
  PROVE  RingInv(t) /\ Accepted(t) = Accepted(s)
<1>1. Count(t) = Count(s)
  BY DEF Count
<1>2. Accepted(t) = Accepted(s)
  BY <1>1 DEF Accepted
<1> QED
  BY <1>1, <1>2 DEF RingInv

\* A ring that holds the same requests, as IPCClient says it.
LEMMA QueueKept ==
  ASSUME RingInv(c), RingInv(c)', Accepted(c)' = Accepted(c)
  PROVE  Pending' = Pending /\ Queue' = Queue
<1>1. Pending = Members(Accepted(c)) /\ Queue = Accepted(c)
  BY RingMeaning DEF RingMeans, Queue
<1>2. Pending' = Members(Accepted(c)') /\ Queue' = Accepted(c)'
  BY RingMeaningNext DEF RingMeans, Queue
<1> QED
  BY <1>1, <1>2

\* The reply handler completes the request that the IOS answered.
LEMMA IpcReplyHandlerStep ==
  ASSUME IPCInv, IpcReplyHandler
  PROVE  IPCInv' /\ Service!Next
<1> USE DEF IPCInv
<1> DEFINE r == ARMMSG
           failed == c.relnchFl /\ c.relnchRpc = r
<1>1. /\ r \in Req /\ r # NULL /\ callback = NULL /\ NULL \notin Req
      /\ c' = RelaunchFailed(c, r) /\ ARMMSG' = NULL
      /\ use' = use /\ PPCMSG' = PPCMSG /\ ackFlag' = ackFlag /\ ios' = ios
      /\ ~ready
      /\ \/ use[r] = "async" /\ callback' = r /\ woken' = woken
                             /\ ready' = ready
         \/ callback' = NULL /\ woken' = woken \cup {r} /\ ready' = TRUE
  BY IPCAssumption DEF IpcReplyHandler, RestTypeOK, MailboxInv
<1>2. failed => Relaunching /\ c.mailboxAck < 1
  BY DEF Relaunching, CreditExact
<1>3. /\ c' \in Client
      /\ c'.queue = c.queue /\ c'.front = c.front /\ c'.back = c.back
      /\ c'.sent = c.sent /\ c'.queued = c.queued /\ c'.reboot = c.reboot
      /\ c'.relnchRpc = c.relnchRpc
      /\ c'.relnchFl = (c.relnchFl /\ ~failed)
      /\ failed => c'.mailboxAck = c.mailboxAck + 1
      /\ ~failed => c'.mailboxAck = c.mailboxAck
  <2>1. c \in Client /\ c.mailboxAck + 1 \in Int /\ c.relnchFl \in BOOLEAN
    BY ClientFields DEF RingInv
  <2>2. CASE failed
    <3>1. c' = [c EXCEPT !.relnchFl = FALSE, !.mailboxAck = c.mailboxAck + 1]
      BY <1>1, <1>2, <2>2 DEF RelaunchFailed
    <3> QED
      BY <2>1, <2>2, <3>1 DEF Client
  <2>3. CASE ~failed
    BY <1>1, <2>1, <2>3 DEF RelaunchFailed
  <2> QED
    BY <2>2, <2>3
<1> HIDE DEF failed
<1>4. RingInv(c)' /\ Accepted(c)' = Accepted(c)
  <2>1. RingInv(c') /\ Accepted(c') = Accepted(c)
    BY <1>3, RingFieldsKept
  <2> QED
    BY <2>1
<1>5. Pending' = Pending /\ Queue' = Queue
  BY <1>4, QueueKept
<1>6. RestTypeOK'
  BY <1>1 DEF RestTypeOK
<1>7. RelaunchOpen' = RelaunchOpen \ {r}
  BY <1>3 DEF RelaunchOpen, failed
<1>8. Issued' = Issued \ {r} /\ r \in Issued
  BY <1>1, <1>7 DEF Issued, PlaceInv
<1>9. Done' = Done \cup {r} /\ Allocated' = Allocated
  BY <1>1 DEF Done, Allocated
<1>10. Lost' = Lost
  BY <1>1, <1>5, <1>8, <1>9 DEF Lost
<1>11. PlaceInv'
  BY <1>1, <1>5, <1>8, <1>9 DEF PlaceInv, RestTypeOK, Done
<1>12. Relaunching' = (Relaunching /\ ~failed)
  BY <1>1, <1>3 DEF Relaunching, failed, MailboxInv
<1>13. MailboxInv'
  <2>1. NULL \notin c.reboot
    BY <1>1, ClientFields DEF RingInv
  <2>2. (ios \cup {PPCMSG, ARMMSG})' \cap c'.reboot \subseteq RelaunchOpen'
    BY <1>1, <1>3, <1>7, <2>1 DEF MailboxInv, PlaceInv
  <2>3. /\ ready' => ARMMSG' = NULL /\ callback' = NULL
        /\ callback' # NULL => ARMMSG' = NULL
    BY <1>1
  <2>4. c'.relnchFl /\ ~Relaunching' => ackFlag' /\ ios' = {} /\ ARMMSG' = NULL
    BY <1>1, <1>3, <1>12 DEF MailboxInv
  <2> QED
    BY <1>1, <1>3, <2>2, <2>3, <2>4 DEF MailboxInv
<1>14. CreditExact'
  <2>1. CASE failed
    BY <1>1, <1>2, <1>3, <1>12, <2>1 DEF CreditExact, Relaunching
  <2>2. CASE ~failed
    BY <1>1, <1>3, <1>12, <2>2 DEF CreditExact, Relaunching
  <2> QED
    BY <2>1, <2>2
<1>15. Service!Complete(r)
  BY <1>5, <1>8, <1>9, <1>10 DEF Service!Complete, Service!Issue, Queue
<1> QED
  BY <1>1, <1>4, <1>6, <1>11, <1>13, <1>14, <1>15 DEF Service!Next

\* What a step that may send the next of the requests in s does to the queue.
LEMMA QueueOutcome ==
  ASSUME NEW s, RingInv(s), RingInv(c)', Sends(s) \/ SendsNothing(s)
  PROVE  /\ SendsNothing(s) => /\ Queue' = Accepted(s)
                               /\ Pending' = Members(Accepted(s))
         /\ Sends(s) => /\ Accepted(s) # <<>>
                        /\ Queue' = Tail(Accepted(s))
                        /\ PPCMSG' = Head(Accepted(s))
                        /\ PPCMSG' \in Members(Accepted(s))
                        /\ Pending' = Members(Accepted(s)) \ {PPCMSG'}
<1>1. Pending' = Members(Accepted(c)') /\ Queue' = Accepted(c)'
  BY RingMeaningNext DEF RingMeans, Queue
<1> QED
  BY <1>1 DEF Sends, SendsNothing

\* The counters have not wrapped around.
NoWrap ==
    /\ MaxQueued < Width
    /\ c.sent <= c.queued /\ c.queued <= MaxQueued

\* A handler or a call that ends in SendNext leaves the client with no credit
\* or no request, unless the counters wrap around.
LEMMA SendNextNeverStalls ==
  ASSUME NEW s, RingInv(s), RingInv(c)', Sends(s) \/ SendsNothing(s),
         MaxQueued < Width, s.sent <= s.queued, s.queued <= MaxQueued,
         s.mailboxAck <= 1
  PROVE  NoWrap' /\ ~Stalled'
<1>1. /\ s.sent \in Int /\ s.queued \in Int /\ s.mailboxAck \in Int
      /\ MaxQueued \in Int /\ Width \in Int
  BY ClientFields, IPCAssumption DEF RingInv
<1>2. NoWrap'
  BY <1>1 DEF NoWrap, Sends, SendsNothing
<1>3. CASE Sends(s)
  <2>1. c'.mailboxAck <= 0
    BY <1>1, <1>3 DEF Sends
  <2>2. c'.mailboxAck \in Int
    BY ClientFields DEF RingInv
  <2> QED
    BY <1>2, <2>1, <2>2 DEF Stalled
<1>4. CASE SendsNothing(s) /\ s.mailboxAck <= 0
  BY <1>1, <1>2, <1>4 DEF SendsNothing, Stalled
<1>5. CASE SendsNothing(s) /\ s.queued <= s.sent
  <2>1. Waiting' = Count(c') /\ c' = s
    BY <1>5, RingMeaningNext DEF RingMeans, SendsNothing
  <2>2. Count(c') = 0
    BY <1>1, <1>5, <2>1 DEF Count
  <2> QED
    BY <1>2, <2>1, <2>2 DEF Stalled
<1> QED
  BY <1>3, <1>4, <1>5 DEF SendsNothing

\* The acknowledge handler ends a relaunch that succeeded, and sends the next
\* request.
LEMMA IpcAckHandlerStep ==
  ASSUME IPCInv, IpcAckHandler
  PROVE  /\ IPCInv' /\ Service!Next /\ Handshake
         /\ NoWrap => NoWrap' /\ ~Stalled'
<1> USE DEF IPCInv
<1> DEFINE ended == c.relnchFl /\ ~Relaunching
           acked == [c EXCEPT !.mailboxAck = IF @ < 1 THEN @ + 1 ELSE @]
           s == [acked EXCEPT !.relnchFl = @ /\ ~(acked.mailboxAck > 0
                                                   /\ acked.relnchFl)]
           closed == IF ended THEN {c.relnchRpc} ELSE {}
<1>1. /\ ackFlag /\ callback = NULL /\ PPCMSG = NULL /\ NULL \notin Req
      /\ ackFlag' = FALSE /\ use' = use /\ callback' = callback
      /\ ios' = ios /\ ARMMSG' = ARMMSG
  BY IPCAssumption DEF IpcAckHandler, MailboxInv
<1>2. c.mailboxAck = IF Relaunching THEN -1 ELSE 0
  BY <1>1 DEF CreditExact, Relaunching
<1>3. /\ c \in Client /\ c.relnchFl \in BOOLEAN /\ c.reboot \subseteq Req
      /\ NULL \notin c.reboot
  BY <1>1, ClientFields DEF RingInv
<1>4. /\ acked \in Client
      /\ acked = [c EXCEPT !.mailboxAck = IF Relaunching THEN 0 ELSE 1]
      /\ acked.mailboxAck = (IF Relaunching THEN 0 ELSE 1)
      /\ acked.relnchFl = c.relnchFl
  BY <1>2, <1>3 DEF Client
<1>5. (acked.mailboxAck > 0 /\ acked.relnchFl) = ended
  BY <1>3, <1>4
<1>6. SendNext(s) /\ woken' = woken \cup closed /\ ready' = (ended \/ ready)
  BY <1>1, <1>5 DEF IpcAckHandler
<1>7. /\ s \in Client
      /\ s.queue = c.queue /\ s.front = c.front /\ s.back = c.back
      /\ s.sent = c.sent /\ s.queued = c.queued /\ s.reboot = c.reboot
      /\ s.relnchRpc = c.relnchRpc
      /\ s.relnchFl = Relaunching
      /\ s.mailboxAck = IF Relaunching THEN 0 ELSE 1
  <2>1. s = [acked EXCEPT !.relnchFl = Relaunching]
    BY <1>3, <1>4, <1>5 DEF Relaunching
  <2>2. Relaunching \in BOOLEAN
    BY <1>3 DEF Relaunching
  <2> HIDE DEF s, acked
  <2>3. /\ s \in Client
        /\ s.queue = acked.queue /\ s.front = acked.front
        /\ s.back = acked.back /\ s.sent = acked.sent
        /\ s.queued = acked.queued /\ s.reboot = acked.reboot
        /\ s.relnchRpc = acked.relnchRpc /\ s.relnchFl = Relaunching
        /\ s.mailboxAck = acked.mailboxAck
    BY <1>4, <2>1, <2>2 DEF Client
  <2>4. /\ acked.queue = c.queue /\ acked.front = c.front
        /\ acked.back = c.back /\ acked.sent = c.sent
        /\ acked.queued = c.queued /\ acked.reboot = c.reboot
        /\ acked.relnchRpc = c.relnchRpc
    BY <1>3, <1>4 DEF Client
  <2> QED
    BY <1>4, <2>3, <2>4
<1> HIDE DEF s, acked
<1>8. RingInv(s) /\ Accepted(s) = Accepted(c)
  BY <1>7, RingFieldsKept
<1>9. RingInv(c)' /\ (Sends(s) \/ SendsNothing(s))
  BY <1>6, <1>8, SendNextOutcome
<1> DEFINE Free == NoWrap => NoWrap' /\ ~Stalled'
<1>10. Free
  <2>1. s.mailboxAck <= 1
    BY <1>7
  <2> QED
    BY <1>7, <1>8, <1>9, <2>1, SendNextNeverStalls DEF NoWrap
<1> HIDE DEF Free
<1>11. Queue = Accepted(s) /\ Pending = Members(Accepted(s))
  BY <1>8, RingMeaning DEF RingMeans, Queue
<1>12. /\ closed \subseteq Issued
       /\ RelaunchOpen = (IF Relaunching THEN {c.relnchRpc} ELSE {}) \cup closed
       /\ Issued = ({ARMMSG} \ {NULL}) \cup ios \cup RelaunchOpen
       /\ closed \cap (({ARMMSG} \ {NULL}) \cup ios) = {}
       /\ c.relnchFl => c.relnchRpc \in Req
       /\ ended => ARMMSG = NULL /\ ios = {}
  BY <1>1, <1>3 DEF Issued, RelaunchOpen, Relaunching, MailboxInv
<1>13. Done' = Done \cup closed /\ Allocated' = Allocated
  BY <1>1, <1>6 DEF Done, Allocated
<1>14. RestTypeOK'
  BY <1>1, <1>6, <1>9, <1>12 DEF RestTypeOK, Sends, SendsNothing
<1>15. Sends(s) => /\ ~Relaunching
                   /\ c'.relnchFl = (PPCMSG' \in c.reboot)
                   /\ PPCMSG' \in c.reboot => c'.relnchRpc = PPCMSG'
                   /\ c'.reboot = c.reboot /\ PPCMSG' # NULL
                   /\ c'.mailboxAck = IF PPCMSG' \in c.reboot THEN -1 ELSE 0
  <2>1. CASE Relaunching
    BY <1>7, <2>1 DEF Sends
  <2>2. CASE ~Relaunching /\ Sends(s)
    <3>1. s.mailboxAck = 1 /\ s.relnchFl = FALSE /\ s.reboot = c.reboot
      BY <1>7, <2>2
    <3>2. /\ c'.reboot = c.reboot /\ PPCMSG' # NULL
          /\ PPCMSG' \in c.reboot => /\ c'.relnchFl /\ c'.relnchRpc = PPCMSG'
                                     /\ c'.mailboxAck = -1
          /\ PPCMSG' \notin c.reboot => /\ c'.relnchFl = FALSE
                                        /\ c'.mailboxAck = 0
      BY <1>1, <2>2, <3>1 DEF Sends
    <3>3. c'.relnchFl \in BOOLEAN
      BY <1>9, ClientFields DEF RingInv
    <3> QED
      BY <2>2, <3>2, <3>3
  <2> QED
    BY <2>1, <2>2
<1>16. SendsNothing(s) => /\ PPCMSG' = NULL /\ c'.relnchFl = Relaunching
                          /\ c'.relnchRpc = c.relnchRpc
                          /\ c'.reboot = c.reboot
                          /\ c'.mailboxAck = IF Relaunching THEN 0 ELSE 1
  BY <1>1, <1>7 DEF SendsNothing
<1>17. CASE Sends(s)
  <2>1. /\ ~Relaunching /\ PPCMSG' \in Pending /\ PPCMSG' \in Req
        /\ Pending' = Pending \ {PPCMSG'}
        /\ Queue # <<>> /\ Queue' = Tail(Queue) /\ PPCMSG' = Head(Queue)
    BY <1>9, <1>8, <1>11, <1>15, <1>17, QueueOutcome DEF Sends
  <2>2. RelaunchOpen' = IF PPCMSG' \in c.reboot THEN {PPCMSG'} ELSE {}
    BY <1>15, <1>17 DEF RelaunchOpen
  <2>3. /\ Issued \ closed = ({ARMMSG} \ {NULL}) \cup ios
        /\ Issued' = (Issued \ closed) \cup {PPCMSG'}
    <3>1. Issued \ closed = ({ARMMSG} \ {NULL}) \cup ios
      BY <1>12, <2>1
    <3>2. Issued' = ({PPCMSG', ARMMSG} \ {NULL}) \cup ios \cup RelaunchOpen'
      BY <1>1 DEF Issued
    <3> QED
      BY <1>15, <1>17, <2>2, <3>1, <3>2
  <2>4. PPCMSG' \notin Issued /\ PPCMSG' \notin Done
    BY <2>1 DEF PlaceInv
  <2>5. Lost' = Lost
    BY <1>12, <1>13, <2>1, <2>3 DEF Lost, Allocated
  <2>6. PlaceInv'
    <3>1. /\ Pending' \cup Issued' \cup Done' \subseteq Allocated'
          /\ Pending' \cap Issued' = {}
          /\ Done' \cap (Pending' \cup Issued') = {}
      BY <1>12, <1>13, <2>1, <2>3, <2>4 DEF PlaceInv
    <3>2. /\ ARMMSG' # NULL => ARMMSG' \notin ios' \cup {PPCMSG'}
          /\ PPCMSG' \notin ios'
      BY <1>1, <1>12, <2>4 DEF PlaceInv
    <3>3. callback' \notin woken'
      BY <1>1, <1>6, <1>12, <1>14 DEF RestTypeOK
    <3> QED
      BY <3>1, <3>2, <3>3 DEF PlaceInv
  <2>7. Relaunching' = (PPCMSG' \in c.reboot)
    <3>1. CASE PPCMSG' \in c.reboot
      BY <1>15, <1>17, <3>1 DEF Relaunching
    <3>2. CASE PPCMSG' \notin c.reboot
      <4>1. ~c'.relnchFl
        BY <1>15, <1>17, <3>2
      <4> QED
        BY <3>2, <4>1 DEF Relaunching
    <3> QED
      BY <3>1, <3>2
  <2>8. MailboxInv'
    <3>1. (ios' \cup {PPCMSG', ARMMSG'}) \cap c'.reboot \subseteq RelaunchOpen'
      <4>1. (({ARMMSG} \ {NULL}) \cup ios) \cap c.reboot = {}
        BY <1>12, <2>1 DEF MailboxInv
      <4> QED
        BY <1>1, <1>3, <1>15, <1>17, <2>2, <4>1
    <3>2. ready' => ARMMSG' = NULL /\ callback' = NULL
      BY <1>1, <1>6, <1>12 DEF MailboxInv
    <3> QED
      BY <1>1, <1>15, <1>17, <2>1, <2>7, <3>1, <3>2 DEF MailboxInv
  <2>9. CreditExact'
    BY <1>15, <1>17, <2>7 DEF CreditExact, Relaunching
  <2>10. Service!Next
    <3>1. Service!Issue(Queue, Issued \ closed)
      BY <2>1, <2>3 DEF Service!Issue, Queue
    <3>2. CASE closed = {}
      BY <1>13, <2>5, <3>1, <3>2 DEF Service!Next, Queue
    <3>3. CASE ended
      <4>1. Service!Complete(c.relnchRpc)
        BY <1>12, <1>13, <2>5, <3>1, <3>3 DEF Service!Complete, Queue
      <4> QED
        BY <1>12, <3>3, <4>1 DEF Service!Next
    <3> QED
      BY <3>2, <3>3
  <2>11. Handshake
    BY <1>1, <1>15, <1>17 DEF Handshake
  <2> QED
    BY <1>9, <1>14, <1>10, <2>6, <2>8, <2>9, <2>10, <2>11 DEF Free
<1>18. CASE SendsNothing(s)
  <2>1. Pending' = Pending /\ Queue' = Queue
    BY <1>8, <1>9, <1>11, <1>18, QueueOutcome
  <2>2. RelaunchOpen' = IF Relaunching THEN {c.relnchRpc} ELSE {}
    BY <1>16, <1>18 DEF RelaunchOpen
  <2>3. Issued' = Issued \ closed
    <3>1. Issued' = ({ARMMSG} \ {NULL}) \cup ios \cup RelaunchOpen'
      BY <1>1, <1>16, <1>18 DEF Issued
    <3>2. CASE Relaunching
      <4>1. closed = {}
        BY <3>2
      <4> QED
        BY <1>12, <2>2, <3>1, <3>2, <4>1
    <3>3. CASE ~Relaunching
      BY <1>12, <2>2, <3>1, <3>3
    <3> QED
      BY <3>2, <3>3
  <2>4. Lost' = Lost
    BY <1>12, <1>13, <2>1, <2>3 DEF Lost, Allocated
  <2>5. PlaceInv'
    <3>1. /\ Pending' \cup Issued' \cup Done' \subseteq Allocated'
          /\ Pending' \cap Issued' = {}
          /\ Done' \cap (Pending' \cup Issued') = {}
      BY <1>12, <1>13, <2>1, <2>3 DEF PlaceInv
    <3>2. /\ ARMMSG' # NULL => ARMMSG' \notin ios' \cup {PPCMSG'}
          /\ PPCMSG' \notin ios'
      BY <1>1, <1>16, <1>18 DEF PlaceInv
    <3>3. callback' \notin woken'
      BY <1>1, <1>6, <1>12, <1>14 DEF RestTypeOK
    <3> QED
      BY <3>1, <3>2, <3>3 DEF PlaceInv
  <2>6. Relaunching' = Relaunching
    BY <1>1, <1>16, <1>18 DEF Relaunching
  <2>7. MailboxInv'
    <3>1. (ios' \cup {PPCMSG', ARMMSG'}) \cap c'.reboot \subseteq RelaunchOpen'
      <4>1. (({ARMMSG} \ {NULL}) \cup ios) \cap c.reboot
              \subseteq IF Relaunching THEN {c.relnchRpc} ELSE {}
        BY <1>12 DEF MailboxInv
      <4> QED
        BY <1>1, <1>3, <1>16, <1>18, <2>2, <4>1
    <3>2. ready' => ARMMSG' = NULL /\ callback' = NULL
      BY <1>1, <1>6, <1>12 DEF MailboxInv
    <3> QED
      BY <1>1, <1>12, <1>16, <1>18, <2>6, <3>1, <3>2 DEF MailboxInv, Relaunching
  <2>8. CreditExact'
    BY <1>1, <1>16, <1>18, <2>6 DEF CreditExact, Relaunching
  <2>9. Service!Next
    <3>1. Service!Issue(Queue, Issued \ closed)
      BY <2>1, <2>3 DEF Service!Issue, Queue
    <3>2. CASE closed = {}
      BY <1>13, <2>4, <3>1, <3>2 DEF Service!Next, Queue
    <3>3. CASE ended
      <4>1. Service!Complete(c.relnchRpc)
        BY <1>12, <1>13, <2>4, <3>1, <3>3 DEF Service!Complete, Queue
      <4> QED
        BY <1>12, <3>3, <4>1 DEF Service!Next
    <3> QED
      BY <3>2, <3>3
  <2>10. Handshake
    BY <1>16, <1>18 DEF Handshake
  <2> QED
    BY <1>9, <1>14, <1>10, <2>5, <2>7, <2>8, <2>9, <2>10 DEF Free
<1> QED
  BY <1>9, <1>17, <1>18

-----------------------------------------------------------------------------
(* The calls. *)

\* A request finds the ring full, or is accepted and perhaps sent at once.
LEMMA RequestStep ==
  ASSUME IPCInv, NEW r \in Req, NEW how \in {"sync", "async"},
         NEW reboot, reboot = c.reboot \ {r} \/ reboot = c.reboot \cup {r},
         Request(r, how, reboot), ~UNCHANGED vars
  PROVE  /\ IPCInv' /\ Service!Next /\ Handshake
         /\ NoWrap => NoWrap' /\ ~Stalled'
<1> USE DEF IPCInv
<1> DEFINE b == [c EXCEPT !.reboot = reboot]
           s == QueueRequest(b, r)
<1>1. /\ use[r] = "free" /\ ~Full(c) /\ NULL \notin Req
      /\ use' = [use EXCEPT ![r] = how] /\ SendNext(s)
      /\ woken' = woken /\ callback' = callback /\ ackFlag' = ackFlag
      /\ ios' = ios /\ ARMMSG' = ARMMSG /\ ready' = ready
  BY IPCAssumption DEF Request, hardware
<1>2. /\ c \in Client /\ c.relnchFl \in BOOLEAN /\ c.reboot \subseteq Req
      /\ NULL \notin c.reboot
  BY <1>1, ClientFields DEF RingInv
<1>3. reboot \subseteq Req /\ NULL \notin reboot
  BY <1>1, <1>2
<1>4. /\ b \in Client
      /\ b.queue = c.queue /\ b.front = c.front /\ b.back = c.back
      /\ b.sent = c.sent /\ b.queued = c.queued /\ b.reboot = reboot
      /\ b.relnchRpc = c.relnchRpc /\ b.relnchFl = c.relnchFl
      /\ b.mailboxAck = c.mailboxAck
  BY <1>2, <1>3 DEF Client
<1> HIDE DEF b
<1>5. RingInv(b) /\ Accepted(b) = Accepted(c) /\ ~Full(b)
  <2>1. RingInv(b) /\ Accepted(b) = Accepted(c)
    BY <1>4, RingFieldsKept
  <2> QED
    BY <1>1, <1>4, <2>1 DEF Full
<1>6. Queue = Accepted(c) /\ Pending = Members(Accepted(c))
  BY RingMeaning DEF RingMeans, Queue
<1>7. r \notin Allocated /\ r \notin Pending \cup Issued \cup Done \cup Lost
  BY <1>1 DEF PlaceInv, Allocated, Lost
<1>8. /\ r \notin ios /\ r # PPCMSG /\ r # ARMMSG /\ r # callback
      /\ r \notin woken
  BY <1>1, <1>7 DEF Issued, Done
<1>9. /\ RingInv(s) /\ Accepted(s) = Append(Queue, r)
      /\ Members(Accepted(s)) = Pending \cup {r}
  <2>1. RingInv(s) /\ Accepted(s) = Append(Accepted(b), r)
    BY <1>5, <1>6, <1>7, QueueRequestAppends
  <2>2. Accepted(c) \in Seq(Req)
    BY DEF RingInv
  <2> QED
    BY <1>5, <1>6, <2>1, <2>2, MembersAppend
<1>10. /\ s.reboot = reboot /\ s.relnchRpc = c.relnchRpc
       /\ s.relnchFl = c.relnchFl /\ s.mailboxAck = c.mailboxAck
       /\ s.sent = c.sent
       /\ s.queued = IF c.queued + 1 < Width THEN c.queued + 1 ELSE 0
  BY <1>4, QueueRequestFields
<1> HIDE DEF s
<1>11. RingInv(c)' /\ (Sends(s) \/ SendsNothing(s))
  BY <1>1, <1>9, SendNextOutcome
<1> DEFINE Free == NoWrap => NoWrap' /\ ~Stalled'
<1>12. Free
  <2> SUFFICES ASSUME NoWrap
               PROVE  NoWrap' /\ ~Stalled'
    OBVIOUS
  <2>1. c.queued < MaxQueued
    BY DEF Request
  <2>2. /\ c.sent \in Int /\ c.queued \in Int
        /\ MaxQueued \in Int /\ Width \in Int
    BY <1>2, ClientFields, IPCAssumption
  <2>3. s.sent <= s.queued /\ s.queued <= MaxQueued /\ MaxQueued < Width
    BY <1>10, <2>1, <2>2 DEF NoWrap
  <2>4. s.mailboxAck <= 1
    BY <1>10 DEF CreditExact
  <2> QED
    BY <1>9, <1>11, <2>3, <2>4, SendNextNeverStalls
<1> HIDE DEF Free
<1>13. Done' = Done /\ Allocated' = Allocated \cup {r}
  BY <1>1 DEF Done, Allocated, RestTypeOK
<1>14. RestTypeOK'
  BY <1>1, <1>11 DEF RestTypeOK, Sends, SendsNothing
<1>15. Len(Queue) < Capacity
  <2>1. Len(Queue) = Count(c) /\ c.sent \in Int /\ c.queued \in Int
    BY <1>2, <1>6, AcceptedProperties, ClientFields
  <2> QED
    BY <1>1, <2>1, Sizes DEF Full, Count
<1>16. r \in Req \ ({Queue[i] : i \in DOMAIN Queue}
                       \cup Issued \cup Done \cup Lost)
  BY <1>6, <1>7 DEF Members
<1>17. (ios \cup {PPCMSG, ARMMSG}) \cap reboot
         \subseteq (ios \cup {PPCMSG, ARMMSG}) \cap c.reboot
  BY <1>8
<1>18. CASE Sends(s)
  <2>1. /\ PPCMSG' \in Pending \cup {r} /\ PPCMSG' \in Req
        /\ PPCMSG' # NULL
        /\ Pending' = (Pending \cup {r}) \ {PPCMSG'}
        /\ Append(Queue, r) # <<>> /\ Queue' = Tail(Append(Queue, r))
        /\ PPCMSG' = Head(Append(Queue, r))
    BY <1>1, <1>9, <1>11, <1>18, QueueOutcome DEF Sends
  <2>2. /\ c.mailboxAck = 1 /\ PPCMSG = NULL /\ ~ackFlag /\ ~Relaunching
        /\ ~c.relnchFl
    <3>1. c.mailboxAck > 0
      BY <1>10, <1>18 DEF Sends
    <3>2. c.mailboxAck = 1 /\ PPCMSG = NULL /\ ~ackFlag /\ ~Relaunching
      BY <3>1 DEF CreditExact, Relaunching
    <3> QED
      BY <3>2 DEF MailboxInv
  <2>3. /\ c'.reboot = reboot
        /\ PPCMSG' \in reboot => /\ c'.relnchFl /\ c'.relnchRpc = PPCMSG'
                                 /\ c'.mailboxAck = -1
        /\ PPCMSG' \notin reboot => ~c'.relnchFl /\ c'.mailboxAck = 0
    BY <1>10, <1>18, <2>2 DEF Sends
  <2>4. RelaunchOpen' = IF PPCMSG' \in reboot THEN {PPCMSG'} ELSE {}
    BY <2>3 DEF RelaunchOpen
  <2>5. /\ Issued = ({ARMMSG} \ {NULL}) \cup ios
        /\ Issued' = Issued \cup {PPCMSG'}
    <3>1. Issued = ({ARMMSG} \ {NULL}) \cup ios
      BY <2>2 DEF Issued, RelaunchOpen
    <3>2. Issued' = ({PPCMSG', ARMMSG} \ {NULL}) \cup ios \cup RelaunchOpen'
      BY <1>1 DEF Issued
    <3> QED
      BY <2>1, <2>4, <3>1, <3>2
  <2>6. PPCMSG' \notin Issued /\ PPCMSG' \notin Done
    BY <1>7, <2>1 DEF PlaceInv
  <2>7. Lost' = Lost
    BY <1>7, <1>13, <2>1, <2>5 DEF Lost, Allocated
  <2>8. PlaceInv'
    <3>1. /\ Pending' \cup Issued' \cup Done' \subseteq Allocated'
          /\ Pending' \cap Issued' = {}
          /\ Done' \cap (Pending' \cup Issued') = {}
      BY <1>7, <1>13, <2>1, <2>5, <2>6 DEF PlaceInv
    <3>2. /\ ARMMSG' # NULL => ARMMSG' \notin ios' \cup {PPCMSG'}
          /\ PPCMSG' \notin ios' /\ callback' \notin woken'
      BY <1>1, <2>5, <2>6 DEF PlaceInv
    <3> QED
      BY <3>1, <3>2 DEF PlaceInv
  <2>9. Relaunching' = (PPCMSG' \in reboot)
    <3>1. CASE PPCMSG' \in reboot
      BY <2>3, <3>1 DEF Relaunching
    <3>2. CASE PPCMSG' \notin reboot
      BY <2>3, <3>2 DEF Relaunching
    <3> QED
      BY <3>1, <3>2
  <2>10. MailboxInv'
    <3>1. (ios' \cup {PPCMSG', ARMMSG'}) \cap c'.reboot \subseteq RelaunchOpen'
      <4>1. (ios \cup {PPCMSG, ARMMSG}) \cap c.reboot = {}
        BY <2>2 DEF MailboxInv, RelaunchOpen
      <4> QED
        BY <1>1, <1>17, <2>3, <2>4, <4>1
    <3> QED
      BY <1>1, <2>1, <2>2, <2>3, <2>9, <3>1 DEF MailboxInv
  <2>11. CreditExact'
    BY <2>1, <2>3, <2>9 DEF CreditExact, Relaunching
  <2>12. Service!Accept(r)
    BY <1>13, <1>15, <1>16, <2>1, <2>5, <2>7
       DEF Service!Accept, Service!Issue, Service!Idle, Queue
  <2>13. Handshake
    BY <2>2, <2>3 DEF Handshake
  <2> QED
    BY <1>11, <1>14, <1>12, <2>8, <2>10, <2>11, <2>12, <2>13
       DEF Service!Next, Free
<1>19. CASE SendsNothing(s)
  <2>1. Pending' = Pending \cup {r} /\ Queue' = Append(Queue, r)
    BY <1>9, <1>11, <1>19, QueueOutcome
  <2>2. /\ c'.reboot = reboot /\ c'.relnchFl = c.relnchFl
        /\ c'.relnchRpc = c.relnchRpc /\ c'.mailboxAck = c.mailboxAck
        /\ PPCMSG' = PPCMSG
    BY <1>10, <1>19 DEF SendsNothing
  <2>3. RelaunchOpen' = RelaunchOpen /\ Relaunching' = Relaunching
    BY <1>1, <2>2 DEF RelaunchOpen, Relaunching
  <2>4. Issued' = Issued
    BY <1>1, <2>2, <2>3 DEF Issued
  <2>5. Lost' = Lost
    BY <1>7, <1>13, <2>1, <2>4 DEF Lost, Allocated
  <2>6. PlaceInv'
    BY <1>1, <1>7, <1>13, <2>1, <2>2, <2>4 DEF PlaceInv
  <2>7. MailboxInv'
    BY <1>1, <1>17, <2>2, <2>3 DEF MailboxInv
  <2>8. CreditExact'
    BY <1>1, <2>2, <2>3 DEF CreditExact, Relaunching
  <2>9. Service!Accept(r)
    BY <1>13, <1>15, <1>16, <2>1, <2>4, <2>5
       DEF Service!Accept, Service!Issue, Service!Idle, Queue
  <2>10. Handshake
    BY <2>2 DEF Handshake
  <2> QED
    BY <1>11, <1>14, <1>12, <2>6, <2>7, <2>8, <2>9, <2>10
       DEF Service!Next, Free
<1> QED
  BY <1>11, <1>18, <1>19

-----------------------------------------------------------------------------
(* The theorems. *)

\* The client begins in order, with no request.
LEMMA InitInOrder == Init => IPCInv /\ Service!Init
<1> SUFFICES ASSUME Init
             PROVE  IPCInv /\ Service!Init
  OBVIOUS
<1> USE Sizes
<1>1. /\ c.queue = [i \in 0 .. Capacity - 1 |-> NULL]
      /\ c.front = 0 /\ c.back = 0 /\ c.sent = 0 /\ c.queued = 0
      /\ c.mailboxAck = 1 /\ c.relnchFl = FALSE /\ c.relnchRpc = NULL
      /\ c.reboot = {} /\ c \in Client
  BY DEF Init, Client
<1>2. /\ use = [r \in Req |-> "free"] /\ woken = {} /\ callback = NULL
      /\ PPCMSG = NULL /\ ackFlag = FALSE
      /\ ios = {} /\ ARMMSG = NULL /\ ready = TRUE
  BY DEF Init
<1>3. Count(c) = 0
  BY <1>1 DEF Count
<1>4. Accepted(c) = <<>>
  BY <1>3 DEF Accepted
<1>5. RingInv(c)
  BY <1>1, <1>3, <1>4 DEF RingInv, Place
<1>6. Queue = <<>> /\ Pending = {}
  BY <1>4, <1>5, RingMeaning DEF RingMeans, Queue, Members
<1>7. RelaunchOpen = {} /\ Issued = {} /\ Done = {} /\ Allocated = {}
  BY <1>1, <1>2 DEF RelaunchOpen, Issued, Done, Allocated
<1>8. Lost = {}
  BY <1>7 DEF Lost, Allocated
<1>9. RestTypeOK /\ PlaceInv /\ MailboxInv /\ CreditExact
  BY <1>1, <1>2, <1>6, <1>7, IPCAssumption
     DEF RestTypeOK, PlaceInv, MailboxInv, CreditExact, Relaunching
<1> QED
  BY <1>5, <1>6, <1>7, <1>8, <1>9 DEF IPCInv, Service!Init, Queue

\* Every step keeps the client in order, is a step of the IPC service or none,
\* and uses the mailbox as it should.
LEMMA StepInOrder ==
  IPCInv /\ [Next]_vars
    => IPCInv' /\ [Service!Next]_serviceVars /\ Handshake
<1> SUFFICES ASSUME IPCInv, [Next]_vars
             PROVE  IPCInv' /\ [Service!Next]_serviceVars /\ Handshake
  OBVIOUS
<1>1. CASE UNCHANGED vars
  <2>1. /\ c' = c /\ use' = use /\ woken' = woken /\ callback' = callback
        /\ PPCMSG' = PPCMSG /\ ackFlag' = ackFlag /\ ios' = ios
        /\ ARMMSG' = ARMMSG /\ ready' = ready
    BY <1>1 DEF vars
  <2>2. /\ RingInv(c)' /\ Pending' = Pending /\ Queue' = Queue
    BY <2>1, RecordKept DEF IPCInv
  <2>3. /\ RelaunchOpen' = RelaunchOpen /\ Relaunching' = Relaunching
        /\ Allocated' = Allocated /\ Done' = Done
    BY <2>1 DEF RelaunchOpen, Relaunching, Allocated, Done
  <2>4. Issued' = Issued
    BY <2>1, <2>3 DEF Issued
  <2>5. Lost' = Lost
    BY <2>1, <2>2, <2>3, <2>4 DEF Lost
  <2>6. RestTypeOK' /\ PlaceInv' /\ MailboxInv' /\ CreditExact'
    BY <2>1, <2>2, <2>3, <2>4
       DEF IPCInv, RestTypeOK, PlaceInv, MailboxInv, CreditExact
  <2> QED
    BY <2>1, <2>2, <2>3, <2>4, <2>5, <2>6
       DEF IPCInv, serviceVars, Handshake
<1>2. CASE Next /\ ~UNCHANGED vars
  <2>1. ASSUME NEW r \in Req, Async(r) \/ Sync(r) \/ IOS_IoctlvReboot(r)
        PROVE  IPCInv' /\ Service!Next /\ Handshake
    <3>1. CASE Async(r)
      BY <1>2, <3>1, RequestStep DEF Async
    <3>2. CASE Sync(r)
      BY <1>2, <3>2, RequestStep DEF Sync
    <3>3. CASE IOS_IoctlvReboot(r)
      BY <1>2, <3>3, RequestStep DEF IOS_IoctlvReboot
    <3> QED
      BY <2>1, <3>1, <3>2, <3>3
  <2>2. ASSUME NEW r \in Req, CallerReturns(r)
        PROVE  IPCInv' /\ Service!Next /\ Handshake
    BY <2>2, CallerReturnsStep DEF CallerReturns, Handshake
  <2>3. ASSUME NEW r \in Req, IosReplies(r)
        PROVE  IPCInv' /\ UNCHANGED serviceVars /\ Handshake
    BY <2>3, IosRepliesStep DEF IosReplies, Handshake
  <2>4. CASE IpcReplyHandler
    BY <2>4, IpcReplyHandlerStep DEF IpcReplyHandler, Handshake
  <2>5. CASE CallbackReturns
    BY <2>5, CallbackReturnsStep DEF CallbackReturns, Handshake
  <2>6. CASE IpcAckHandler
    BY <2>6, IpcAckHandlerStep
  <2>7. CASE IosTakes
    BY <2>7, IosTakesStep DEF IosTakes, Handshake
  <2>8. CASE IosReloads
    BY <2>8, IosReloadsStep DEF IosReloads, Handshake
  <2> QED
    BY <1>2, <2>1, <2>2, <2>3, <2>4, <2>5, <2>6, <2>7, <2>8 DEF Next
<1> QED
  BY <1>1, <1>2

\* The invariant holds in every state.
LEMMA AlwaysInOrder == Spec => []IPCInv
<1>1. Init => IPCInv
  BY InitInOrder
<1>2. IPCInv /\ [Next]_vars => IPCInv'
  BY StepInOrder
<1> QED
  BY <1>1, <1>2, PTL DEF Spec

\* The credit that __mailboxAck holds is exact in every state, whatever is
\* acknowledged, answered, relaunched or called back in which order: less one
\* while a message is not acknowledged, less one more while a relaunch runs.
THEOREM MailboxCreditIsExact == Spec => []CreditExact
<1>1. IPCInv => CreditExact
  BY DEF IPCInv
<1> QED
  BY <1>1, AlwaysInOrder, PTL

\* No request block is freed, completed or used for another call while it waits
\* in the ring or the IOS may answer into it, and it is in one place at a time,
\* although blocks are allocated again and counters wrap around.
THEOREM RequestsHaveOneOwner == Spec => []RequestsOwned
<1>1. IPCInv => RequestsOwned
  <2> SUFFICES ASSUME IPCInv
               PROVE  RequestsOwned
    OBVIOUS
  <2>1. RingInv(c) /\ c \in Client
    BY DEF IPCInv, RingInv
  <2>2. c.mailboxAck \in {-1, 0, 1}
    BY DEF IPCInv, CreditExact
  <2>3. TypeOK
    BY <2>1, <2>2, ClientFields DEF IPCInv, RestTypeOK, TypeOK
  <2>4. Cardinality(Pending) = Waiting
    BY <2>1, RingMeaning, RingCardinality DEF RingMeans
  <2>5. PlaceInv
    BY DEF IPCInv
  <2>6. /\ Pending \cup Issued \cup Done \subseteq {r \in Req : use[r] # "free"}
        /\ Pending \cap Issued = {} /\ Done \cap (Pending \cup Issued) = {}
        /\ ARMMSG \notin ios \cup {PPCMSG} \/ ARMMSG = NULL
    BY <2>5 DEF PlaceInv, Allocated
  <2> QED
    BY <2>3, <2>4, <2>6 DEF RequestsOwned
<1> QED
  BY <1>1, AlwaysInOrder, PTL

\* A request is written to an empty mailbox only, and never to an IOS that is
\* about to be replaced.
THEOREM MailboxNeverOverwritten == Spec => MailboxHandshake
<1>1. IPCInv /\ [Next]_vars
        => [PPCMSG' \notin {PPCMSG, NULL}
              => /\ PPCMSG = NULL
                 /\ c'.relnchFl => c'.relnchRpc = PPCMSG']_vars
  BY StepInOrder DEF Handshake
<1> QED
  BY <1>1, AlwaysInOrder, PTL DEF Spec, MailboxHandshake

\* For any ring, counters and requests: the client accepts, issues, completes
\* and releases requests as the IPC service does, in order and each once, and
\* loses none but those that a relaunch of the IOS takes with it.
THEOREM ClientImplementsService == Spec => ImplementsIPCService
<1>1. Init => Service!Init
  BY InitInOrder
<1>2. IPCInv /\ [Next]_vars => [Service!Next]_serviceVars
  BY StepInOrder
<1> QED
  BY <1>1, <1>2, AlwaysInOrder, PTL
     DEF Spec, ImplementsIPCService, Service!Spec, Service!vars, serviceVars, Queue

\* The client falls silent only in the reply handler.
LEMMA StallStep ==
  IPCInv /\ NoWrap /\ [Next]_vars
    => /\ NoWrap'
       /\ Stalled' /\ ~Stalled
            => c.relnchFl /\ ARMMSG = c.relnchRpc /\ ~c'.relnchFl
<1> SUFFICES ASSUME IPCInv, NoWrap, [Next]_vars
             PROVE  /\ NoWrap'
                    /\ Stalled' /\ ~Stalled
                         => c.relnchFl /\ ARMMSG = c.relnchRpc /\ ~c'.relnchFl
  OBVIOUS
<1>1. CASE c' = c
  BY <1>1 DEF NoWrap, Stalled, Waiting
<1>2. CASE UNCHANGED vars
  BY <1>1, <1>2 DEF vars
<1>3. ASSUME NEW r \in Req, Async(r) \/ Sync(r) \/ IOS_IoctlvReboot(r),
             ~UNCHANGED vars
      PROVE  NoWrap' /\ ~Stalled'
  <2>1. CASE Async(r)
    BY <1>3, <2>1, RequestStep DEF Async
  <2>2. CASE Sync(r)
    BY <1>3, <2>2, RequestStep DEF Sync
  <2>3. CASE IOS_IoctlvReboot(r)
    BY <1>3, <2>3, RequestStep DEF IOS_IoctlvReboot
  <2> QED
    BY <1>3, <2>1, <2>2, <2>3
<1>4. CASE IpcAckHandler
  BY <1>4, IpcAckHandlerStep
<1>5. CASE IpcReplyHandler
  <2>1. c' = RelaunchFailed(c, ARMMSG)
    BY <1>5 DEF IpcReplyHandler
  <2>2. CASE c.relnchFl /\ c.relnchRpc = ARMMSG
    <3>1. c \in Client
      BY DEF IPCInv, RingInv
    <3>2. /\ c'.relnchFl = FALSE
          /\ c'.sent = c.sent /\ c'.queued = c.queued
      BY <2>1, <2>2, <3>1 DEF RelaunchFailed, Client
    <3> QED
      BY <2>2, <3>2 DEF NoWrap
  <2>3. CASE ~(c.relnchFl /\ c.relnchRpc = ARMMSG)
    BY <1>1, <2>1, <2>3 DEF RelaunchFailed
  <2> QED
    BY <2>2, <2>3
<1>6. ASSUME NEW r \in Req, CallerReturns(r) \/ IosReplies(r)
      PROVE  c' = c
  BY <1>6 DEF CallerReturns, IosReplies
<1>7. CASE CallbackReturns \/ IosTakes \/ IosReloads
  BY <1>1, <1>7 DEF CallbackReturns, IosTakes, IosReloads
<1> QED
  BY <1>1, <1>2, <1>3, <1>4, <1>5, <1>6, <1>7 DEF Next

\* As long as the counters do not wrap around, requests are left waiting with
\* the credit to send them in one case only: the IOS answers a request to
\* reboot with a failure after it acknowledged it.
THEOREM SilentOnlyAfterFailedRelaunch ==
  ASSUME MaxQueued < Width
  PROVE  Spec => StallsOnlyAfterFailedRelaunch
<1>1. Init => NoWrap
  BY IPCAssumption DEF Init, NoWrap
<1>2. IPCInv /\ NoWrap /\ [Next]_vars
        => /\ NoWrap'
           /\ [Stalled' /\ ~Stalled
                 => c.relnchFl /\ ARMMSG = c.relnchRpc /\ ~c'.relnchFl]_vars
  BY StallStep
<1> QED
  BY <1>1, <1>2, AlwaysInOrder, PTL
     DEF Spec, StallsOnlyAfterFailedRelaunch

=============================================================================
