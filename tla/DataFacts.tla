------------------------------ MODULE DataFacts -----------------------------
(***************************************************************************)
(* Facts about the natural numbers and about lists that the proofs of      *)
(* several modules need: the least element of a set, induction over the    *)
(* members of a set, and what the list operations do to a list without     *)
(* duplicates.                                                             *)
(***************************************************************************)
EXTENDS Integers, SequencesExt, SequenceTheorems, WellFoundedInduction, TLAPS

-----------------------------------------------------------------------------
(* Natural numbers. *)

\* A set of natural numbers that is not empty has a least element.
LEMMA LeastElement ==
  ASSUME NEW S \in SUBSET Nat, S # {}
  PROVE  \E m \in S : \A k \in S : m <= k
<1> DEFINE R == {ss \in Nat \X Nat : ss[1] < ss[2]}
<1>1. IsWellFoundedOn(R, Nat)
  BY NatLessThanWellFounded DEF OpToRel
<1> HIDE DEF R
<1>2. PICK m \in S : \A k \in S : ~(<<k, m>> \in R)
  BY <1>1, WFMin
<1>3. \A k \in S : m <= k
  <2> TAKE k \in S
  <2>1. k < m => <<k, m>> \in R
    BY DEF R
  <2> QED
    BY <1>2, <2>1
<1> QED
  BY <1>3

\* A set of numbers up to n that is not empty has a greatest element.
LEMMA GreatestElement ==
  ASSUME NEW n \in Nat, NEW S \in SUBSET (1 .. n), S # {}
  PROVE  \E m \in S : \A k \in S : k <= m
<1> DEFINE T == {n - k : k \in S}
<1>1. T \in SUBSET Nat /\ T # {}
  <2>1. \A k \in S : n - k \in Nat
    OBVIOUS
  <2>2. PICK k \in S : TRUE
    OBVIOUS
  <2>3. n - k \in T
    OBVIOUS
  <2>4. T \subseteq Nat
    BY <2>1
  <2> QED
    BY <2>3, <2>4
<1>2. PICK l \in T : \A k \in T : l <= k
  BY <1>1, LeastElement
<1>3. PICK m \in S : l = n - m
  BY <1>2
<1>4. ASSUME NEW k \in S PROVE k <= m
  <2>1. n - k \in T
    OBVIOUS
  <2>2. n - m <= n - k
    BY <1>2, <1>3, <2>1
  <2> QED
    BY <2>2
<1> QED
  BY <1>4

\* A set that holds 0, and with each number the next one, holds them all.
LEMMA Induction ==
  ASSUME NEW S, 0 \in S, \A n \in Nat : n \in S => n + 1 \in S
  PROVE  Nat \subseteq S
<1> SUFFICES ASSUME NEW n \in Nat \ S PROVE FALSE
  OBVIOUS
<1>1. PICK m \in Nat \ S : \A k \in Nat \ S : m <= k
  BY LeastElement
<1>2. m # 0 /\ m - 1 \in Nat
  OBVIOUS
<1>3. m - 1 \in S
  BY <1>1, <1>2
<1> QED
  BY <1>2, <1>3

\* A function of the numbers up to n that stays in a set stays there.
LEMMA Reach ==
  ASSUME NEW S, NEW n \in Nat, NEW f, f[0] \in S,
         \A i \in 1 .. n : f[i - 1] \in S => f[i] \in S
  PROVE  \A i \in 0 .. n : f[i] \in S
<1> DEFINE T == {i \in Nat : i <= n => f[i] \in S}
<1>1. 0 \in T
  OBVIOUS
<1>2. \A i \in Nat : i \in T => i + 1 \in T
  <2> SUFFICES ASSUME NEW i \in Nat, i \in T, i + 1 <= n
               PROVE  f[i + 1] \in S
    OBVIOUS
  <2>1. f[i] \in S
    OBVIOUS
  <2>2. i + 1 \in 1 .. n /\ (i + 1) - 1 = i
    OBVIOUS
  <2> QED
    BY <2>1, <2>2
<1> HIDE DEF T
<1>3. Nat \subseteq T
  BY <1>1, <1>2, Induction
<1> QED
  BY <1>3 DEF T

\* f starts with first and goes on by step, n times.
Iterates(f, first, step, n) ==
    f[0] = first /\ \A i \in 1 .. n : f[i] = step[f[i - 1]]

\* A step can be iterated.
LEMMA Iteration ==
  ASSUME NEW S, NEW first \in S, NEW step \in [S -> S], NEW n \in Nat
  PROVE  \E f \in [0 .. n -> S] : Iterates(f, first, step, n)
<1> DEFINE Runs(f, m) == Iterates(f, first, step, m)
           T == {m \in Nat : \E f \in [0 .. m -> S] : Runs(f, m)}
<1> USE DEF Iterates
<1>1. 0 \in T
  <2> DEFINE f == [i \in 0 .. 0 |-> first]
  <2>1. f \in [0 .. 0 -> S] /\ Runs(f, 0)
    OBVIOUS
  <2> QED
    BY <2>1
<1>2. ASSUME NEW m \in Nat, m \in T PROVE m + 1 \in T
  <2>1. PICK f \in [0 .. m -> S] : Runs(f, m)
    BY <1>2
  <2> DEFINE g == [i \in 0 .. m + 1 |-> IF i <= m THEN f[i] ELSE step[f[m]]]
  <2>2. g \in [0 .. m + 1 -> S]
    OBVIOUS
  <2>3. \A i \in 0 .. m : g[i] = f[i]
    OBVIOUS
  <2>4. g[m + 1] = step[f[m]]
    OBVIOUS
  <2> HIDE DEF g
  <2>5. ASSUME NEW i \in 1 .. m + 1 PROVE g[i] = step[g[i - 1]]
    <3>1. CASE i = m + 1
      <4>1. i - 1 = m /\ m \in 0 .. m
        BY <3>1
      <4> QED
        BY <2>3, <2>4, <3>1, <4>1
    <3>2. CASE i # m + 1
      <4>1. i \in 1 .. m /\ i \in 0 .. m /\ i - 1 \in 0 .. m
        BY <3>2
      <4> QED
        BY <2>1, <2>3, <4>1
    <3> QED
      BY <3>1, <3>2
  <2>6. g[0] = first
    BY <2>1, <2>3
  <2> QED
    BY <2>2, <2>5, <2>6
<1> HIDE DEF T
<1>3. n \in T
  BY <1>1, <1>2, Induction
<1> QED
  BY <1>3 DEF T

-----------------------------------------------------------------------------
(* Lists without duplicates. *)

\* RemoveAt takes one position out of a sequence and keeps the others in order
\* (the unlinking of an element from a linked list).
LEMMA RemoveAtProperties ==
    ASSUME NEW S, NEW s \in Seq(S), NEW i \in 1 .. Len(s)
    PROVE  /\ RemoveAt(s, i) \in Seq(S)
           /\ Len(RemoveAt(s, i)) = Len(s) - 1
           /\ \A j \in 1 .. Len(s) - 1 :
                RemoveAt(s, i)[j] = IF j < i THEN s[j] ELSE s[j + 1]
<1> DEFINE a == SubSeq(s, 1, i - 1)
<1> DEFINE b == SubSeq(s, i + 1, Len(s))
<1>1. Len(s) \in Nat /\ i \in 1 .. Len(s)
  OBVIOUS
<1>2. /\ a \in Seq(S) /\ Len(a) = i - 1
      /\ \A j \in 1 .. i - 1 : a[j] = s[j]
  BY <1>1, SubSeqProperties
<1>3. /\ b \in Seq(S) /\ Len(b) = Len(s) - i
      /\ \A j \in 1 .. Len(s) - i : b[j] = s[j + i]
  BY <1>1, SubSeqProperties
<1>4. RemoveAt(s, i) = a \o b
  BY DEF RemoveAt
<1> HIDE DEF a, b
<1>5. /\ a \o b \in Seq(S)
      /\ Len(a \o b) = Len(a) + Len(b)
      /\ \A j \in 1 .. Len(a) + Len(b) :
           (a \o b)[j] = IF j <= Len(a) THEN a[j] ELSE b[j - Len(a)]
  BY <1>2, <1>3, ConcatProperties
<1>6. Len(a) + Len(b) = Len(s) - 1
  BY <1>1, <1>2, <1>3
<1>7. ASSUME NEW j \in 1 .. Len(s) - 1
      PROVE  (a \o b)[j] = IF j < i THEN s[j] ELSE s[j + 1]
  <2>1. CASE j < i
    BY <2>1, <1>1, <1>2, <1>5, <1>6
  <2>2. CASE ~(j < i)
    <3>1. (a \o b)[j] = b[j - Len(a)]
      BY <2>2, <1>1, <1>2, <1>5, <1>6
    <3>2. j - Len(a) \in 1 .. Len(s) - i /\ (j - Len(a)) + i = j + 1
      BY <2>2, <1>1, <1>2
    <3> QED
      BY <3>1, <3>2, <2>2, <1>3
  <2> QED
    BY <2>1, <2>2
<1> QED
  BY <1>4, <1>5, <1>6, <1>7

\* Without one position, a list without duplicates is one without that element.
LEMMA RemoveAtInjective ==
    ASSUME NEW S, NEW s \in Seq(S), IsInjective(s),
           NEW i \in 1 .. Len(s), NEW x, s[i] = x
    PROVE  /\ RemoveAt(s, i) \in Seq(S)
           /\ IsInjective(RemoveAt(s, i))
           /\ Range(RemoveAt(s, i)) = Range(s) \ {x}
<1> DEFINE r == RemoveAt(s, i)
<1>1. DOMAIN s = 1 .. Len(s) /\ Len(s) \in Nat
  OBVIOUS
<1>2. i \in 1 .. Len(s) /\ s[i] = x
  OBVIOUS
<1>3. r = RemoveAt(s, i)
  OBVIOUS
<1> HIDE DEF r
<1>4. /\ r \in Seq(S) /\ DOMAIN r = 1 .. Len(s) - 1
      /\ \A j \in 1 .. Len(s) - 1 : r[j] = IF j < i THEN s[j] ELSE s[j + 1]
  <2>1. /\ r \in Seq(S) /\ Len(r) = Len(s) - 1
        /\ \A j \in 1 .. Len(s) - 1 : r[j] = IF j < i THEN s[j] ELSE s[j + 1]
    BY <1>2, <1>3, RemoveAtProperties
  <2> QED
    BY <2>1
<1>5. IsInjective(r)
  <2> SUFFICES ASSUME NEW p \in 1 .. Len(s) - 1, NEW q \in 1 .. Len(s) - 1,
                      r[p] = r[q]
               PROVE  p = q
    BY <1>4 DEF IsInjective
  <2> DEFINE f(j) == IF j < i THEN j ELSE j + 1
  <2>1. f(p) \in 1 .. Len(s) /\ f(q) \in 1 .. Len(s) /\ s[f(p)] = s[f(q)]
    BY <1>1, <1>2, <1>4
  <2>2. f(p) = f(q)
    BY <2>1, <1>1 DEF IsInjective
  <2> QED
    BY <2>2, <1>1, <1>2
<1>6. ASSUME NEW y \in Range(r) PROVE y \in Range(s) \ {x}
  <2>1. PICK p \in 1 .. Len(s) - 1 : y = r[p]
    BY <1>4 DEF Range
  <2> DEFINE j == IF p < i THEN p ELSE p + 1
  <2>2. j \in 1 .. Len(s) /\ j # i /\ y = s[j]
    BY <2>1, <1>1, <1>2, <1>4
  <2> HIDE DEF j
  <2>3. y # x
    BY <2>2, <1>1, <1>2 DEF IsInjective
  <2> QED
    BY <2>2, <2>3, <1>1 DEF Range
<1>7. ASSUME NEW y \in Range(s) \ {x} PROVE y \in Range(r)
  <2>1. PICK n \in 1 .. Len(s) : y = s[n]
    BY <1>1 DEF Range
  <2>2. n # i
    BY <2>1, <1>2
  <2> DEFINE j == IF n < i THEN n ELSE n - 1
  <2>3. j \in 1 .. Len(s) - 1 /\ r[j] = y
    BY <2>1, <2>2, <1>1, <1>2, <1>4
  <2> QED
    BY <2>3, <1>4 DEF Range
<1>8. Range(r) = Range(s) \ {x}
  BY <1>6, <1>7
<1> QED
  BY <1>4, <1>5, <1>8 DEF r

\* A list without duplicates stays one when a new element is appended
\* (a node linked at the tail).
LEMMA AppendNewProperties ==
    ASSUME NEW S, NEW s \in Seq(S), IsInjective(s), NEW x \in S \ Range(s)
    PROVE  /\ Append(s, x) \in Seq(S)
           /\ IsInjective(Append(s, x))
           /\ Range(Append(s, x)) = Range(s) \cup {x}
<1> DEFINE r == Append(s, x)
<1>1. DOMAIN s = 1 .. Len(s) /\ Len(s) \in Nat
  OBVIOUS
<1>2. /\ r \in Seq(S) /\ DOMAIN r = 1 .. Len(s) + 1
      /\ r[Len(s) + 1] = x
      /\ \A j \in 1 .. Len(s) : r[j] = s[j]
  BY AppendProperties
<1> HIDE DEF r
<1>3. IsInjective(r)
  BY <1>1, <1>2 DEF IsInjective, Range
<1>4. Range(r) = Range(s) \cup {x}
  <2>1. ASSUME NEW y \in Range(r) PROVE y \in Range(s) \cup {x}
    BY <1>1, <1>2 DEF Range
  <2>2. ASSUME NEW y \in Range(s) PROVE y \in Range(r)
    BY <1>1, <1>2 DEF Range
  <2>3. x \in Range(r)
    BY <1>1, <1>2 DEF Range
  <2> QED
    BY <2>1, <2>2, <2>3
<1> QED
  BY <1>2, <1>3, <1>4 DEF r

\* The rest of a list without duplicates is the list without its head
\* (a node unlinked from the head).
LEMMA TailProperties ==
    ASSUME NEW S, NEW s \in Seq(S), IsInjective(s), s # <<>>
    PROVE  /\ Tail(s) \in Seq(S)
           /\ Head(s) \in Range(s)
           /\ IsInjective(Tail(s))
           /\ Range(Tail(s)) = Range(s) \ {Head(s)}
<1> DEFINE r == Tail(s)
<1>1. DOMAIN s = 1 .. Len(s) /\ Len(s) \in Nat \ {0} /\ Head(s) = s[1]
  BY EmptySeq, HeadTailProperties
<1>2. /\ r \in Seq(S) /\ DOMAIN r = 1 .. Len(s) - 1
      /\ \A j \in 1 .. Len(s) - 1 : r[j] = s[j + 1]
  BY <1>1, HeadTailProperties
<1> HIDE DEF r
<1>3. IsInjective(r)
  <2> SUFFICES ASSUME NEW p \in 1 .. Len(s) - 1, NEW q \in 1 .. Len(s) - 1,
                      r[p] = r[q]
               PROVE  p = q
    BY <1>2 DEF IsInjective
  <2>1. p + 1 \in 1 .. Len(s) /\ q + 1 \in 1 .. Len(s) /\ s[p + 1] = s[q + 1]
    BY <1>1, <1>2
  <2>2. p + 1 = q + 1
    BY <2>1, <1>1 DEF IsInjective
  <2> QED
    BY <2>2
<1>4. Range(r) = Range(s) \ {s[1]}
  <2>1. ASSUME NEW y \in Range(r) PROVE y \in Range(s) \ {s[1]}
    <3>1. PICK p \in 1 .. Len(s) - 1 : y = s[p + 1]
      BY <1>2 DEF Range
    <3> QED
      BY <3>1, <1>1 DEF Range, IsInjective
  <2>2. ASSUME NEW y \in Range(s) \ {s[1]} PROVE y \in Range(r)
    <3>1. PICK n \in 1 .. Len(s) : y = s[n]
      BY <1>1 DEF Range
    <3>2. n - 1 \in 1 .. Len(s) - 1 /\ (n - 1) + 1 = n
      BY <3>1, <1>1
    <3> QED
      BY <3>1, <3>2, <1>2 DEF Range
  <2> QED
    BY <2>1, <2>2
<1>5. Head(s) \in Range(s)
  BY <1>1 DEF Range
<1> QED
  BY <1>1, <1>2, <1>3, <1>4, <1>5 DEF r

\* RemoveFirst takes an element out of a list without duplicates, or leaves a
\* list in which it is not.
LEMMA RemoveFirstProperties ==
    ASSUME NEW S, NEW s \in Seq(S), IsInjective(s), NEW x
    PROVE  /\ RemoveFirst(s, x) \in Seq(S)
           /\ IsInjective(RemoveFirst(s, x))
           /\ Range(RemoveFirst(s, x)) = Range(s) \ {x}
           /\ Len(RemoveFirst(s, x))
                = IF x \in Range(s) THEN Len(s) - 1 ELSE Len(s)
<1>1. DOMAIN s = 1 .. Len(s) /\ Len(s) \in Nat
  OBVIOUS
<1>2. CASE x \in Range(s)
  <2> DEFINE I == {j \in 1 .. Len(s) : s[j] = x}
             i == SelectInSeq(s, LAMBDA v : v = x)
  <2>1. I # {} /\ I \in SUBSET Nat
    BY <1>1, <1>2 DEF Range
  <2>2. i = Min(I)
    BY <2>1 DEF SelectInSeq
  <2>3. \E m \in I : \A k \in I : m <= k
    BY <2>1, LeastElement
  <2>4. i \in I
    BY <2>2, <2>3 DEF Min
  <2>5. RemoveFirst(s, x) = RemoveAt(s, i)
    BY <2>1 DEF RemoveFirst
  <2>6. i \in 1 .. Len(s) /\ s[i] = x
    BY <2>4
  <2> HIDE DEF i
  <2>7. /\ RemoveAt(s, i) \in Seq(S) /\ IsInjective(RemoveAt(s, i))
        /\ Range(RemoveAt(s, i)) = Range(s) \ {x}
    BY <2>6, RemoveAtInjective
  <2>8. Len(RemoveAt(s, i)) = Len(s) - 1
    BY <2>6, RemoveAtProperties
  <2> QED
    BY <2>5, <2>7, <2>8, <1>2
<1>3. CASE x \notin Range(s)
  <2>1. RemoveFirst(s, x) = s
    BY <1>1, <1>3 DEF RemoveFirst, Range
  <2> QED
    BY <2>1, <1>3
<1> QED
  BY <1>2, <1>3

\* Two lists without duplicates that share nothing, one after the other.
LEMMA ConcatInjective ==
    ASSUME NEW S, NEW s \in Seq(S), NEW t \in Seq(S),
           IsInjective(s), IsInjective(t), Range(s) \cap Range(t) = {}
    PROVE  /\ s \o t \in Seq(S)
           /\ IsInjective(s \o t)
           /\ Range(s \o t) = Range(s) \cup Range(t)
<1> DEFINE r == s \o t
<1>1. /\ DOMAIN s = 1 .. Len(s) /\ Len(s) \in Nat
      /\ DOMAIN t = 1 .. Len(t) /\ Len(t) \in Nat
  OBVIOUS
<1>2. /\ r \in Seq(S) /\ DOMAIN r = 1 .. Len(s) + Len(t)
      /\ \A i \in 1 .. Len(s) + Len(t) :
           r[i] = IF i <= Len(s) THEN s[i] ELSE t[i - Len(s)]
  <2>1. /\ r \in Seq(S) /\ Len(r) = Len(s) + Len(t)
        /\ \A i \in 1 .. Len(s) + Len(t) :
             r[i] = IF i <= Len(s) THEN s[i] ELSE t[i - Len(s)]
    BY ConcatProperties
  <2> QED
    BY <2>1
<1> HIDE DEF r
<1>3. ASSUME NEW i \in 1 .. Len(s) + Len(t)
      PROVE  \/ i \in 1 .. Len(s) /\ r[i] = s[i] /\ r[i] \in Range(s)
             \/ /\ i - Len(s) \in 1 .. Len(t) /\ r[i] = t[i - Len(s)]
                /\ r[i] \in Range(t)
  <2>1. CASE i <= Len(s)
    <3>1. i \in 1 .. Len(s) /\ r[i] = s[i]
      BY <2>1, <1>1, <1>2
    <3> QED
      BY <3>1, <1>1 DEF Range
  <2>2. CASE ~(i <= Len(s))
    <3>1. i - Len(s) \in 1 .. Len(t) /\ r[i] = t[i - Len(s)]
      BY <2>2, <1>1, <1>2
    <3> QED
      BY <3>1, <1>1 DEF Range
  <2> QED
    BY <2>1, <2>2
<1>4. IsInjective(r)
  <2> SUFFICES ASSUME NEW i \in 1 .. Len(s) + Len(t),
                      NEW j \in 1 .. Len(s) + Len(t), r[i] = r[j]
               PROVE  i = j
    BY <1>2 DEF IsInjective
  <2>1. \/ i \in 1 .. Len(s) /\ j \in 1 .. Len(s) /\ s[i] = s[j]
        \/ /\ i - Len(s) \in 1 .. Len(t) /\ j - Len(s) \in 1 .. Len(t)
           /\ t[i - Len(s)] = t[j - Len(s)]
    BY <1>3
  <2>2. i \in Int /\ j \in Int
    OBVIOUS
  <2>3. CASE i \in 1 .. Len(s) /\ j \in 1 .. Len(s) /\ s[i] = s[j]
    BY <2>3, <1>1 DEF IsInjective
  <2>4. CASE /\ i - Len(s) \in 1 .. Len(t) /\ j - Len(s) \in 1 .. Len(t)
             /\ t[i - Len(s)] = t[j - Len(s)]
    <3>1. i - Len(s) = j - Len(s)
      BY <2>4, <1>1 DEF IsInjective
    <3> QED
      BY <3>1, <2>2, <1>1
  <2> QED
    BY <2>1, <2>3, <2>4
<1>5. Range(r) = Range(s) \cup Range(t)
  <2>1. ASSUME NEW y \in Range(r) PROVE y \in Range(s) \cup Range(t)
    BY <1>2, <1>3 DEF Range
  <2>2. ASSUME NEW y \in Range(s) PROVE y \in Range(r)
    <3>1. PICK i \in 1 .. Len(s) : y = s[i]
      BY <1>1 DEF Range
    <3>2. i \in 1 .. Len(s) + Len(t) /\ r[i] = y
      BY <3>1, <1>1, <1>2
    <3> QED
      BY <3>2, <1>2 DEF Range
  <2>3. ASSUME NEW y \in Range(t) PROVE y \in Range(r)
    <3>1. PICK i \in 1 .. Len(t) : y = t[i]
      BY <1>1 DEF Range
    <3>2. /\ i + Len(s) \in 1 .. Len(s) + Len(t)
          /\ ~(i + Len(s) <= Len(s)) /\ (i + Len(s)) - Len(s) = i
      BY <1>1
    <3>3. r[i + Len(s)] = y
      BY <3>1, <3>2, <1>2
    <3> QED
      BY <3>2, <3>3, <1>2 DEF Range
  <2> QED
    BY <2>1, <2>2, <2>3
<1> QED
  BY <1>2, <1>4, <1>5 DEF r

-----------------------------------------------------------------------------
(* Short lists. *)

\* A list of one element.
LEMMA OneLong ==
  ASSUME NEW S, NEW x \in S
  PROVE  /\ <<x>> \in Seq(S) /\ Len(<<x>>) = 1 /\ <<x>>[1] = x
         /\ Append(<<>>, x) = <<x>> /\ Head(<<x>>) = x /\ Tail(<<x>>) = <<>>
<1>1. <<x>> \in Seq(S) /\ Len(<<x>>) = 1 /\ <<x>>[1] = x /\ Head(<<x>>) = x
  OBVIOUS
<1>2. Tail(<<x>>) = <<>>
  BY <1>1
<1>3. Append(<<>>, x) = <<x>>
  <2>1. <<>> \in Seq(S)
    OBVIOUS
  <2>2. Append(<<>>, x) \in Seq(S) /\ Len(Append(<<>>, x)) = 1 /\ Append(<<>>, x)[1] = x
    BY <2>1
  <2> QED
    BY <1>1, <2>2, SeqEqual
<1> QED
  BY <1>1, <1>2, <1>3

\* A list of two elements.
LEMMA TwoLong ==
  ASSUME NEW S, NEW x \in S, NEW y \in S
  PROVE  /\ <<x, y>> \in Seq(S) /\ Append(<<x>>, y) = <<x, y>>
         /\ Head(<<x, y>>) = x /\ Tail(<<x, y>>) = <<y>>
<1>1. <<x, y>> \in Seq(S) /\ Len(<<x, y>>) = 2 /\ <<x, y>>[1] = x /\ <<x, y>>[2] = y /\ Head(<<x, y>>) = x
  OBVIOUS
<1>2. Tail(<<x, y>>) = <<y>>
  <2>1. Tail(<<x, y>>) \in Seq(S) /\ Len(Tail(<<x, y>>)) = 1 /\ Tail(<<x, y>>)[1] = y
    BY <1>1
  <2>2. <<y>> \in Seq(S) /\ Len(<<y>>) = 1 /\ <<y>>[1] = y
    OBVIOUS
  <2> QED
    BY <2>1, <2>2
<1>3. Append(<<x>>, y) = <<x, y>>
  <2>1. <<x>> \in Seq(S) /\ Len(<<x>>) = 1 /\ <<x>>[1] = x
    OBVIOUS
  <2>2. Append(<<x>>, y) \in Seq(S) /\ Len(Append(<<x>>, y)) = 2 /\ Append(<<x>>, y)[1] = x /\ Append(<<x>>, y)[2] = y
    BY <2>1
  <2>3. \A i \in 1 .. 2 : Append(<<x>>, y)[i] = <<x, y>>[i]
    BY <1>1, <2>2
  <2> QED
    BY <1>1, <2>2, <2>3, SeqEqual
<1> QED
  BY <1>1, <1>2, <1>3

\* Without its head, a list to which something was appended.
LEMMA AppendTail ==
  ASSUME NEW S, NEW l \in Seq(S), NEW x \in S, l # <<>>
  PROVE  /\ Append(l, x) \in Seq(S) /\ Append(l, x) # <<>>
         /\ Head(Append(l, x)) = Head(l)
         /\ Tail(Append(l, x)) = Append(Tail(l), x)
<1>1. Append(l, x) \in Seq(S) /\ Append(l, x) # <<>> /\ Head(Append(l, x)) = Head(l)
  OBVIOUS
<1>0. Len(l) \in Nat
  OBVIOUS
<1>2. Len(l) \in Nat /\ Len(l) >= 1 /\ Tail(l) \in Seq(S) /\ Len(Tail(l)) = Len(l) - 1
  OBVIOUS
<1> DEFINE a == Tail(Append(l, x))
           b == Append(Tail(l), x)
<1>3. a \in Seq(S) /\ Len(a) = Len(l) /\ \A i \in 1 .. Len(l) : a[i] = Append(l, x)[i + 1]
  <2>1. Len(Append(l, x)) = Len(l) + 1
    OBVIOUS
  <2> QED
    BY <1>1, <1>2, <2>1, HeadTailProperties
<1>4. b \in Seq(S) /\ Len(b) = Len(l) /\ \A i \in 1 .. Len(l) : b[i] = IF i = Len(l) THEN x ELSE l[i + 1]
  <2>1. \A i \in 1 .. Len(l) - 1 : Tail(l)[i] = l[i + 1]
    BY <1>2, HeadTailProperties
  <2>2. b \in Seq(S) /\ Len(b) = Len(l) /\ b[Len(l)] = x
    BY <1>2, AppendProperties
  <2>3. \A i \in 1 .. Len(l) - 1 : b[i] = Tail(l)[i]
    BY <1>2, AppendProperties
  <2> HIDE DEF b
  <2>4. ASSUME NEW i \in 1 .. Len(l) PROVE b[i] = IF i = Len(l) THEN x ELSE l[i + 1]
    <3>1. CASE i = Len(l)
      BY <2>2, <3>1
    <3>2. CASE i # Len(l)
      <4>1. i \in 1 .. Len(l) - 1
        BY <1>0, <3>2
      <4> QED
        BY <2>1, <2>3, <3>2, <4>1
    <3> QED
      BY <3>1, <3>2
  <2> QED
    BY <2>2, <2>4
<1>5. \A i \in 1 .. Len(l) : a[i] = b[i]
  <2> SUFFICES ASSUME NEW i \in 1 .. Len(l) PROVE a[i] = b[i]
    OBVIOUS
  <2>1. a[i] = Append(l, x)[i + 1] /\ b[i] = IF i = Len(l) THEN x ELSE l[i + 1]
    BY <1>3, <1>4
  <2>2. Append(l, x)[i + 1] = IF i = Len(l) THEN x ELSE l[i + 1]
    <3>1. CASE i = Len(l)
      BY <1>2, <3>1, AppendProperties
    <3>2. CASE i # Len(l)
      <4>1. i + 1 \in 1 .. Len(l)
        BY <1>0, <3>2
      <4> QED
        BY <3>2, <4>1, AppendProperties
    <3> QED
      BY <3>1, <3>2
  <2> QED
    BY <2>1, <2>2
<1> HIDE DEF a, b
<1>6. a = b
  BY <1>3, <1>4, <1>5, SeqEqual
<1> QED
  BY <1>1, <1>6 DEF a, b
=============================================================================
