----------------------------- MODULE DataLemmas -----------------------------
(***************************************************************************)
(* What InsertAt, RemoveAt and Tail do to the length and the entries of a  *)
(* sequence, the facts every proof about a linked list of jobs rests on;   *)
(* quotients and remainders, which addresses are computed with; and        *)
(* induction over the numbers up to n, with which the value of a recursive *)
(* function is found (UpTo, Iterates).                                     *)
(***************************************************************************)
EXTENDS Integers, Sequences, SequencesExt, FiniteSets, SequenceTheorems,
        FiniteSetTheorems, WellFoundedInduction, TLAPS

(* Every non-empty set of natural numbers has a least element: why a       *)
(* search for the first position finds one.                                *)
LEMMA LeastNat ==
  ASSUME NEW S \in SUBSET Nat, S # {}
  PROVE  \E m \in S : \A k \in S : m <= k
<1> DEFINE R == OpToRel(<, Nat)
<1>1. IsWellFoundedOn(R, Nat)
  BY NatLessThanWellFounded
<1>2. \A x, y \in Nat : x < y => <<x, y>> \in R
  BY DEF OpToRel
<1> HIDE DEF R
<1>3. \E x \in S : \A y \in S : ~ (<<y, x>> \in R)
  BY <1>1, WFMin
<1>4. PICK m \in S : \A y \in S : ~ (<<y, m>> \in R)
  BY <1>3
<1>5. ASSUME NEW k \in S PROVE m <= k
  <2>1. ~ (<<k, m>> \in R)
    BY <1>4
  <2>2. k < m => <<k, m>> \in R
    BY <1>2
  <2> QED BY <2>1, <2>2
<1> QED BY <1>5

(* s2 is s with e put in front of position p.                              *)
Inserted(s2, s, p, e) ==
  /\ Len(s2) = Len(s) + 1
  /\ \A j \in 1..(Len(s) + 1) :
       s2[j] = IF j < p THEN s[j] ELSE IF j = p THEN e ELSE s[j - 1]

(* s2 is s without its entry at position p.                                *)
Removed(s2, s, p) ==
  /\ Len(s2) = Len(s) - 1
  /\ \A j \in 1..(Len(s) - 1) : s2[j] = IF j < p THEN s[j] ELSE s[j + 1]

(* InsertAt shifts the entries from position p on by one.                  *)
LEMMA InsertAtProps ==
  ASSUME NEW S, NEW s \in Seq(S), NEW p \in 1..(Len(s) + 1), NEW e \in S
  PROVE  /\ InsertAt(s, p, e) \in Seq(S)
         /\ Inserted(InsertAt(s, p, e), s, p, e)
<1> DEFINE a == SubSeq(s, 1, p - 1)
           b == SubSeq(s, p, Len(s))
           c == a \o <<e>>
<1>1. /\ a \in Seq(S) /\ Len(a) = p - 1
      /\ \A j \in 1..(p - 1) : a[j] = s[j]
  OBVIOUS
<1>2. /\ b \in Seq(S) /\ Len(b) = Len(s) - p + 1
      /\ \A j \in 1..(Len(s) - p + 1) : b[j] = s[p + j - 1]
  OBVIOUS
<1>3. InsertAt(s, p, e) = c \o b
  BY DEF InsertAt
<1> HIDE DEF a, b
<1>4. /\ c \in Seq(S) /\ Len(c) = p
      /\ \A j \in 1..p : c[j] = IF j < p THEN s[j] ELSE e
  BY <1>1
<1> HIDE DEF c
<1>5. /\ c \o b \in Seq(S)
      /\ Len(c \o b) = Len(c) + Len(b)
      /\ \A j \in 1..(Len(c) + Len(b)) :
           (c \o b)[j] = IF j <= Len(c) THEN c[j] ELSE b[j - Len(c)]
  BY <1>2, <1>4, ConcatProperties
<1>6. \A j \in 1..(Len(s) + 1) :
        (c \o b)[j] = IF j < p THEN s[j] ELSE IF j = p THEN e ELSE s[j - 1]
  <2>1. SUFFICES ASSUME NEW j \in 1..(Len(s) + 1)
                 PROVE (c \o b)[j] =
                   IF j < p THEN s[j] ELSE IF j = p THEN e ELSE s[j - 1]
    OBVIOUS
  <2>2. (c \o b)[j] = IF j <= p THEN c[j] ELSE b[j - p]
    BY <1>2, <1>4, <1>5
  <2>3. CASE j <= p
    BY <1>4, <2>2, <2>3
  <2>4. CASE j > p
    <3>1. b[j - p] = s[p + (j - p) - 1]
      BY <1>2, <2>4
    <3> QED BY <2>2, <2>4, <3>1
  <2>5. j <= p \/ j > p
    OBVIOUS
  <2> QED BY <2>3, <2>4, <2>5
<1> QED BY <1>2, <1>3, <1>4, <1>5, <1>6 DEF Inserted

(* RemoveAt shifts the entries behind position p back by one.              *)
LEMMA RemoveAtProps ==
  ASSUME NEW S, NEW s \in Seq(S), NEW p \in 1..Len(s)
  PROVE  /\ RemoveAt(s, p) \in Seq(S)
         /\ Removed(RemoveAt(s, p), s, p)
<1> DEFINE a == SubSeq(s, 1, p - 1)
           b == SubSeq(s, p + 1, Len(s))
<1>1. /\ a \in Seq(S) /\ Len(a) = p - 1
      /\ \A j \in 1..(p - 1) : a[j] = s[j]
  OBVIOUS
<1>2. /\ b \in Seq(S) /\ Len(b) = Len(s) - p
      /\ \A j \in 1..(Len(s) - p) : b[j] = s[p + j]
  OBVIOUS
<1>3. RemoveAt(s, p) = a \o b
  BY DEF RemoveAt
<1> HIDE DEF a, b
<1>4. /\ a \o b \in Seq(S)
      /\ Len(a \o b) = Len(a) + Len(b)
      /\ \A j \in 1..(Len(a) + Len(b)) :
           (a \o b)[j] = IF j <= Len(a) THEN a[j] ELSE b[j - Len(a)]
  BY <1>1, <1>2, ConcatProperties
<1>5. \A j \in 1..(Len(s) - 1) :
        (a \o b)[j] = IF j < p THEN s[j] ELSE s[j + 1]
  <2>1. SUFFICES ASSUME NEW j \in 1..(Len(s) - 1)
                 PROVE (a \o b)[j] = IF j < p THEN s[j] ELSE s[j + 1]
    OBVIOUS
  <2>2. (a \o b)[j] = IF j <= p - 1 THEN a[j] ELSE b[j - (p - 1)]
    BY <1>1, <1>2, <1>4
  <2>3. CASE j < p
    BY <1>1, <2>2, <2>3
  <2>4. CASE j >= p
    <3>1. b[j - (p - 1)] = s[p + (j - (p - 1))]
      BY <1>2, <2>4
    <3> QED BY <2>2, <2>4, <3>1
  <2>5. j < p \/ j >= p
    OBVIOUS
  <2> QED BY <2>3, <2>4, <2>5
<1> QED BY <1>1, <1>2, <1>3, <1>4, <1>5 DEF Removed

(* Tail takes the first entry away.                                        *)
LEMMA TailRemoves ==
  ASSUME NEW S, NEW s \in Seq(S), s # <<>>
  PROVE  Tail(s) \in Seq(S) /\ Removed(Tail(s), s, 1)
<1>1. Tail(s) \in Seq(S) /\ Len(Tail(s)) = Len(s) - 1
  OBVIOUS
<1>2. \A j \in 1..(Len(s) - 1) : Tail(s)[j] = s[j + 1]
  OBVIOUS
<1> QED BY <1>1, <1>2 DEF Removed

(* A number is its quotient times the divisor plus its remainder.          *)
LEMMA NatDivMod ==
  ASSUME NEW n \in Nat, NEW d \in Nat \ {0}
  PROVE  /\ n = d * (n \div d) + (n % d)
         /\ n % d \in 0 .. d - 1 /\ n \div d \in Nat
BY SMT

(* A quotient and a remainder are the only ones.                           *)
LEMMA Unique ==
  ASSUME NEW d \in Nat \ {0}, NEW a \in Nat, NEW b \in Nat,
         NEW x \in 0 .. d - 1, NEW y \in 0 .. d - 1, a * d + x = b * d + y
  PROVE  a = b /\ x = y
<1>1. ASSUME NEW p \in Nat, NEW q \in Nat, NEW u \in 0 .. d - 1,
             NEW v \in 0 .. d - 1, p < q
      PROVE  p * d + u # q * d + v
  <2>1. (p + 1) * d <= q * d
    BY <1>1, SMT
  <2>2. (p + 1) * d = p * d + d
    BY SMT
  <2>3. p * d \in Int /\ q * d \in Int
    OBVIOUS
  <2> QED BY <2>1, <2>2, <2>3
<1>2. ~(a < b) /\ ~(b < a)
  BY <1>1
<1>3. a = b
  BY <1>2
<1> QED BY <1>3

(* A power of two is positive: it is the number of subsets of a set.       *)
LEMMA PowerOfTwo == ASSUME NEW k \in Nat PROVE 2^k \in Nat \ {0}
<1>1. IsFiniteSet(1 .. k) /\ Cardinality(1 .. k) = k
  BY FS_Interval
<1>2. /\ IsFiniteSet(SUBSET (1 .. k))
      /\ Cardinality(SUBSET (1 .. k)) = 2^Cardinality(1 .. k)
  BY <1>1, FS_SUBSET
<1>3. Cardinality(SUBSET (1 .. k)) \in Nat
  BY <1>2, FS_CardinalityType
<1>4. SUBSET (1 .. k) # {}
  OBVIOUS
<1>5. Cardinality(SUBSET (1 .. k)) # 0
  BY <1>2, <1>4, FS_EmptySet
<1> QED BY <1>1, <1>2, <1>3, <1>5

(* What is appended to the second of two sequences is appended to both.    *)
LEMMA AppendToConcat ==
  ASSUME NEW S, NEW s \in Seq(S), NEW t \in Seq(S), NEW x \in S
  PROVE  s \o Append(t, x) = Append(s \o t, x) /\ s \o t \in Seq(S)
<1>1. Append(t, x) = t \o <<x>> /\ <<x>> \in Seq(S)
  OBVIOUS
<1>2. s \o t \in Seq(S)
  BY ConcatProperties
<1>3. s \o (t \o <<x>>) = (s \o t) \o <<x>>
  BY <1>1, ConcatAssociative
<1> DEFINE u == s \o t
<1>4. Append(u, x) = u \o <<x>>
  <2>1. u \in Seq(S)
    BY <1>2
  <2> HIDE DEF u
  <2> QED BY <2>1
<1> QED BY <1>1, <1>2, <1>3, <1>4

(* Moving the head of one sequence to the end of the one before it leaves  *)
(* their concatenation as it is.                                           *)
LEMMA HeadMoves ==
  ASSUME NEW S, NEW s \in Seq(S), NEW t \in Seq(S), t # <<>>
  PROVE  Append(s, Head(t)) \o Tail(t) = s \o t
<1> DEFINE h == Head(t)
           r == Tail(t)
<1>1. h \in S /\ r \in Seq(S) /\ Append(s, h) = s \o <<h>> /\ <<h>> \in Seq(S)
  OBVIOUS
<1>2. t = <<h>> \o r
  OBVIOUS
<1> HIDE DEF h, r
<1>3. (s \o <<h>>) \o r = s \o (<<h>> \o r)
  BY <1>1, ConcatAssociative
<1> QED BY <1>1, <1>2, <1>3 DEF h, r

(* What holds of 0 and of n if it holds of n - 1 holds up to k.            *)
LEMMA UpTo ==
  ASSUME NEW k \in Nat, NEW P, 0 \in P, \A n \in 1 .. k : n - 1 \in P => n \in P
  PROVE  0 .. k \subseteq P
<1> DEFINE Q == {n \in 0 .. k : n \notin P}
<1>1. Q = {}
  <2>1. SUFFICES ASSUME Q # {} PROVE FALSE
    OBVIOUS
  <2>2. Q \in SUBSET Nat
    OBVIOUS
  <2>3. PICK m \in Q : \A j \in Q : m <= j
    <3> HIDE DEF Q
    <3> QED BY <2>1, <2>2, LeastNat
  <2>4. m \in 1 .. k /\ m - 1 \notin Q /\ m - 1 \in 0 .. k
    BY <2>3
  <2> QED BY <2>3, <2>4
<1> QED BY <1>1

(* A value that is changed k times, by one function after the other: there *)
(* is a function that gives it after every change.                         *)
LEMMA Iterates ==
  ASSUME NEW S, NEW a \in S, NEW k \in Nat, NEW F \in [1 .. k -> [S -> S]]
  PROVE  \E f \in [0 .. k -> S] : f[0] = a /\ \A i \in 1 .. k : f[i] = F[i][f[i - 1]]
<1> DEFINE Good(n, f) == f[0] = a /\ \A i \in 1 .. n : f[i] = F[i][f[i - 1]]
           P == {n \in 0 .. k : \E f \in [0 .. n -> S] : Good(n, f)}
<1>1. 0 \in P
  <2> DEFINE f == [i \in 0 .. 0 |-> a]
  <2>1. f \in [0 .. 0 -> S] /\ Good(0, f)
    OBVIOUS
  <2> HIDE DEF f
  <2> QED BY <2>1
<1>2. ASSUME NEW n \in 1 .. k, n - 1 \in P
      PROVE  n \in P
  <2>1. PICK f \in [0 .. n - 1 -> S] : Good(n - 1, f)
    BY <1>2
  <2> DEFINE g == [i \in 0 .. n |-> IF i = n THEN F[n][f[n - 1]] ELSE f[i]]
  <2>2. f[n - 1] \in S /\ F[n] \in [S -> S] /\ F[n][f[n - 1]] \in S
    OBVIOUS
  <2>3. g \in [0 .. n -> S]
    BY <2>2
  <2>4. g[n] = F[n][f[n - 1]] /\ \A i \in 0 .. n - 1 : g[i] = f[i]
    OBVIOUS
  <2> HIDE DEF g
  <2>5. Good(n, g)
    BY <2>1, <2>4
  <2> QED BY <2>3, <2>5
<1> HIDE DEF P
<1>3. 0 .. k \subseteq P
  BY <1>1, <1>2, UpTo
<1> QED BY <1>3 DEF P
=============================================================================
