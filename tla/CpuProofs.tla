----------------------------- MODULE CpuProofs -----------------------------
(***************************************************************************)
(* Proofs about the interrupt controller, the tick timer and the main loop *)
(* (module Cpu), for every set of interrupt lines, all delays, instruction *)
(* lengths and values written to the registers, and all widths of TP and   *)
(* TTCR.                                                                   *)
(*                                                                         *)
(* The first part is about the queue of jobs: what adding, removing and    *)
(* running a job and the passing of time do to the jobs of each function.  *)
(***************************************************************************)
EXTENDS Cpu, DataLemmas, FiniteSetTheorems, TLAPS

QueueOf(F) == Seq([func : F, due : Int])

(* The queue is in the order of the times.                                 *)
Ordered(q) == \A i, j \in 1..Len(q) : i <= j => q[i].due <= q[j].due

(* f is queued for time d.                                                 *)
Holds(q, f, d) == \E i \in 1..Len(q) : q[i].func = f /\ q[i].due = d

Without(q, f) == \A i \in 1..Len(q) : q[i].func # f

AtMostOne(q, f) ==
  \A i, j \in 1..Len(q) : (q[i].func = f /\ q[j].func = f) => i = j

(* Every job f runs before every job g.                                    *)
InFront(q, f, g) ==
  \A i, j \in 1..Len(q) : (q[i].func = f /\ q[j].func = g) => i < j

(* r is q with n jobs e in front of position p.                            *)
Widened(r, q, p, n, e) ==
  /\ Len(r) = Len(q) + n
  /\ \A j \in 1..(Len(q) + n) :
       r[j] = IF j < p THEN q[j] ELSE IF j < p + n THEN e ELSE q[j - n]

(* r has the jobs of q except some of f: nothing else is lost, and nothing *)
(* is added.                                                               *)
LosesOnly(r, q, f) ==
  /\ \A g, d : (g # f /\ Holds(q, g, d)) => Holds(r, g, d)
  /\ \A g : Without(q, g) => Without(r, g)
  /\ \A g : AtMostOne(q, g) => AtMostOne(r, g)
  /\ \A g, h : InFront(q, g, h) => InFront(r, g, h)

(* r has the jobs of q and besides only jobs f.                            *)
GainsOnly(r, q, f) ==
  /\ \A g, d : Holds(q, g, d) => Holds(r, g, d)
  /\ \A g : (g # f /\ Without(q, g)) => Without(r, g)
  /\ \A g : (g # f /\ AtMostOne(q, g)) => AtMostOne(r, g)
  /\ \A g, h : (g # f /\ h # f /\ InFront(q, g, h)) => InFront(r, g, h)

-----------------------------------------------------------------------------

(* The entries of a queue have a function and a due time.                  *)
LEMMA QueueType ==
  ASSUME NEW F, NEW q \in QueueOf(F)
  PROVE  /\ Len(q) \in Nat
         /\ \A i \in 1..Len(q) : q[i].func \in F /\ q[i].due \in Int
<1>1. q \in Seq([func : F, due : Int])
  BY DEF QueueOf
<1>2. \A i \in 1..Len(q) : q[i] \in [func : F, due : Int]
  BY <1>1, ElementOfSeq
<1> QED BY <1>1, <1>2

(* sched_add()'s search finds its place.                                   *)
LEMMA InsertPosProps ==
  ASSUME NEW F, NEW q \in QueueOf(F), NEW t \in Int
  PROVE  /\ InsertPos(q, t) \in 1..(Len(q) + 1)
         /\ \A i \in 1..(InsertPos(q, t) - 1) : q[i].due < t
         /\ InsertPos(q, t) <= Len(q) => q[InsertPos(q, t)].due >= t
<1> DEFINE S == {p \in 1..(Len(q) + 1) : p <= Len(q) => q[p].due >= t}
           P(p) == /\ \A i \in 1..(p - 1) : q[i].due < t
                   /\ p <= Len(q) => q[p].due >= t
<1>1. Len(q) \in Nat /\ \A i \in 1..Len(q) : q[i].due \in Int
  BY QueueType
<1>2. S \in SUBSET Nat /\ Len(q) + 1 \in S
  BY <1>1
<1>3. PICK m \in S : \A k \in S : m <= k
  <2> HIDE DEF S
  <2> QED BY <1>2, LeastNat
<1>4. ASSUME NEW i \in 1..(m - 1) PROVE q[i].due < t
  <2>1. i \in 1..Len(q) /\ i < m /\ i \notin S
    BY <1>1, <1>3
  <2> QED BY <1>1, <2>1
<1>5. \E p \in 1..(Len(q) + 1) : P(p)
  BY <1>3, <1>4
<1> HIDE DEF P
<1>6. InsertPos(q, t) = CHOOSE p \in 1..(Len(q) + 1) : P(p)
  BY DEF InsertPos, P
<1>7. InsertPos(q, t) \in 1..(Len(q) + 1) /\ P(InsertPos(q, t))
  BY <1>5, <1>6
<1> QED BY <1>7 DEF P

(* Widening at the place of the search keeps the order.                    *)
LEMMA WidenedOrdered ==
  ASSUME NEW F, NEW q \in QueueOf(F), NEW r \in QueueOf(F), NEW f, NEW t \in Int,
         NEW p \in 1..(Len(q) + 1), NEW n \in Nat,
         Ordered(q), Widened(r, q, p, n, Job(f, t)),
         \A i \in 1..(p - 1) : q[i].due < t,
         p <= Len(q) => q[p].due >= t
  PROVE  Ordered(r)
<1>1. /\ Len(q) \in Nat /\ \A i \in 1..Len(q) : q[i].due \in Int
      /\ Len(r) = Len(q) + n
  BY QueueType DEF Widened
<1>2. SUFFICES ASSUME NEW i \in 1..Len(r), NEW j \in 1..Len(r), i <= j
               PROVE  r[i].due <= r[j].due
  BY DEF Ordered
<1>3. \A k \in 1..Len(r) :
        r[k].due = IF k < p THEN q[k].due
                   ELSE IF k < p + n THEN t ELSE q[k - n].due
  BY <1>1 DEF Widened, Job
<1>4. \A k \in 1..Len(q) : k >= p => q[k].due >= t
  <2>1. SUFFICES ASSUME NEW k \in 1..Len(q), k >= p PROVE q[k].due >= t
    OBVIOUS
  <2>2. p \in 1..Len(q) /\ q[p].due <= q[k].due
    BY <1>1, <2>1 DEF Ordered
  <2> QED BY <1>1, <2>2
<1>5. CASE j < p
  BY <1>1, <1>2, <1>3, <1>5 DEF Ordered
<1>6. CASE j >= p /\ j < p + n
  BY <1>1, <1>2, <1>3, <1>6
<1>7. CASE j >= p + n
  <2>1. j - n \in 1..Len(q) /\ r[j].due = q[j - n].due /\ q[j - n].due >= t
    BY <1>1, <1>3, <1>4, <1>7
  <2>2. CASE i < p
    <3>1. r[i].due = q[i].due /\ q[i].due < t /\ q[i].due \in Int
      BY <1>1, <1>3, <2>2
    <3> QED BY <1>1, <2>1, <3>1
  <2>3. CASE i >= p /\ i < p + n
    BY <1>1, <1>3, <2>1, <2>3
  <2>4. CASE i >= p + n
    <3>1. i - n \in 1..Len(q) /\ i - n <= j - n /\ r[i].due = q[i - n].due
      BY <1>1, <1>2, <1>3, <2>4, SMTT(30)
    <3> QED BY <2>1, <3>1 DEF Ordered
  <2> QED BY <1>1, <2>2, <2>3, <2>4
<1> QED BY <1>1, <1>5, <1>6, <1>7

(* Widening by jobs f adds only these.                                     *)
LEMMA WidenedGains ==
  ASSUME NEW F, NEW q \in QueueOf(F), NEW r, NEW f, NEW t \in Int,
         NEW p \in 1..(Len(q) + 1), NEW n \in Nat,
         Widened(r, q, p, n, Job(f, t))
  PROVE  GainsOnly(r, q, f)
<1> DEFINE Old(k) == IF k < p THEN k ELSE k - n
           New(i) == IF i < p THEN i ELSE i + n
<1>1. Len(q) \in Nat /\ Len(r) = Len(q) + n
  BY QueueType DEF Widened
<1>2. \A k \in 1..Len(r) :
        r[k].func = f \/ (Old(k) \in 1..Len(q) /\ r[k] = q[Old(k)])
  BY <1>1 DEF Widened, Job
<1>3. \A i \in 1..Len(q) : New(i) \in 1..Len(r) /\ r[New(i)] = q[i]
  BY <1>1, SMTT(30) DEF Widened
<1>4. \A k, l \in 1..Len(r) :
        (r[k].func # f /\ r[l].func # f) =>
          /\ (Old(k) = Old(l) => k = l)
          /\ (Old(k) < Old(l) => k < l)
  BY <1>1 DEF Widened, Job
<1> HIDE DEF Old, New
<1>5. ASSUME NEW g, NEW d, Holds(q, g, d) PROVE Holds(r, g, d)
  BY <1>3, <1>5 DEF Holds
<1>6. ASSUME NEW g, g # f, Without(q, g) PROVE Without(r, g)
  BY <1>2, <1>6 DEF Without
<1>7. ASSUME NEW g, g # f, AtMostOne(q, g) PROVE AtMostOne(r, g)
  BY <1>2, <1>4, <1>7, SMTT(30) DEF AtMostOne
<1>8. ASSUME NEW g, NEW h, g # f, h # f, InFront(q, g, h)
      PROVE  InFront(r, g, h)
  <2>1. SUFFICES ASSUME NEW k \in 1..Len(r), NEW l \in 1..Len(r),
                        r[k].func = g, r[l].func = h
                 PROVE  k < l
    BY DEF InFront
  <2>2. /\ Old(k) \in 1..Len(q) /\ q[Old(k)].func = g
        /\ Old(l) \in 1..Len(q) /\ q[Old(l)].func = h
    BY <1>2, <1>8, <2>1
  <2>3. Old(k) < Old(l)
    BY <1>8, <2>2 DEF InFront
  <2> QED BY <1>4, <1>8, <2>1, <2>3
<1> QED BY <1>5, <1>6, <1>7, <1>8 DEF GainsOnly

(* SCHED_ADD of one job.                                                   *)
LEMMA AddJobProps ==
  ASSUME NEW F, NEW q \in QueueOf(F), Ordered(q), NEW f \in F, NEW t \in Nat
  PROVE  LET r == AddJob(q, f, t) IN
         /\ r \in QueueOf(F) /\ Ordered(r) /\ Len(r) = Len(q) + 1
         /\ GainsOnly(r, q, f)
         /\ Holds(r, f, t)
         /\ Without(q, f) =>
              /\ AtMostOne(r, f)
              /\ \A h : (h # f /\ AtMostOne(q, h) /\ Holds(q, h, t))
                         => InFront(r, f, h)
<1> DEFINE p == InsertPos(q, t)
           e == Job(f, t)
           r == AddJob(q, f, t)
<1>1. /\ p \in 1..(Len(q) + 1)
      /\ \A i \in 1..(p - 1) : q[i].due < t
      /\ p <= Len(q) => q[p].due >= t
  <2>1. t \in Int
    OBVIOUS
  <2> QED BY <2>1, InsertPosProps, Zenon
<1>2. Len(q) \in Nat /\ \A i \in 1..Len(q) : q[i].due \in Int
  BY QueueType
<1>3. r = InsertAt(q, p, e)
  BY DEF AddJob
<1>4. e \in [func : F, due : Int] /\ e.func = f /\ e.due = t
  BY DEF Job
<1> HIDE DEF p, e, r
<1>5. q \in Seq([func : F, due : Int])
  BY DEF QueueOf
<1>6. r \in Seq([func : F, due : Int]) /\ Inserted(r, q, p, e)
  BY <1>1, <1>3, <1>4, <1>5, InsertAtProps
<1>7. r \in QueueOf(F) /\ Widened(r, q, p, 1, e)
  BY <1>1, <1>2, <1>6 DEF QueueOf, Inserted, Widened
<1>8. Ordered(r) /\ GainsOnly(r, q, f)
  <2>1. Widened(r, q, p, 1, Job(f, t)) /\ t \in Int /\ 1 \in Nat
    BY <1>7 DEF e
  <2>2. Ordered(r)
    BY <1>1, <1>7, <2>1, WidenedOrdered
  <2>3. GainsOnly(r, q, f)
    BY <1>1, <2>1, WidenedGains
  <2> QED BY <2>2, <2>3
<1>9. Len(r) = Len(q) + 1 /\ p \in 1..Len(r) /\ r[p] = e
  BY <1>1, <1>2, <1>7 DEF Widened
<1>10. Holds(r, f, t)
  BY <1>4, <1>9 DEF Holds
<1>11. ASSUME Without(q, f), NEW k \in 1..Len(r), r[k].func = f
       PROVE  k = p
  BY <1>1, <1>2, <1>7, <1>9, <1>11, SMTT(30) DEF Widened, Without
<1>12. ASSUME Without(q, f) PROVE AtMostOne(r, f)
  BY <1>11, <1>12 DEF AtMostOne
<1>13. ASSUME Without(q, f), NEW h, h # f, AtMostOne(q, h), Holds(q, h, t)
       PROVE  InFront(r, f, h)
  <2>1. PICK i \in 1..Len(q) : q[i].func = h /\ q[i].due = t
    BY <1>13 DEF Holds
  <2>2. i >= p
    BY <1>1, <1>2, <2>1
  <2>3. SUFFICES ASSUME NEW k \in 1..Len(r), NEW l \in 1..Len(r),
                        r[k].func = f, r[l].func = h
                 PROVE  k < l
    BY DEF InFront
  <2>4. k = p
    BY <1>11, <1>13, <2>3
  <2>5. l # p /\ (l < p => r[l] = q[l])
    BY <1>1, <1>2, <1>4, <1>7, <1>9, <1>13, <2>3 DEF Widened
  <2>6. ~(l < p)
    BY <1>1, <1>2, <1>13, <2>1, <2>2, <2>3, <2>5, SMTT(30) DEF AtMostOne
  <2> QED BY <1>1, <2>4, <2>5, <2>6
<1> QED BY <1>7, <1>8, <1>9, <1>10, <1>12, <1>13 DEF r

(* The interrupts of the library's caller: n calls of SCHED_ADD.           *)
LEMMA AddJobsProps ==
  ASSUME NEW F, NEW q \in QueueOf(F), Ordered(q), NEW f \in F, NEW t \in Nat,
         NEW n \in Nat
  PROVE  LET r == AddJobs(q, f, t, n) IN
         /\ r \in QueueOf(F) /\ Ordered(r) /\ Len(r) = Len(q) + n
         /\ GainsOnly(r, q, f)
         /\ n > 0 => Holds(r, f, t)
<1> DEFINE p == InsertPos(q, t)
           S == [func : F, due : Int]
           e == Job(f, t)
           a == SubSeq(q, 1, p - 1)
           m == [i \in 1..n |-> e]
           b == SubSeq(q, p, Len(q))
           r == AddJobs(q, f, t, n)
<1>1. /\ p \in 1..(Len(q) + 1)
      /\ \A i \in 1..(p - 1) : q[i].due < t
      /\ p <= Len(q) => q[p].due >= t
  <2>1. t \in Int
    OBVIOUS
  <2> QED BY <2>1, InsertPosProps, Zenon
<1>2. Len(q) \in Nat /\ q \in Seq(S)
  BY QueueType DEF QueueOf
<1>3. r = (a \o m) \o b
  BY DEF AddJobs
<1>4. e \in S /\ e.func = f /\ e.due = t
  BY DEF Job
<1> HIDE DEF p, e, r, S
<1>5. /\ a \in Seq(S) /\ Len(a) = p - 1
      /\ \A j \in 1..(p - 1) : a[j] = q[j]
  BY <1>1, <1>2
<1>6. /\ b \in Seq(S) /\ Len(b) = Len(q) - p + 1
      /\ \A j \in 1..(Len(q) - p + 1) : b[j] = q[p + j - 1]
  BY <1>1, <1>2
<1>7. m \in Seq(S) /\ Len(m) = n /\ \A j \in 1..n : m[j] = e
  BY <1>4
<1> HIDE DEF a, b, m
<1> DEFINE c == a \o m
<1>8. /\ c \in Seq(S) /\ Len(c) = Len(a) + Len(m)
      /\ \A j \in 1..(Len(a) + Len(m)) :
           c[j] = IF j <= Len(a) THEN a[j] ELSE m[j - Len(a)]
  BY <1>5, <1>7, ConcatProperties
<1> HIDE DEF c
<1>9. /\ c \o b \in Seq(S) /\ Len(c \o b) = Len(c) + Len(b)
      /\ \A j \in 1..(Len(c) + Len(b)) :
           (c \o b)[j] = IF j <= Len(c) THEN c[j] ELSE b[j - Len(c)]
  BY <1>6, <1>8, ConcatProperties
<1>10. r = c \o b
  BY <1>3 DEF c
<1>11. Len(r) = Len(q) + n /\ Len(c) = p - 1 + n
  BY <1>1, <1>2, <1>5, <1>6, <1>7, <1>8, <1>9, <1>10
<1>12. ASSUME NEW j \in 1..(Len(q) + n)
       PROVE  r[j] = IF j < p THEN q[j] ELSE IF j < p + n THEN e ELSE q[j - n]
  <2>1. r[j] = IF j <= p - 1 + n THEN c[j] ELSE b[j - (p - 1 + n)]
    BY <1>2, <1>9, <1>10, <1>11
  <2>2. CASE j < p
    BY <1>1, <1>5, <1>7, <1>8, <1>11, <2>1, <2>2
  <2>3. CASE j >= p /\ j < p + n
    <3>1. c[j] = m[j - (p - 1)] /\ j - (p - 1) \in 1..n
      BY <1>1, <1>5, <1>7, <1>8, <2>3
    <3> QED BY <1>1, <1>7, <2>1, <2>3, <3>1
  <2>4. CASE j >= p + n
    <3> DEFINE k == j - (p - 1 + n)
    <3>1. k \in 1..(Len(q) - p + 1) /\ p + k - 1 = j - n
      BY <1>1, <1>2, <2>4
    <3>2. b[k] = q[p + k - 1]
      BY <1>6, <3>1
    <3> QED BY <1>1, <2>1, <2>4, <3>1, <3>2
  <2> QED BY <1>1, <2>2, <2>3, <2>4
<1>13. r \in QueueOf(F) /\ Widened(r, q, p, n, e)
  BY <1>9, <1>10, <1>11, <1>12 DEF QueueOf, Widened, S
<1>14. Ordered(r) /\ GainsOnly(r, q, f)
  <2>1. Widened(r, q, p, n, Job(f, t)) /\ t \in Int
    BY <1>13 DEF e
  <2>2. Ordered(r)
    BY <1>1, <1>13, <2>1, WidenedOrdered
  <2>3. GainsOnly(r, q, f)
    BY <1>1, <2>1, WidenedGains
  <2> QED BY <2>2, <2>3
<1>15. ASSUME n > 0 PROVE Holds(r, f, t)
  <2>1. p \in 1..Len(r) /\ r[p] = e
    BY <1>1, <1>2, <1>11, <1>12, <1>15
  <2> QED BY <1>4, <2>1 DEF Holds
<1> QED BY <1>11, <1>13, <1>14, <1>15 DEF r

(* One job less.                                                           *)
LEMMA RemovedLoses ==
  ASSUME NEW F, NEW q \in QueueOf(F), Ordered(q), NEW r, NEW p \in 1..Len(q),
         Removed(r, q, p), r \in Seq([func : F, due : Int])
  PROVE  /\ r \in QueueOf(F) /\ Ordered(r)
         /\ LosesOnly(r, q, q[p].func)
         /\ AtMostOne(q, q[p].func) => Without(r, q[p].func)
<1> DEFINE Old(k) == IF k < p THEN k ELSE k + 1
           New(i) == IF i < p THEN i ELSE i - 1
<1>1. Len(q) \in Nat /\ Len(r) = Len(q) - 1
  BY QueueType DEF Removed
<1>2. \A k \in 1..Len(r) : Old(k) \in 1..Len(q) /\ Old(k) # p /\ r[k] = q[Old(k)]
  <2> SUFFICES ASSUME NEW k \in 1..Len(r)
               PROVE  Old(k) \in 1..Len(q) /\ Old(k) # p /\ r[k] = q[Old(k)]
    OBVIOUS
  <2>1. Old(k) \in 1..Len(q) /\ Old(k) # p
    BY <1>1
  <2>2. r[k] = q[Old(k)]
    BY <1>1 DEF Removed
  <2> QED BY <2>1, <2>2
<1>3. \A i \in 1..Len(q) : i # p => New(i) \in 1..Len(r) /\ r[New(i)] = q[i]
  BY <1>1 DEF Removed
<1>4. \A k, l \in 1..Len(r) :
        /\ (Old(k) = Old(l) => k = l)
        /\ (Old(k) < Old(l) => k < l)
        /\ (k <= l => Old(k) <= Old(l))
  BY <1>1
<1> HIDE DEF Old, New
<1>5. r \in QueueOf(F)
  BY DEF QueueOf
<1>6. Ordered(r)
  BY <1>2, <1>4 DEF Ordered
<1>7. ASSUME NEW g, NEW d, g # q[p].func, Holds(q, g, d) PROVE Holds(r, g, d)
  BY <1>3, <1>7 DEF Holds
<1>8. ASSUME NEW g, Without(q, g) PROVE Without(r, g)
  BY <1>2, <1>8 DEF Without
<1>9. ASSUME NEW g, AtMostOne(q, g) PROVE AtMostOne(r, g)
  <2>1. SUFFICES ASSUME NEW k \in 1..Len(r), NEW l \in 1..Len(r),
                        r[k].func = g, r[l].func = g
                 PROVE  k = l
    BY DEF AtMostOne
  <2>2. /\ Old(k) \in 1..Len(q) /\ q[Old(k)].func = g
        /\ Old(l) \in 1..Len(q) /\ q[Old(l)].func = g
    BY <1>2, <2>1
  <2>3. Old(k) = Old(l)
    BY <1>9, <2>2 DEF AtMostOne
  <2> QED BY <1>4, <2>3
<1>10. ASSUME NEW g, NEW h, InFront(q, g, h) PROVE InFront(r, g, h)
  <2>1. SUFFICES ASSUME NEW k \in 1..Len(r), NEW l \in 1..Len(r),
                        r[k].func = g, r[l].func = h
                 PROVE  k < l
    BY DEF InFront
  <2>2. /\ Old(k) \in 1..Len(q) /\ q[Old(k)].func = g
        /\ Old(l) \in 1..Len(q) /\ q[Old(l)].func = h
    BY <1>2, <2>1
  <2>3. Old(k) < Old(l)
    BY <1>10, <2>2 DEF InFront
  <2> QED BY <1>4, <2>3
<1>11. ASSUME AtMostOne(q, q[p].func) PROVE Without(r, q[p].func)
  BY <1>2, <1>11 DEF AtMostOne, Without
<1> QED BY <1>5, <1>6, <1>7, <1>8, <1>9, <1>10, <1>11 DEF LosesOnly

(* SCHED_FIND_REMOVE.                                                      *)
LEMMA RemoveJobProps ==
  ASSUME NEW F, NEW q \in QueueOf(F), Ordered(q), NEW f
  PROVE  LET r == RemoveJob(q, f) IN
         /\ r \in QueueOf(F) /\ Ordered(r)
         /\ LosesOnly(r, q, f)
         /\ AtMostOne(q, f) => Without(r, f)
<1> DEFINE r == RemoveJob(q, f)
           W == Where(q, f)
<1>0. Len(q) \in Nat /\ DOMAIN q = 1..Len(q) /\ q \in Seq([func : F, due : Int])
  BY QueueType DEF QueueOf
<1>1. CASE W = {}
  <2>1. r = q
    BY <1>1 DEF RemoveJob
  <2>2. Without(q, f)
    BY <1>0, <1>1 DEF Where, Without
  <2> QED BY <2>1, <2>2 DEF LosesOnly
<1>2. CASE W # {}
  <2>1. W \in SUBSET Nat /\ W \subseteq 1..Len(q)
    BY <1>0 DEF Where
  <2>2. \E i \in W : \A j \in W : i <= j
    BY <1>2, <2>1, LeastNat
  <2> DEFINE p == CHOOSE i \in W : \A j \in W : i <= j
  <2>3. p \in W
    BY <2>2
  <2>4. r = RemoveAt(q, p)
    BY <1>2 DEF RemoveJob
  <2> HIDE DEF p, r
  <2>5. p \in 1..Len(q) /\ q[p].func = f
    BY <1>0, <2>3 DEF Where
  <2>6. r \in Seq([func : F, due : Int]) /\ Removed(r, q, p)
    BY <1>0, <2>4, <2>5, RemoveAtProps
  <2>7. /\ r \in QueueOf(F) /\ Ordered(r)
        /\ LosesOnly(r, q, f)
        /\ AtMostOne(q, f) => Without(r, f)
    BY <2>5, <2>6, RemovedLoses
  <2> QED BY <2>7 DEF r
<1> QED BY <1>1, <1>2

(* do_scheduler() takes the front job.                                     *)
LEMMA TailProps ==
  ASSUME NEW F, NEW q \in QueueOf(F), Ordered(q), Len(q) > 0
  PROVE  /\ Tail(q) \in QueueOf(F) /\ Ordered(Tail(q))
         /\ LosesOnly(Tail(q), q, q[1].func)
         /\ AtMostOne(q, q[1].func) => Without(Tail(q), q[1].func)
<1>1. q \in Seq([func : F, due : Int]) /\ q # <<>> /\ 1 \in 1..Len(q)
  BY QueueType DEF QueueOf
<1>2. Tail(q) \in Seq([func : F, due : Int]) /\ Removed(Tail(q), q, 1)
  BY <1>1, TailRemoves
<1> QED BY <1>1, <1>2, RemovedLoses

(* The cycles of an instruction pass.                                      *)
LEMMA ElapseProps ==
  ASSUME NEW F, NEW q \in QueueOf(F), Ordered(q), NEW c \in Int
  PROVE  LET r == Elapse(q, c) IN
         /\ r \in QueueOf(F) /\ Ordered(r) /\ Len(r) = Len(q)
         /\ \A g : \A d \in Int : Holds(q, g, d) => Holds(r, g, d - c)
         /\ \A g : Without(q, g) <=> Without(r, g)
         /\ \A g : AtMostOne(q, g) => AtMostOne(r, g)
         /\ \A g, h : InFront(q, g, h) => InFront(r, g, h)
<1> DEFINE r == Elapse(q, c)
<1>1. /\ Len(q) \in Nat
      /\ \A i \in 1..Len(q) : q[i].func \in F /\ q[i].due \in Int
  BY QueueType
<1>2. DOMAIN q = 1..Len(q)
  BY DEF QueueOf
<1>3. r = [i \in 1..Len(q) |-> [func |-> q[i].func, due |-> q[i].due - c]]
  BY <1>2 DEF Elapse, Job
<1> HIDE DEF r
<1>4. \A i \in 1..Len(q) :
        [func |-> q[i].func, due |-> q[i].due - c] \in [func : F, due : Int]
  BY <1>1
<1>5. r \in Seq([func : F, due : Int]) /\ Len(r) = Len(q)
  BY <1>1, <1>3, <1>4
<1>6. \A i \in 1..Len(q) :
        r[i].func = q[i].func /\ r[i].due = q[i].due - c
  BY <1>3
<1>7. r \in QueueOf(F)
  BY <1>5 DEF QueueOf
<1>8. Ordered(r)
  <2>1. SUFFICES ASSUME NEW i \in 1..Len(q), NEW j \in 1..Len(q), i <= j
                 PROVE  r[i].due <= r[j].due
    BY <1>5 DEF Ordered
  <2>2. q[i].due <= q[j].due /\ q[i].due \in Int /\ q[j].due \in Int
    BY <1>1, <2>1 DEF Ordered
  <2>3. r[i].due = q[i].due - c /\ r[j].due = q[j].due - c
    BY <1>6
  <2> QED BY <2>2, <2>3
<1>9. ASSUME NEW g, NEW d \in Int, Holds(q, g, d) PROVE Holds(r, g, d - c)
  BY <1>5, <1>6, <1>9 DEF Holds
<1>10. ASSUME NEW g PROVE Without(q, g) <=> Without(r, g)
  BY <1>5, <1>6 DEF Without
<1>11. ASSUME NEW g, AtMostOne(q, g) PROVE AtMostOne(r, g)
  BY <1>5, <1>6, <1>11 DEF AtMostOne
<1>12. ASSUME NEW g, NEW h, InFront(q, g, h) PROVE InFront(r, g, h)
  BY <1>5, <1>6, <1>12 DEF InFront
<1> QED BY <1>5, <1>7, <1>8, <1>9, <1>10, <1>11, <1>12 DEF r

-----------------------------------------------------------------------------
(***************************************************************************)
(* Counting modulo the width of a register field.                          *)
(***************************************************************************)
LEMMA DivMod ==
  ASSUME NEW M \in Nat \ {0}, NEW x \in Int
  PROVE  /\ x = M * (x \div M) + (x % M)
         /\ x \div M \in Int
         /\ x % M \in 0..(M - 1)
OBVIOUS

(* A number has one quotient and one remainder.                            *)
LEMMA RemainderUnique ==
  ASSUME NEW M \in Nat \ {0}, NEW a \in Int, NEW b \in Int,
         NEW r \in 0..(M - 1), NEW s \in 0..(M - 1),
         M * a + r = M * b + s
  PROVE  r = s
<1> DEFINE k == a - b
<1>1. k \in Int /\ M * k = s - r
  OBVIOUS
<1> HIDE DEF k
<1>2. k >= 1 => M * k >= M
  BY <1>1
<1>3. k <= -1 => M * k <= -M
  BY <1>1
<1>4. k = 0
  BY <1>1, <1>2, <1>3
<1> QED BY <1>1, <1>4

(* Adding multiples of the modulus leaves the remainder.                   *)
LEMMA ModShift ==
  ASSUME NEW M \in Nat \ {0}, NEW x \in Int, NEW k \in Int
  PROVE  (x + M * k) % M = x % M
<1> DEFINE y == x + M * k
           a == x \div M
           b == y \div M
           u == x % M
           v == y % M
<1>1. y \in Int /\ y = x + M * k
  OBVIOUS
<1>2. x = M * a + u /\ a \in Int /\ u \in 0..(M - 1)
  BY DivMod
<1> HIDE DEF y, a, u
<1>3. y = M * b + v /\ b \in Int /\ v \in 0..(M - 1)
  BY <1>1, DivMod
<1> HIDE DEF b, v
<1>4. M * (a + k) = M * a + M * k /\ a + k \in Int
  BY <1>2
<1>5. M * (a + k) + u = M * b + v
  BY <1>1, <1>2, <1>3, <1>4
<1>6. u = v
  BY <1>2, <1>3, <1>4, <1>5, RemainderUnique
<1> QED BY <1>6 DEF u, v, y

(* A number below the modulus is its own remainder.                        *)
LEMMA SmallMod ==
  ASSUME NEW M \in Nat \ {0}, NEW r \in 0..(M - 1)
  PROVE  r % M = r
<1> DEFINE a == r \div M
           u == r % M
<1>1. r = M * a + u /\ a \in Int /\ u \in 0..(M - 1)
  BY DivMod
<1> HIDE DEF a, u
<1>2. M * 0 + r = M * a + u
  BY <1>1
<1>3. r = u
  BY <1>1, <1>2, RemainderUnique
<1> QED BY <1>3 DEF u

(* sched_timer_job() computes the cycles until TTCR matches TP.            *)
LEMMA CyclesUntilMatch ==
  ASSUME NEW tp \in 0..(TPMOD - 1), NEW c \in Nat
  PROVE  /\ CyclesUntil(tp, c) \in Nat
         /\ (c + CyclesUntil(tp, c)) % TPMOD = tp
<1> DEFINE n == CyclesUntil(tp, c)
           m == c % TPMOD
           a == c \div TPMOD
<1>0. TPMOD \in Nat \ {0}
  BY TickAssumption
<1>1. n = IF tp >= m THEN tp - m ELSE tp + ((TPMOD - 1) - m) + 1
  BY DEF CyclesUntil
<1>2. c = TPMOD * a + m /\ a \in Int /\ m \in 0..(TPMOD - 1)
  BY <1>0, DivMod
<1> HIDE DEF n, m, a
<1>3. n \in Nat
  BY <1>0, <1>1, <1>2
<1>4. PICK k \in {a, a + 1} : c + n = tp + TPMOD * k
  <2>1. TPMOD * (a + 1) = TPMOD * a + TPMOD
    BY <1>0, <1>2
  <2> QED BY <1>0, <1>1, <1>2, <2>1
<1>5. (c + n) % TPMOD = tp % TPMOD
  <2>1. k \in Int /\ tp \in Int
    BY <1>2
  <2>2. (tp + TPMOD * k) % TPMOD = tp % TPMOD
    BY <1>0, <2>1, ModShift
  <2> QED BY <1>4, <2>2
<1>6. tp % TPMOD = tp
  BY <1>0, SmallMod
<1> QED BY <1>3, <1>5, <1>6 DEF n

(* c cycles pass: TTCR wraps at the width of a register, and the job stays *)
(* due when TTCR matches.                                                  *)
LEMMA WrapKeepsMatch ==
  ASSUME NEW t \in Nat, NEW c \in Nat, NEW d \in Int
  PROVE  /\ (t + c) % REGMOD \in 0..(REGMOD - 1)
         /\ (((t + c) % REGMOD) + (d - c)) % TPMOD = (t + d) % TPMOD
<1> DEFINE w == (t + c) % REGMOD
           e == (t + c) \div REGMOD
           K == REGMOD \div TPMOD
<1>0. /\ TPMOD \in Nat \ {0} /\ REGMOD \in Nat \ {0} /\ t + c \in Int
      /\ REGMOD \in Int /\ REGMOD % TPMOD = 0
  BY TickAssumption
<1>1. t + c = REGMOD * e + w /\ e \in Int /\ w \in 0..(REGMOD - 1)
  BY <1>0, DivMod
<1>2. REGMOD = TPMOD * K /\ K \in Int
  <2>1. REGMOD = TPMOD * (REGMOD \div TPMOD) + (REGMOD % TPMOD)
        /\ REGMOD \div TPMOD \in Int
    BY <1>0, DivMod
  <2> QED BY <1>0, <2>1
<1> HIDE DEF w, e, K
<1>3. w + (d - c) = (t + d) + TPMOD * (-(K * e)) /\ -(K * e) \in Int
  <2>1. REGMOD * e = TPMOD * (K * e)
    BY <1>0, <1>1, <1>2
  <2> DEFINE z == K * e
  <2>2. z \in Int /\ REGMOD * e = TPMOD * z
    BY <1>1, <1>2, <2>1
  <2> HIDE DEF z
  <2>3. TPMOD * (-z) = -(TPMOD * z)
    BY <1>0, <2>2
  <2>4. w + (d - c) = (t + d) + TPMOD * (-z)
    BY <1>0, <1>1, <2>2, <2>3
  <2> QED BY <2>2, <2>4 DEF z
<1>4. (w + (d - c)) % TPMOD = (t + d) % TPMOD
  <2> DEFINE z == -(K * e)
             x == t + d
  <2>1. z \in Int /\ x \in Int /\ w + (d - c) = x + TPMOD * z
    BY <1>3
  <2> HIDE DEF z, x
  <2>2. (x + TPMOD * z) % TPMOD = x % TPMOD
    BY <1>0, <2>1, ModShift
  <2>3. (w + (d - c)) % TPMOD = x % TPMOD
    BY <2>1, <2>2
  <2> QED BY <2>3 DEF x
<1> QED BY <1>1, <1>4 DEF w

-----------------------------------------------------------------------------
(***************************************************************************)
(* The inductive invariant.                                                *)
(***************************************************************************)
(* The queue is sorted and never empty, and nothing in it is due when an   *)
(* instruction starts.                                                     *)
QueueInv ==
  /\ agenda \in QueueOf(JobFuncs) /\ Ordered(agenda)
  /\ ~Without(agenda, "check_int")
  /\ mode = "insn" => agenda[1].due > 0

(* In every mode, an interrupt that is pending, unmasked and enabled, and  *)
(* not just a bit that software has set, has its delivery queued and due.  *)
DeliveryQueued ==
  (sr.iee /\ (picsr \ soft) \cap picmr # {}) =>
    \E d \in Int : d <= 0 /\ Holds(agenda, "pic_rep_int", d)

(* The timer jobs of queue q are those of the TTMR value tm and of the     *)
(* tick_counting flag cnt.  While a periodic tick is awaited, its job is   *)
(* in front of the job that restarts the counter.                          *)
JobsOK(q, tm, cnt) ==
  /\ \A f \in TickJobs : AtMostOne(q, f)
  /\ Without(q, "tick_restart") <=> tm.m # "RT"
  /\ Without(q, "tick_one_shot") <=> ~(tm.m = "SR" /\ cnt)
  /\ ~tm.ie => Without(q, "tick_raise_except")
  /\ tm.ip => ~Without(q, "tick_raise_except")
  /\ (tm.m = "RT" /\ tm.ie /\ ~tm.ip) =>
        InFront(q, "tick_raise_except", "tick_restart")
  /\ cnt => tm.m # "off"

(* The tick is queued for the cycle in which the counter, now c, matches.  *)
OnTime(q, tm, c, cnt) ==
  (tm.ie /\ ~tm.ip /\ cnt) =>
    \E d \in Int : /\ Holds(q, "tick_raise_except", d)
                   /\ (c + d) % TPMOD = tm.tp

IInv ==
  /\ TypeOK
  /\ QueueInv
  /\ DeliveryQueued
  /\ JobsOK(agenda, ttmr, counting)
  /\ OnTime(agenda, ttmr, ttcr, counting)

(* The jobs of the functions in T are the same in r as in q.               *)
SameJobs(r, q, T) ==
  /\ \A g \in T : \A d : Holds(q, g, d) => Holds(r, g, d)
  /\ \A g \in T : Without(q, g) <=> Without(r, g)
  /\ \A g \in T : AtMostOne(q, g) => AtMostOne(r, g)
  /\ \A g, h \in T : InFront(q, g, h) => InFront(r, g, h)

(* A queue has a job of g unless it is without one.                        *)
LEMMA HoldsSome ==
  ASSUME NEW F, NEW q \in QueueOf(F), NEW g
  PROVE  ~Without(q, g) <=> \E d \in Int : Holds(q, g, d)
BY QueueType DEF Without, Holds

(* Adding a job of f leaves the jobs of the other functions.               *)
LEMMA GainsSame ==
  ASSUME NEW F, NEW q \in QueueOf(F), NEW r \in QueueOf(F), NEW f, NEW T,
         GainsOnly(r, q, f), f \notin T
  PROVE  SameJobs(r, q, T)
<1>1. ASSUME NEW g \in T PROVE Without(q, g) <=> Without(r, g)
  BY <1>1, HoldsSome DEF GainsOnly
<1> QED BY <1>1 DEF GainsOnly, SameJobs

(* Removing a job of f leaves the jobs of the other functions.             *)
LEMMA LosesSame ==
  ASSUME NEW F, NEW q \in QueueOf(F), NEW r \in QueueOf(F), NEW f, NEW T,
         LosesOnly(r, q, f), f \notin T
  PROVE  SameJobs(r, q, T)
<1>1. ASSUME NEW g \in T PROVE Without(q, g) <=> Without(r, g)
  BY <1>1, HoldsSome DEF LosesOnly
<1> QED BY <1>1 DEF LosesOnly, SameJobs

(* Leaving the jobs of T alone twice leaves them alone.                    *)
LEMMA SameJobsTrans ==
  ASSUME NEW q, NEW r, NEW s, NEW T, SameJobs(r, q, T), SameJobs(s, r, T)
  PROVE  SameJobs(s, q, T)
BY DEF SameJobs

(* Jobs of others do not matter to the timer.                              *)
LEMMA TickKept ==
  ASSUME NEW q, NEW r, NEW tm, NEW c, NEW cnt, SameJobs(r, q, TickJobs)
  PROVE  /\ JobsOK(q, tm, cnt) => JobsOK(r, tm, cnt)
         /\ OnTime(q, tm, c, cnt) => OnTime(r, tm, c, cnt)
<1>1. JobsOK(q, tm, cnt) => JobsOK(r, tm, cnt)
  BY DEF JobsOK, SameJobs, TickJobs
<1>2. OnTime(q, tm, c, cnt) => OnTime(r, tm, c, cnt)
  BY DEF OnTime, SameJobs, TickJobs
<1> QED BY <1>1, <1>2

-----------------------------------------------------------------------------
Others == {"check_int", "pic_rep_int"}

(* Names of jobs never clash.                                              *)
LEMMA JobNames ==
  /\ TickJobs \subseteq JobFuncs /\ Others \subseteq JobFuncs
  /\ Lines \subseteq JobFuncs
  /\ TickJobs \cap Others = {}
  /\ \A l \in Lines : l \notin TickJobs /\ l \notin Others
BY CpuAssumption DEF JobFuncs, TickJobs, Others

(* While check_int is queued, the queue has a first job.                   *)
LEMMA NotEmpty ==
  ASSUME NEW q \in QueueOf(JobFuncs), ~Without(q, "check_int")
  PROVE  Len(q) > 0 /\ q[1].due \in Int
<1>1. Len(q) \in Nat /\ \A i \in 1..Len(q) : q[i].due \in Int
  BY QueueType
<1>2. Len(q) # 0
  BY <1>1 DEF Without
<1> QED BY <1>1, <1>2

(* sched_timer_job() leaves exactly the jobs of the new mode, due when the *)
(* counter matches, and no others touched.                                 *)
LEMMA TimerJobs ==
  ASSUME IInv, NEW new \in TtmrWords, new.ip => (ttmr.ip /\ new.ie),
         NEW c \in 0..(REGMOD - 1), NEW cnt \in BOOLEAN,
         cnt => new.m # "off"
  PROVE  LET r == sched_timer_job(ttmr, new, c, cnt) IN
         /\ r \in QueueOf(JobFuncs) /\ Ordered(r)
         /\ JobsOK(r, new, cnt)
         /\ OnTime(r, new, c, cnt)
         /\ SameJobs(r, agenda, Others)
<1> DEFINE q1 == IF ttmr.ie /\ ~new.ip
                 THEN RemoveJob(agenda, "tick_raise_except") ELSE agenda
           q == Dropped(ttmr, new)
           n == CyclesUntil(new.tp, c)
           r == sched_timer_job(ttmr, new, c, cnt)
           Raise(s) == IF new.ie /\ ~new.ip
                       THEN AddJob(s, "tick_raise_except", n) ELSE s
<1>1. /\ agenda \in QueueOf(JobFuncs) /\ Ordered(agenda)
      /\ JobsOK(agenda, ttmr, counting) /\ ttmr \in TtmrWords
      /\ \A f \in TickJobs : AtMostOne(agenda, f)
  BY DEF IInv, QueueInv, TypeOK, JobsOK
<1>2. n \in Nat /\ (c + n) % TPMOD = new.tp
  <2>1. new.tp \in 0..(TPMOD - 1) /\ c \in Nat
    BY TickAssumption DEF TtmrWords
  <2> QED BY <2>1, CyclesUntilMatch
<1>3. /\ q1 \in QueueOf(JobFuncs) /\ Ordered(q1)
      /\ LosesOnly(q1, agenda, "tick_raise_except")
      /\ ~new.ip => Without(q1, "tick_raise_except")
      /\ new.ip => q1 = agenda
  <2>1. CASE ttmr.ie /\ ~new.ip
    BY <1>1, <2>1, RemoveJobProps DEF TickJobs
  <2>2. CASE ~(ttmr.ie /\ ~new.ip)
    <3>1. q1 = agenda
      BY <2>2
    <3>2. LosesOnly(agenda, agenda, "tick_raise_except")
      BY DEF LosesOnly
    <3>3. ~new.ip => Without(agenda, "tick_raise_except")
      BY <1>1, <2>2 DEF JobsOK
    <3> QED BY <1>1, <3>1, <3>2, <3>3
  <2> QED BY <2>1, <2>2
<1>4. /\ SameJobs(q1, agenda, Others \cup {"tick_restart", "tick_one_shot"})
      /\ \A f \in TickJobs : AtMostOne(q1, f)
      /\ new.ip => ~Without(q1, "tick_raise_except")
  <2>1. "tick_raise_except" \notin Others \cup {"tick_restart", "tick_one_shot"}
    BY DEF Others
  <2>2. SameJobs(q1, agenda, Others \cup {"tick_restart", "tick_one_shot"})
    BY <1>1, <1>3, <2>1, LosesSame
  <2>3. \A f \in TickJobs : AtMostOne(q1, f)
    BY <1>1, <1>3 DEF LosesOnly
  <2>4. new.ip => ~Without(q1, "tick_raise_except")
    BY <1>1, <1>3 DEF JobsOK
  <2> QED BY <2>2, <2>3, <2>4
<1>5. q = CASE ttmr.m = "RT" -> RemoveJob(q1, "tick_restart")
            [] ttmr.m = "SR" -> RemoveJob(q1, "tick_one_shot")
            [] OTHER -> q1
  BY DEF Dropped
<1>6. Without(q1, "tick_restart") <=> ttmr.m # "RT"
  BY <1>1, <1>4 DEF JobsOK, SameJobs
<1>7. ttmr.m # "SR" => Without(q1, "tick_one_shot")
  BY <1>1, <1>4 DEF JobsOK, SameJobs
<1> HIDE DEF q1, q, n
<1>8. \E f \in {"tick_restart", "tick_one_shot"} :
        /\ q \in QueueOf(JobFuncs) /\ Ordered(q)
        /\ LosesOnly(q, q1, f)
        /\ Without(q, "tick_restart") /\ Without(q, "tick_one_shot")
  <2>1. CASE ttmr.m = "RT"
    <3>1. q = RemoveJob(q1, "tick_restart")
      BY <1>5, <2>1
    <3>2. /\ q \in QueueOf(JobFuncs) /\ Ordered(q)
          /\ LosesOnly(q, q1, "tick_restart")
          /\ Without(q, "tick_restart")
      BY <1>3, <1>4, <3>1, RemoveJobProps DEF TickJobs
    <3>3. Without(q, "tick_one_shot")
      BY <1>7, <2>1, <3>2 DEF LosesOnly
    <3> QED BY <3>2, <3>3
  <2>2. CASE ttmr.m = "SR"
    <3>1. q = RemoveJob(q1, "tick_one_shot")
      BY <1>5, <2>2
    <3>2. /\ q \in QueueOf(JobFuncs) /\ Ordered(q)
          /\ LosesOnly(q, q1, "tick_one_shot")
          /\ Without(q, "tick_one_shot")
      BY <1>3, <1>4, <3>1, RemoveJobProps DEF TickJobs
    <3>3. Without(q, "tick_restart")
      BY <1>6, <2>2, <3>2 DEF LosesOnly
    <3> QED BY <3>2, <3>3
  <2>3. CASE ttmr.m # "RT" /\ ttmr.m # "SR"
    <3>1. q = q1
      BY <1>5, <2>3
    <3>2. LosesOnly(q1, q1, "tick_restart")
      BY DEF LosesOnly
    <3> QED BY <1>3, <1>6, <1>7, <2>3, <3>1, <3>2
  <2> QED BY <2>1, <2>2, <2>3
<1>9. /\ SameJobs(q, agenda, Others)
      /\ AtMostOne(q, "tick_raise_except")
      /\ ~new.ip => Without(q, "tick_raise_except")
      /\ new.ip => ~Without(q, "tick_raise_except")
  <2>1. PICK f \in {"tick_restart", "tick_one_shot"} : LosesOnly(q, q1, f)
    BY <1>8
  <2>2. f \notin Others \cup {"tick_raise_except"}
    BY DEF Others
  <2>3. SameJobs(q, q1, Others \cup {"tick_raise_except"})
    BY <1>3, <1>8, <2>1, <2>2, LosesSame
  <2>4. SameJobs(q, agenda, Others)
    BY <1>4, <2>3 DEF SameJobs
  <2> QED BY <1>3, <1>4, <2>3, <2>4 DEF SameJobs, TickJobs
<1>10. r = CASE new.m = "off" -> IF n = 0 THEN Raise(q) ELSE q
             [] new.m = "RT" -> Raise(AddJob(q, "tick_restart", n))
             [] new.m = "SR" -> IF cnt THEN Raise(AddJob(q, "tick_one_shot", n))
                                ELSE q
             [] new.m = "CR" -> Raise(q)
  BY DEF sched_timer_job, q, n
<1>11. new.m \in TickModes /\ new.ie \in BOOLEAN /\ new.ip \in BOOLEAN
  BY DEF TtmrWords
<1> HIDE DEF Raise, r
<1>A. ASSUME NEW s \in QueueOf(JobFuncs), Ordered(s),
             SameJobs(s, q, Others \cup {"tick_raise_except"})
      PROVE  /\ Raise(s) \in QueueOf(JobFuncs) /\ Ordered(Raise(s))
             /\ SameJobs(Raise(s), agenda, Others)
             /\ SameJobs(Raise(s), s, {"tick_restart", "tick_one_shot"})
             /\ AtMostOne(Raise(s), "tick_raise_except")
             /\ ~new.ie => Without(Raise(s), "tick_raise_except")
             /\ new.ip => ~Without(Raise(s), "tick_raise_except")
             /\ (new.ie /\ ~new.ip) =>
                  /\ Holds(Raise(s), "tick_raise_except", n)
                  /\ \A h : (h # "tick_raise_except" /\ AtMostOne(s, h)
                               /\ Holds(s, h, n))
                        => InFront(Raise(s), "tick_raise_except", h)
  <2>1. /\ AtMostOne(s, "tick_raise_except")
        /\ ~new.ip => Without(s, "tick_raise_except")
        /\ new.ip => ~Without(s, "tick_raise_except")
        /\ SameJobs(s, agenda, Others)
    BY <1>9, <1>A DEF SameJobs
  <2>2. CASE new.ie /\ ~new.ip
    <3>1. Raise(s) = AddJob(s, "tick_raise_except", n)
      BY <2>2 DEF Raise
    <3>2. /\ Raise(s) \in QueueOf(JobFuncs) /\ Ordered(Raise(s))
          /\ GainsOnly(Raise(s), s, "tick_raise_except")
          /\ Holds(Raise(s), "tick_raise_except", n)
          /\ AtMostOne(Raise(s), "tick_raise_except")
          /\ \A h : (h # "tick_raise_except" /\ AtMostOne(s, h)
                      /\ Holds(s, h, n))
                     => InFront(Raise(s), "tick_raise_except", h)
      <4>1. "tick_raise_except" \in JobFuncs
        BY DEF JobFuncs, TickJobs
      <4> QED BY <1>2, <1>A, <2>1, <2>2, <3>1, <4>1, AddJobProps
    <3>3. SameJobs(Raise(s), s, Others \cup {"tick_restart", "tick_one_shot"})
      <4>1. "tick_raise_except" \notin Others \cup {"tick_restart", "tick_one_shot"}
        BY DEF Others
      <4> QED BY <1>A, <3>2, <4>1, GainsSame
    <3>4. /\ SameJobs(Raise(s), agenda, Others)
          /\ SameJobs(Raise(s), s, {"tick_restart", "tick_one_shot"})
      BY <2>1, <3>3 DEF SameJobs
    <3> QED BY <2>2, <3>2, <3>4
  <2>3. CASE ~(new.ie /\ ~new.ip)
    <3>1. Raise(s) = s
      BY <2>3 DEF Raise
    <3>2. SameJobs(s, s, {"tick_restart", "tick_one_shot"})
      BY DEF SameJobs
    <3> QED BY <1>11, <1>A, <2>1, <2>3, <3>1, <3>2
  <2> QED BY <2>2, <2>3
<1>B. ASSUME NEW f \in {"tick_restart", "tick_one_shot"}
      PROVE  LET s == AddJob(q, f, n) IN
             /\ s \in QueueOf(JobFuncs) /\ Ordered(s)
             /\ SameJobs(s, q, Others \cup {"tick_raise_except"})
             /\ AtMostOne(s, f) /\ Holds(s, f, n) /\ ~Without(s, f)
             /\ \A g \in {"tick_restart", "tick_one_shot"} \ {f} : Without(s, g)
  <2> DEFINE s == AddJob(q, f, n)
  <2>1. f \in JobFuncs /\ f \notin Others \cup {"tick_raise_except"}
    BY DEF JobFuncs, TickJobs, Others
  <2>2. Without(q, f)
    BY <1>8
  <2>3. /\ s \in QueueOf(JobFuncs) /\ Ordered(s)
        /\ GainsOnly(s, q, f) /\ Holds(s, f, n) /\ AtMostOne(s, f)
    BY <1>2, <1>8, <2>1, <2>2, AddJobProps
  <2> HIDE DEF s
  <2>4. SameJobs(s, q, Others \cup {"tick_raise_except"})
    BY <1>8, <2>1, <2>3, GainsSame
  <2>5. ~Without(s, f)
    BY <1>2, <2>3, HoldsSome
  <2>6. \A g \in {"tick_restart", "tick_one_shot"} \ {f} : Without(s, g)
    BY <1>8, <2>3 DEF GainsOnly
  <2> QED BY <2>3, <2>4, <2>5, <2>6 DEF s
<1>C. SameJobs(q, q, Others \cup {"tick_raise_except"})
  BY DEF SameJobs
<1>D. AtMostOne(q, "tick_restart") /\ AtMostOne(q, "tick_one_shot")
  BY <1>8 DEF AtMostOne, Without
<1>E. CASE (new.m = "off" /\ n # 0) \/ (new.m = "SR" /\ ~cnt)
  <2>1. r = q
    BY <1>10, <1>E
  <2>2. cnt = FALSE
    BY <1>E
  <2>3. JobsOK(q, new, cnt)
    BY <1>8, <1>9, <1>D, <1>E, <2>2 DEF JobsOK, TickJobs
  <2>4. OnTime(q, new, c, cnt)
    BY <2>2 DEF OnTime
  <2> QED BY <1>8, <1>9, <2>1, <2>3, <2>4 DEF r
<1>F. CASE (new.m = "off" /\ n = 0) \/ new.m = "CR"
  <2>1. r = Raise(q)
    BY <1>10, <1>F
  <2>2. /\ Without(Raise(q), "tick_restart") /\ Without(Raise(q), "tick_one_shot")
        /\ AtMostOne(Raise(q), "tick_restart")
        /\ AtMostOne(Raise(q), "tick_one_shot")
    BY <1>8, <1>A, <1>C, <1>D DEF SameJobs
  <2>3. JobsOK(Raise(q), new, cnt)
    BY <1>8, <1>A, <1>C, <1>F, <2>2 DEF JobsOK, TickJobs
  <2>4. OnTime(Raise(q), new, c, cnt)
    BY <1>2, <1>8, <1>A, <1>C DEF OnTime
  <2> QED BY <1>8, <1>A, <1>C, <2>1, <2>3, <2>4 DEF r
<1>G. CASE new.m = "RT"
  <2> DEFINE s == AddJob(q, "tick_restart", n)
  <2>1. r = Raise(s)
    BY <1>10, <1>G
  <2>2. /\ s \in QueueOf(JobFuncs) /\ Ordered(s)
        /\ SameJobs(s, q, Others \cup {"tick_raise_except"})
        /\ AtMostOne(s, "tick_restart") /\ Holds(s, "tick_restart", n)
        /\ ~Without(s, "tick_restart") /\ Without(s, "tick_one_shot")
    BY <1>B
  <2> HIDE DEF s
  <2>3. /\ ~Without(r, "tick_restart") /\ Without(r, "tick_one_shot")
        /\ AtMostOne(r, "tick_restart") /\ AtMostOne(r, "tick_one_shot")
    <3>1. AtMostOne(s, "tick_one_shot")
      BY <2>2 DEF AtMostOne, Without
    <3> QED BY <1>A, <2>1, <2>2, <3>1 DEF SameJobs
  <2>4. (new.ie /\ ~new.ip) => InFront(r, "tick_raise_except", "tick_restart")
    BY <1>A, <2>1, <2>2
  <2>5. JobsOK(r, new, cnt)
    BY <1>A, <1>G, <2>1, <2>2, <2>3, <2>4 DEF JobsOK, TickJobs
  <2>6. OnTime(r, new, c, cnt)
    BY <1>2, <1>A, <2>1, <2>2 DEF OnTime
  <2> QED BY <1>A, <2>1, <2>2, <2>5, <2>6 DEF r
<1>H. CASE new.m = "SR" /\ cnt
  <2> DEFINE s == AddJob(q, "tick_one_shot", n)
  <2>1. r = Raise(s)
    BY <1>10, <1>H
  <2>2. /\ s \in QueueOf(JobFuncs) /\ Ordered(s)
        /\ SameJobs(s, q, Others \cup {"tick_raise_except"})
        /\ AtMostOne(s, "tick_one_shot")
        /\ ~Without(s, "tick_one_shot") /\ Without(s, "tick_restart")
    BY <1>B
  <2> HIDE DEF s
  <2>3. /\ ~Without(r, "tick_one_shot") /\ Without(r, "tick_restart")
        /\ AtMostOne(r, "tick_restart") /\ AtMostOne(r, "tick_one_shot")
    <3>1. AtMostOne(s, "tick_restart")
      BY <2>2 DEF AtMostOne, Without
    <3> QED BY <1>A, <2>1, <2>2, <3>1 DEF SameJobs
  <2>5. JobsOK(r, new, cnt)
    BY <1>A, <1>H, <2>1, <2>2, <2>3 DEF JobsOK, TickJobs
  <2>6. OnTime(r, new, c, cnt)
    BY <1>2, <1>A, <2>1, <2>2 DEF OnTime
  <2> QED BY <1>A, <2>1, <2>2, <2>5, <2>6 DEF r
<1> QED BY <1>11, <1>E, <1>F, <1>G, <1>H DEF TickModes

-----------------------------------------------------------------------------
(* A queue of one job.                                                     *)
LEMMA FreshQueue ==
  LET q == <<Job("check_int", 1)>> IN
  /\ q \in QueueOf(JobFuncs) /\ Ordered(q) /\ q[1].due = 1
  /\ ~Without(q, "check_int")
  /\ \A f \in TickJobs : Without(q, f)
<1> DEFINE e == Job("check_int", 1)
           q == <<e>>
<1>1. e \in [func : JobFuncs, due : Int] /\ e.func = "check_int" /\ e.due = 1
  BY DEF Job, JobFuncs
<1> HIDE DEF e
<1>2. q \in Seq([func : JobFuncs, due : Int]) /\ Len(q) = 1 /\ q[1] = e
  BY <1>1
<1> HIDE DEF q
<1>3. q \in QueueOf(JobFuncs)
  BY <1>2 DEF QueueOf
<1>4. Ordered(q)
  BY <1>1, <1>2 DEF Ordered
<1>5. ~Without(q, "check_int") /\ \A f \in TickJobs : Without(q, f)
  BY <1>1, <1>2 DEF Without, TickJobs
<1> QED BY <1>1, <1>2, <1>3, <1>4, <1>5 DEF q, e

(* A timer that is off has no jobs.                                        *)
LEMMA TimerOff ==
  ASSUME NEW q \in QueueOf(JobFuncs), \A f \in TickJobs : Without(q, f)
  PROVE  /\ JobsOK(q, Ttmr("off", FALSE, 0), FALSE)
         /\ \A c : OnTime(q, Ttmr("off", FALSE, 0), c, FALSE)
<1>1. \A f \in TickJobs : AtMostOne(q, f)
  BY DEF AtMostOne, Without
<1>2. JobsOK(q, Ttmr("off", FALSE, 0), FALSE)
  BY <1>1 DEF JobsOK, Ttmr, TickJobs
<1> QED BY <1>2 DEF OnTime

(* The invariant holds after reset.                                        *)
LEMMA InitIInv == Init => IInv
<1> SUFFICES ASSUME Init PROVE IInv
  OBVIOUS
<1>1. agenda = <<Job("check_int", 1)>>
  BY DEF Init
<1>2. /\ agenda \in QueueOf(JobFuncs) /\ Ordered(agenda) /\ agenda[1].due = 1
      /\ ~Without(agenda, "check_int")
      /\ \A f \in TickJobs : Without(agenda, f)
  BY <1>1, FreshQueue
<1>3. QueueInv
  BY <1>2 DEF QueueInv
<1>4. DeliveryQueued
  BY DEF Init, DeliveryQueued
<1>5. JobsOK(agenda, ttmr, counting) /\ OnTime(agenda, ttmr, ttcr, counting)
  BY <1>2, TimerOff DEF Init
<1>6. TypeOK
  <2>1. Ttmr("off", FALSE, 0) \in TtmrWords
    BY TickAssumption DEF Ttmr, TtmrWords, TickModes
  <2>2. 0 \in 0..(REGMOD - 1)
    BY TickAssumption
  <2>3. NoInts \in SRs /\ "reset" \in Codes /\ "prog" \in Codes
    BY DEF NoInts, SRs, Codes, Vectors
  <2>4. edge_trigger \in BOOLEAN /\ picmr \subseteq Lines /\ soft = {}
    BY PicAssumption DEF Init
  <2> QED BY <1>2, <2>1, <2>2, <2>3, <2>4 DEF Init, TypeOK, QueueOf
<1> QED BY <1>3, <1>4, <1>5, <1>6 DEF IInv

(* Adding jobs of others keeps what the invariant says of the queue.       *)
LEMMA GainInv ==
  ASSUME IInv, NEW r \in QueueOf(JobFuncs), NEW f, f \notin TickJobs,
         GainsOnly(r, agenda, f)
  PROVE  /\ ~Without(r, "check_int")
         /\ JobsOK(r, ttmr, counting) /\ OnTime(r, ttmr, ttcr, counting)
         /\ \A d : Holds(agenda, "pic_rep_int", d) => Holds(r, "pic_rep_int", d)
<1>1. /\ agenda \in QueueOf(JobFuncs) /\ ~Without(agenda, "check_int")
      /\ JobsOK(agenda, ttmr, counting) /\ OnTime(agenda, ttmr, ttcr, counting)
  BY DEF IInv, QueueInv
<1>2. SameJobs(r, agenda, TickJobs)
  BY <1>1, GainsSame
<1>3. JobsOK(r, ttmr, counting) /\ OnTime(r, ttmr, ttcr, counting)
  BY <1>1, <1>2, TickKept
<1>4. ~Without(r, "check_int")
  BY <1>1, HoldsSome DEF GainsOnly
<1> QED BY <1>3, <1>4 DEF GainsOnly

(* A queue that stays the same gains nothing else.                         *)
LEMMA GainRefl == \A q, f : GainsOnly(q, q, f)
BY DEF GainsOnly

(* Taking the front job.                                                   *)
LEMMA PopInv ==
  ASSUME IInv
  PROVE  LET q == Tail(agenda) IN
         /\ q \in QueueOf(JobFuncs) /\ Ordered(q)
         /\ LosesOnly(q, agenda, agenda[1].func)
         /\ agenda[1].func # "check_int" => ~Without(q, "check_int")
         /\ agenda[1].func \notin TickJobs =>
              JobsOK(q, ttmr, counting) /\ OnTime(q, ttmr, ttcr, counting)
         /\ agenda[1].func \in TickJobs => Without(q, agenda[1].func)
<1> DEFINE q == Tail(agenda)
<1>1. /\ agenda \in QueueOf(JobFuncs) /\ ~Without(agenda, "check_int")
      /\ Ordered(agenda)
      /\ JobsOK(agenda, ttmr, counting) /\ OnTime(agenda, ttmr, ttcr, counting)
  BY DEF IInv, QueueInv
<1>2. Len(agenda) > 0
  BY <1>1, NotEmpty
<1>3. /\ q \in QueueOf(JobFuncs) /\ Ordered(q)
      /\ LosesOnly(q, agenda, agenda[1].func)
      /\ AtMostOne(agenda, agenda[1].func) => Without(q, agenda[1].func)
  BY <1>1, <1>2, TailProps
<1> HIDE DEF q
<1>4. agenda[1].func # "check_int" => ~Without(q, "check_int")
  BY <1>1, <1>3, HoldsSome DEF LosesOnly
<1>5. ASSUME agenda[1].func \notin TickJobs
      PROVE  JobsOK(q, ttmr, counting) /\ OnTime(q, ttmr, ttcr, counting)
  <2>1. SameJobs(q, agenda, TickJobs)
    BY <1>1, <1>3, <1>5, LosesSame
  <2> QED BY <1>1, <2>1, TickKept
<1>6. agenda[1].func \in TickJobs => Without(q, agenda[1].func)
  BY <1>1, <1>3 DEF JobsOK
<1> QED BY <1>3, <1>4, <1>5, <1>6 DEF q

(* The mode after do_scheduler()'s test of the front job.                  *)
LEMMA ContinueInv ==
  ASSUME agenda' \in QueueOf(JobFuncs), ~Without(agenda', "check_int"), Continue
  PROVE  /\ mode' \in {"insn", "sched"}
         /\ mode' = "insn" => agenda'[1].due > 0
<1>1. agenda'[1].due \in Int
  BY NotEmpty
<1> QED BY <1>1 DEF Continue, Expired

(* Nothing that is due is left when an instruction starts.                 *)
LEMMA Precise == IInv => PreciseDelivery
<1> SUFFICES ASSUME IInv, mode = "insn", sr.iee, (picsr \ soft) \cap picmr # {}
             PROVE  FALSE
  BY DEF PreciseDelivery
<1>1. PICK d \in Int : d <= 0 /\ Holds(agenda, "pic_rep_int", d)
  BY DEF IInv, DeliveryQueued
<1>2. PICK i \in 1..Len(agenda) : agenda[i].due = d
  BY <1>1 DEF Holds
<1>3. /\ agenda \in QueueOf(JobFuncs) /\ Ordered(agenda)
      /\ agenda[1].due > 0 /\ ~Without(agenda, "check_int")
  BY DEF IInv, QueueInv
<1>4. Len(agenda) \in Nat /\ agenda[1].due \in Int
  BY <1>3, NotEmpty, QueueType
<1>5. agenda[1].due <= agenda[i].due
  BY <1>2, <1>3, <1>4 DEF Ordered
<1> QED BY <1>1, <1>2, <1>3, <1>4, <1>5

(* Queueing the delivery job, or not.                                      *)
LEMMA DeliveryJob ==
  ASSUME NEW q \in QueueOf(JobFuncs), Ordered(q), NEW b \in BOOLEAN,
         NEW r, r = IF b THEN AddJob(q, "pic_rep_int", 0) ELSE q
  PROVE  /\ r \in QueueOf(JobFuncs) /\ Ordered(r)
         /\ GainsOnly(r, q, "pic_rep_int")
         /\ b => Holds(r, "pic_rep_int", 0)
<1>1. CASE b
  <2>1. "pic_rep_int" \in JobFuncs
    BY DEF JobFuncs
  <2> QED BY <1>1, <2>1, AddJobProps
<1>2. CASE ~b
  BY <1>2, GainRefl
<1> QED BY <1>1, <1>2

-----------------------------------------------------------------------------
(* An instruction that leaves the timer alone and adds at most jobs f.     *)
LEMMA InsnStep ==
  ASSUME IInv, Insn, UNCHANGED tickvars, NEW f, f \notin TickJobs,
         agenda' \in QueueOf(JobFuncs), Ordered(agenda'),
         GainsOnly(agenda', agenda, f)
  PROVE  /\ QueueInv'
         /\ JobsOK(agenda, ttmr, counting)'
         /\ OnTime(agenda, ttmr, ttcr, counting)'
         /\ mode' = "end"
         /\ agenda' \in Seq([func : JobFuncs, due : Int])
         /\ ttmr' \in TtmrWords /\ ttcr' \in 0..(REGMOD - 1)
         /\ counting' \in BOOLEAN
         /\ ~(sr.iee /\ (picsr \ soft) \cap picmr # {})
<1>1. mode = "insn" /\ mode' = "end"
  BY DEF Insn
<1>2. /\ ~Without(agenda', "check_int")
      /\ JobsOK(agenda', ttmr, counting) /\ OnTime(agenda', ttmr, ttcr, counting)
  BY GainInv
<1>3. ttmr' = ttmr /\ ttcr' = ttcr /\ counting' = counting
  BY DEF tickvars
<1>4. JobsOK(agenda', ttmr', counting') /\ OnTime(agenda', ttmr', ttcr', counting')
  BY <1>2, <1>3
<1>5. ~(sr.iee /\ (picsr \ soft) \cap picmr # {})
  BY <1>1, Precise DEF PreciseDelivery
<1>6. QueueInv'
  BY <1>1, <1>2 DEF QueueInv
<1>7. agenda' \in Seq([func : JobFuncs, due : Int])
  BY DEF QueueOf
<1>8. ttmr \in TtmrWords /\ ttcr \in 0..(REGMOD - 1) /\ counting \in BOOLEAN
  BY DEF IInv, TypeOK
<1> QED BY <1>1, <1>3, <1>4, <1>5, <1>6, <1>7, <1>8

(* One instruction keeps the invariant.                                    *)
LEMMA InsnIInv ==
  ASSUME IInv,
         \/ InsnOther \/ InsnRfe \/ InsnSys
         \/ \E v \in SRs : InsnMtsprSr(v)
         \/ \E s \in SUBSET Lines : InsnMtsprPicmr(s)
         \/ \E s \in SUBSET Lines : InsnMtsprPicsr(s)
         \/ \E v \in TtmrValues : InsnMtsprTtmr(v)
         \/ \E v \in TtcrValues : InsnMtsprTtcr(v)
         \/ \E v \in Pmrs : InsnMtsprPmr(v)
         \/ \E l \in Lines, d \in Delays : InsnStart(l, d)
         \/ \E l \in Lines : InsnReport(l) \/ InsnClear(l)
  PROVE  IInv'
<1>1. /\ TypeOK /\ QueueInv
      /\ agenda \in QueueOf(JobFuncs) /\ Ordered(agenda)
  BY DEF IInv, QueueInv
<1>2. "pic_rep_int" \notin TickJobs /\ "pic_rep_int" \in JobFuncs
  BY DEF TickJobs, JobFuncs
<1>3. sr \in SRs /\ esr \in SRs /\ pc \in Codes /\ epcr \in Codes
      /\ picmr \subseteq Lines /\ picsr \subseteq Lines /\ pmr \subseteq PmrBits
      /\ edge_trigger \in BOOLEAN /\ soft \subseteq picsr
  BY <1>1 DEF TypeOK
<1>4. NoInts \in SRs /\ "prog" \in Codes /\ "syscall" \in Codes
  BY DEF NoInts, SRs, Codes, Vectors
<1>5. CASE InsnOther
  <2> USE <1>5 DEF InsnOther
  <2>1. Insn /\ agenda' = agenda /\ UNCHANGED tickvars
        /\ UNCHANGED <<sr, esr, epcr, picvars>> /\ pc' \in {pc, "prog"}
    OBVIOUS
  <2>2. GainsOnly(agenda', agenda, "pic_rep_int")
    BY <2>1, GainRefl
  <2>3. /\ QueueInv' /\ JobsOK(agenda, ttmr, counting)'
        /\ OnTime(agenda, ttmr, ttcr, counting)' /\ mode' = "end"
        /\ agenda' \in Seq([func : JobFuncs, due : Int])
        /\ ttmr' \in TtmrWords /\ ttcr' \in 0..(REGMOD - 1)
        /\ counting' \in BOOLEAN
        /\ ~(sr.iee /\ (picsr \ soft) \cap picmr # {})
    BY <1>1, <1>2, <2>1, <2>2, InsnStep
  <2>4. TypeOK'
    BY <1>3, <1>4, <2>1, <2>3 DEF TypeOK, picvars
  <2>5. DeliveryQueued'
    BY <2>1, <2>3 DEF DeliveryQueued, picvars
  <2> QED BY <2>3, <2>4, <2>5 DEF IInv
<1>6. ASSUME NEW v \in SRs, Insn, sr' = v,
             agenda' = IF v.iee /\ ~sr.iee THEN pic_ints_en(agenda, picmr, picsr)
                       ELSE agenda,
             soft' = IF v.iee /\ ~sr.iee THEN {} ELSE soft,
             esr' = esr, epcr' = epcr, pc' \in Codes,
             UNCHANGED <<picmr, picsr, pmr, edge_trigger>>, UNCHANGED tickvars
      PROVE  IInv'
  <2> DEFINE b == (v.iee /\ ~sr.iee) /\ picmr \cap picsr # {}
  <2>1. agenda' = IF b THEN AddJob(agenda, "pic_rep_int", 0) ELSE agenda
    BY <1>6 DEF pic_ints_en
  <2>2. /\ agenda' \in QueueOf(JobFuncs) /\ Ordered(agenda')
        /\ GainsOnly(agenda', agenda, "pic_rep_int")
        /\ b => Holds(agenda', "pic_rep_int", 0)
    <3>1. b \in BOOLEAN
      OBVIOUS
    <3> HIDE DEF b
    <3> QED BY <1>1, <2>1, <3>1, DeliveryJob
  <2>3. /\ QueueInv' /\ JobsOK(agenda, ttmr, counting)'
        /\ OnTime(agenda, ttmr, ttcr, counting)' /\ mode' = "end"
        /\ agenda' \in Seq([func : JobFuncs, due : Int])
        /\ ttmr' \in TtmrWords /\ ttcr' \in 0..(REGMOD - 1)
        /\ counting' \in BOOLEAN
        /\ ~(sr.iee /\ (picsr \ soft) \cap picmr # {})
    BY <1>1, <1>2, <1>6, <2>2, InsnStep
  <2>4. TypeOK'
    BY <1>3, <1>6, <2>3 DEF TypeOK
  <2>5. DeliveryQueued'
    <3>1. (v.iee /\ (picsr \ soft') \cap picmr # {})
             => Holds(agenda', "pic_rep_int", 0)
      BY <1>6, <2>2, <2>3
    <3>2. sr' = v /\ picsr' = picsr /\ picmr' = picmr
      BY <1>6
    <3> QED BY <3>1, <3>2 DEF DeliveryQueued
  <2> QED BY <2>3, <2>4, <2>5 DEF IInv
<1>7. CASE InsnRfe
  BY <1>3, <1>6, <1>7 DEF InsnRfe, SetSr
<1>8. ASSUME NEW v \in SRs, InsnMtsprSr(v) PROVE IInv'
  BY <1>3, <1>6, <1>8 DEF InsnMtsprSr, SetSr
<1>9. CASE InsnSys
  <2>1. Insn /\ agenda' = agenda /\ UNCHANGED tickvars /\ UNCHANGED picvars
        /\ pc' = "syscall" /\ esr' = sr /\ sr' = NoInts /\ epcr' = pc
    BY <1>9 DEF InsnSys, except_handle
  <2>2. GainsOnly(agenda', agenda, "pic_rep_int")
    BY <2>1, GainRefl
  <2>3. /\ QueueInv' /\ JobsOK(agenda, ttmr, counting)'
        /\ OnTime(agenda, ttmr, ttcr, counting)' /\ mode' = "end"
        /\ agenda' \in Seq([func : JobFuncs, due : Int])
        /\ ttmr' \in TtmrWords /\ ttcr' \in 0..(REGMOD - 1)
        /\ counting' \in BOOLEAN
    BY <1>1, <1>2, <2>1, <2>2, InsnStep
  <2>4. TypeOK'
    BY <1>3, <1>4, <2>1, <2>3 DEF TypeOK, picvars
  <2>5. DeliveryQueued'
    BY <2>1 DEF DeliveryQueued, NoInts
  <2> QED BY <2>3, <2>4, <2>5 DEF IInv
<1>10. ASSUME Insn, UNCHANGED excvars, UNCHANGED tickvars,
              picmr' \subseteq Lines, picsr' \subseteq Lines, soft' \subseteq picsr',
              pmr' \subseteq PmrBits, edge_trigger' \in BOOLEAN,
              agenda' \in QueueOf(JobFuncs), Ordered(agenda'),
              NEW f, f \notin TickJobs, GainsOnly(agenda', agenda, f),
              (sr.iee /\ (picsr' \ soft') \cap picmr' # {}) =>
                 \/ (picsr \ soft) \cap picmr # {}
                 \/ Holds(agenda', "pic_rep_int", 0)
       PROVE  IInv'
  <2>1. sr' = sr /\ esr' = esr /\ pc' = pc /\ epcr' = epcr
    BY <1>10 DEF excvars
  <2>3. /\ QueueInv' /\ JobsOK(agenda, ttmr, counting)'
        /\ OnTime(agenda, ttmr, ttcr, counting)' /\ mode' = "end"
        /\ agenda' \in Seq([func : JobFuncs, due : Int])
        /\ ttmr' \in TtmrWords /\ ttcr' \in 0..(REGMOD - 1)
        /\ counting' \in BOOLEAN
        /\ ~(sr.iee /\ (picsr \ soft) \cap picmr # {})
    BY <1>10, InsnStep
  <2>4. TypeOK'
    BY <1>3, <1>10, <2>1, <2>3 DEF TypeOK
  <2>5. DeliveryQueued'
    BY <1>10, <2>1, <2>3 DEF DeliveryQueued
  <2> QED BY <2>3, <2>4, <2>5 DEF IInv
<1>11. ASSUME NEW s \in SUBSET Lines, InsnMtsprPicmr(s) PROVE IInv'
  <2> DEFINE b == sr.iee /\ picmr' \cap picsr # {}
  <2>1. /\ Insn /\ UNCHANGED excvars /\ UNCHANGED tickvars
        /\ picmr' = s \cup NmiLines /\ picsr' = picsr /\ pmr' = pmr
        /\ edge_trigger' = edge_trigger /\ soft' = (IF sr.iee THEN {} ELSE soft)
        /\ agenda' = IF b THEN AddJob(agenda, "pic_rep_int", 0) ELSE agenda
    BY <1>11 DEF InsnMtsprPicmr, MtsprPicmr, pic_ints_en
  <2>2. /\ agenda' \in QueueOf(JobFuncs) /\ Ordered(agenda')
        /\ GainsOnly(agenda', agenda, "pic_rep_int")
        /\ b => Holds(agenda', "pic_rep_int", 0)
    <3>1. b \in BOOLEAN
      BY <1>3 DEF SRs
    <3>2. agenda' = IF b THEN AddJob(agenda, "pic_rep_int", 0) ELSE agenda
      BY <2>1
    <3> HIDE DEF b
    <3> QED BY <1>1, <3>1, <3>2, DeliveryJob
  <2>3. picmr' \subseteq Lines /\ soft' \subseteq picsr'
    BY <1>3, <2>1, PicAssumption
  <2>4. (sr.iee /\ (picsr' \ soft') \cap picmr' # {}) => b
    BY <2>1
  <2> HIDE DEF b
  <2> QED BY <1>2, <1>3, <1>10, <2>1, <2>2, <2>3, <2>4
<1>12. ASSUME NEW s \in SUBSET Lines, InsnMtsprPicsr(s) PROVE IInv'
  <2>1. /\ Insn /\ UNCHANGED excvars /\ UNCHANGED tickvars
        /\ picsr' = (IF edge_trigger THEN s ELSE picsr)
        /\ soft' = (IF edge_trigger THEN s \ (picsr \ soft) ELSE soft)
        /\ picmr' = picmr /\ pmr' = pmr
        /\ edge_trigger' = edge_trigger /\ agenda' = agenda
    BY <1>12 DEF InsnMtsprPicsr, MtsprPicsr
  <2>2. GainsOnly(agenda', agenda, "pic_rep_int")
    BY <2>1, GainRefl
  <2>3. /\ picsr' \subseteq Lines /\ soft' \subseteq picsr'
        /\ (picsr' \ soft') \cap picmr' # {} => (picsr \ soft) \cap picmr # {}
    BY <1>3, <2>1
  <2> QED BY <1>1, <1>2, <1>3, <1>10, <2>1, <2>2, <2>3
<1>13. ASSUME NEW v \in Pmrs, InsnMtsprPmr(v) PROVE IInv'
  <2>1. /\ Insn /\ UNCHANGED excvars /\ UNCHANGED tickvars
        /\ picsr' = picsr /\ picmr' = picmr /\ pmr' \subseteq PmrBits
        /\ edge_trigger' = edge_trigger /\ soft' = soft /\ agenda' = agenda
    BY <1>13, CpuAssumption DEF InsnMtsprPmr
  <2>2. GainsOnly(agenda', agenda, "pic_rep_int")
    BY <2>1, GainRefl
  <2> QED BY <1>1, <1>2, <1>3, <1>10, <2>1, <2>2
<1>14. ASSUME NEW l \in Lines, NEW d \in Delays, InsnStart(l, d) PROVE IInv'
  <2>1. /\ Insn /\ UNCHANGED excvars /\ UNCHANGED tickvars
        /\ picsr' = picsr /\ picmr' = picmr /\ pmr' = pmr
        /\ edge_trigger' = edge_trigger /\ soft' = soft /\ agenda' = AddJob(agenda, l, d)
    BY <1>14 DEF InsnStart, picvars
  <2>2. l \in JobFuncs /\ l \notin TickJobs /\ d \in Nat
    BY JobNames, CpuAssumption
  <2>3. /\ agenda' \in QueueOf(JobFuncs) /\ Ordered(agenda')
        /\ GainsOnly(agenda', agenda, l)
    BY <1>1, <2>1, <2>2, AddJobProps
  <2> QED BY <1>3, <1>10, <2>1, <2>2, <2>3
<1>15. ASSUME NEW l \in Lines, InsnReport(l) PROVE IInv'
  <2> DEFINE b == l \notin picsr /\ l \in picmr /\ sr.iee
  <2>1. /\ Insn /\ UNCHANGED excvars /\ UNCHANGED tickvars
        /\ picmr' = picmr /\ picsr' = picsr \cup {l} /\ pmr' = pmr \ PmrBits
        /\ edge_trigger' = edge_trigger /\ soft' = soft
        /\ agenda' = IF b THEN AddJob(agenda, "pic_rep_int", 0) ELSE agenda
    BY <1>15 DEF InsnReport, report_interrupt
  <2>2. /\ agenda' \in QueueOf(JobFuncs) /\ Ordered(agenda')
        /\ GainsOnly(agenda', agenda, "pic_rep_int")
        /\ b => Holds(agenda', "pic_rep_int", 0)
    <3>1. b \in BOOLEAN
      BY <1>3 DEF SRs
    <3>2. agenda' = IF b THEN AddJob(agenda, "pic_rep_int", 0) ELSE agenda
      BY <2>1
    <3> HIDE DEF b
    <3> QED BY <1>1, <3>1, <3>2, DeliveryJob
  <2>3. picsr' \subseteq Lines /\ pmr' \subseteq PmrBits /\ soft' \subseteq picsr'
    BY <1>3, <2>1
  <2>4. (sr.iee /\ (picsr' \ soft') \cap picmr' # {}) => (picsr \ soft) \cap picmr # {} \/ b
    BY <2>1
  <2> QED BY <1>2, <1>3, <1>10, <2>1, <2>2, <2>3, <2>4
<1>16. ASSUME NEW l \in Lines, InsnClear(l) PROVE IInv'
  <2>1. /\ Insn /\ UNCHANGED excvars /\ UNCHANGED tickvars
        /\ picsr' = picsr \ {l} /\ soft' = soft \ {l}
        /\ picmr' = picmr /\ pmr' = pmr
        /\ edge_trigger' = edge_trigger /\ agenda' = agenda
    BY <1>16 DEF InsnClear, clear_interrupt
  <2>2. GainsOnly(agenda', agenda, "pic_rep_int")
    BY <2>1, GainRefl
  <2>3. /\ picsr' \subseteq Lines /\ soft' \subseteq picsr'
        /\ (picsr' \ soft') \cap picmr' # {} => (picsr \ soft) \cap picmr # {}
    BY <1>3, <2>1
  <2> QED BY <1>1, <1>2, <1>3, <1>10, <2>1, <2>2, <2>3
<1>17. ASSUME NEW new \in TtmrWords, new.ip => (ttmr.ip /\ new.ie),
              NEW c \in 0..(REGMOD - 1), NEW cnt \in BOOLEAN,
              cnt => new.m # "off",
              Insn, UNCHANGED excvars, UNCHANGED picvars,
              ttmr' = new, ttcr' = c, counting' = cnt,
              agenda' = sched_timer_job(ttmr, new, c, cnt)
       PROVE  IInv'
  <2>1. /\ sr' = sr /\ esr' = esr /\ pc' = pc /\ epcr' = epcr
        /\ picsr' = picsr /\ picmr' = picmr /\ pmr' = pmr
        /\ edge_trigger' = edge_trigger /\ soft' = soft
        /\ mode = "insn" /\ mode' = "end"
    BY <1>17 DEF excvars, picvars, Insn
  <2>2. /\ agenda' \in QueueOf(JobFuncs) /\ Ordered(agenda')
        /\ JobsOK(agenda', new, cnt) /\ OnTime(agenda', new, c, cnt)
        /\ SameJobs(agenda', agenda, Others)
    BY <1>17, TimerJobs
  <2>3. QueueInv'
    <3>1. ~Without(agenda', "check_int")
      BY <1>1, <2>2 DEF SameJobs, Others, QueueInv
    <3> QED BY <2>1, <2>2, <3>1 DEF QueueInv
  <2>4. TypeOK'
    BY <1>3, <1>17, <2>1, <2>2 DEF TypeOK, QueueOf
  <2>5. DeliveryQueued'
    BY <2>1, Precise DEF DeliveryQueued, PreciseDelivery
  <2>6. (JobsOK(agenda, ttmr, counting) /\ OnTime(agenda, ttmr, ttcr, counting))'
    BY <1>17, <2>2
  <2> QED BY <2>3, <2>4, <2>5, <2>6 DEF IInv
<1>18. ASSUME NEW v \in TtmrValues, InsnMtsprTtmr(v) PROVE IInv'
  <2> DEFINE cnt == v.m # "off" /\ ~(v.m = "CR" /\ ttcr = v.tp)
  <2>1. v \in TtmrWords /\ ~v.ip
    BY CpuAssumption
  <2>2. /\ Insn /\ UNCHANGED excvars /\ UNCHANGED picvars
        /\ ttmr' = v /\ ttcr' = ttcr /\ counting' = cnt
        /\ agenda' = sched_timer_job(ttmr, v, ttcr, cnt)
    BY <1>18 DEF InsnMtsprTtmr, MtsprTtmr
  <2>3. cnt \in BOOLEAN /\ (cnt => v.m # "off") /\ ttcr \in 0..(REGMOD - 1)
    BY <1>1 DEF TypeOK
  <2> HIDE DEF cnt
  <2> QED BY <1>17, <2>1, <2>2, <2>3
<1>19. ASSUME NEW v \in TtcrValues, InsnMtsprTtcr(v) PROVE IInv'
  <2>1. v \in 0..(REGMOD - 1)
    BY CpuAssumption
  <2>2. /\ Insn /\ UNCHANGED excvars /\ UNCHANGED picvars
        /\ ttmr' = ttmr /\ ttcr' = v /\ counting' = counting
        /\ agenda' = sched_timer_job(ttmr, ttmr, v, counting)
    BY <1>19 DEF InsnMtsprTtcr, MtsprTtcr
  <2>3. ttmr \in TtmrWords /\ counting \in BOOLEAN
    BY <1>1 DEF TypeOK
  <2>4. (counting => ttmr.m # "off") /\ (ttmr.ip => ttmr.ie)
    BY <2>3 DEF IInv, JobsOK
  <2> QED BY <1>17, <2>1, <2>2, <2>3, <2>4
<1> QED
  BY <1>5, <1>7, <1>8, <1>9, <1>11, <1>12, <1>13, <1>14, <1>15, <1>16, <1>18,
     <1>19

(* The end of a round: interrupts of the library's caller are reported and *)
(* cleared, then the cycles pass.                                          *)
LEMMA EndIInv ==
  ASSUME IInv, NEW c \in Cycles, NEW set \in ExtInts, NEW clr \in ExtInts,
         EndInsn(c, set, clr)
  PROVE  IInv'
<1> DEFINE new == {l \in set \ picsr : l \in picmr /\ sr.iee}
           n == Cardinality(new)
           q == AddJobs(agenda, "pic_rep_int", 0, n)
<1>1. /\ picsr' = (picsr \cup set) \ clr
      /\ pmr' = (IF set # {} THEN pmr \ PmrBits ELSE pmr)
      /\ agenda' = Elapse(q, c)
      /\ ttcr' = (IF counting THEN (ttcr + c) % REGMOD ELSE ttcr)
      /\ UNCHANGED excvars /\ picmr' = picmr /\ edge_trigger' = edge_trigger
      /\ soft' = soft \ clr
      /\ ttmr' = ttmr /\ counting' = counting
      /\ Continue
  BY DEF EndInsn
<1>2. /\ agenda \in QueueOf(JobFuncs) /\ Ordered(agenda)
      /\ c \in Nat /\ c > 0 /\ set \subseteq Lines
      /\ sr \in SRs /\ esr \in SRs /\ pc \in Codes /\ epcr \in Codes
      /\ picmr \subseteq Lines /\ picsr \subseteq Lines /\ pmr \subseteq PmrBits
      /\ edge_trigger \in BOOLEAN /\ soft \subseteq picsr
      /\ ttmr \in TtmrWords /\ ttcr \in 0..(REGMOD - 1) /\ counting \in BOOLEAN
  BY CpuAssumption DEF IInv, QueueInv, TypeOK
<1>3. n \in Nat /\ (new # {} => n > 0)
  <2>1. new \subseteq Lines /\ IsFiniteSet(Lines)
    BY <1>2, CpuAssumption
  <2> HIDE DEF new
  <2>2. IsFiniteSet(new)
    BY <2>1, FS_Subset
  <2> QED BY <2>2, FS_CardinalityType, FS_EmptySet
<1>4. /\ q \in QueueOf(JobFuncs) /\ Ordered(q)
      /\ GainsOnly(q, agenda, "pic_rep_int")
      /\ new # {} => Holds(q, "pic_rep_int", 0)
  <2>1. "pic_rep_int" \in JobFuncs
    BY DEF JobFuncs
  <2> HIDE DEF n, new
  <2> QED BY <1>2, <1>3, <2>1, AddJobsProps
<1>5. /\ ~Without(q, "check_int")
      /\ JobsOK(q, ttmr, counting) /\ OnTime(q, ttmr, ttcr, counting)
      /\ \A d : Holds(agenda, "pic_rep_int", d) => Holds(q, "pic_rep_int", d)
  <2>1. "pic_rep_int" \notin TickJobs
    BY DEF TickJobs
  <2> HIDE DEF q
  <2> QED BY <1>4, <2>1, GainInv
<1>6. /\ agenda' \in QueueOf(JobFuncs) /\ Ordered(agenda')
      /\ \A g : \A d \in Int : Holds(q, g, d) => Holds(agenda', g, d - c)
      /\ \A g : Without(q, g) <=> Without(agenda', g)
      /\ \A g : AtMostOne(q, g) => AtMostOne(agenda', g)
      /\ \A g, h : InFront(q, g, h) => InFront(agenda', g, h)
  <2> HIDE DEF q
  <2> QED BY <1>1, <1>2, <1>4, ElapseProps
<1>7. DeliveryQueued'
  <2>1. SUFFICES ASSUME sr.iee, (picsr' \ soft') \cap picmr # {}
                 PROVE  \E d \in Int : d <= 0 /\ Holds(agenda', "pic_rep_int", d)
    BY <1>1 DEF DeliveryQueued, excvars
  <2>2. (picsr \ soft) \cap picmr # {} \/ new # {}
    BY <1>1, <2>1
  <2>3. \E d \in Int : d <= 0 /\ Holds(q, "pic_rep_int", d)
    <3>1. CASE (picsr \ soft) \cap picmr # {}
      BY <1>5, <2>1, <3>1 DEF IInv, DeliveryQueued
    <3>2. CASE new # {}
      BY <1>4, <3>2
    <3> QED BY <2>2, <3>1, <3>2
  <2>4. PICK d \in Int : d <= 0 /\ Holds(q, "pic_rep_int", d)
    BY <2>3
  <2>5. d - c \in Int /\ d - c <= 0 /\ Holds(agenda', "pic_rep_int", d - c)
    BY <1>2, <1>6, <2>4
  <2> QED BY <2>5
<1> HIDE DEF q, new, n
<1>8. QueueInv'
  <2>1. ~Without(agenda', "check_int")
    BY <1>5, <1>6
  <2>2. mode' = "insn" => agenda'[1].due > 0
    BY <1>1, <1>6, <2>1, ContinueInv
  <2> QED BY <1>6, <2>1, <2>2 DEF QueueInv
<1>9. JobsOK(agenda, ttmr, counting)'
  <2>1. JobsOK(agenda', ttmr, counting)
    BY <1>5, <1>6 DEF JobsOK
  <2> QED BY <1>1, <2>1
<1>10. ttcr' \in 0..(REGMOD - 1)
  BY <1>1, <1>2, WrapKeepsMatch, TickAssumption
<1>11. OnTime(agenda, ttmr, ttcr, counting)'
  <2>1. SUFFICES ASSUME ttmr.ie, ~ttmr.ip, counting
                 PROVE  \E d \in Int : /\ Holds(agenda', "tick_raise_except", d)
                                       /\ (ttcr' + d) % TPMOD = ttmr.tp
    BY <1>1 DEF OnTime
  <2>2. PICK d \in Int : /\ Holds(q, "tick_raise_except", d)
                         /\ (ttcr + d) % TPMOD = ttmr.tp
    BY <1>5, <2>1 DEF OnTime
  <2>3. ttcr' = (ttcr + c) % REGMOD /\ ttcr \in Nat
    BY <1>1, <1>2, <2>1
  <2>4. (((ttcr + c) % REGMOD) + (d - c)) % TPMOD = (ttcr + d) % TPMOD
    BY <1>2, <2>3, WrapKeepsMatch
  <2>5. Holds(agenda', "tick_raise_except", d - c) /\ d - c \in Int
    BY <1>2, <1>6, <2>2
  <2> QED BY <2>2, <2>3, <2>4, <2>5
<1>12. TypeOK'
  <2>1. mode' \in {"insn", "sched"}
    BY <1>1, <1>5, <1>6, ContinueInv
  <2>2. picsr' \subseteq Lines /\ pmr' \subseteq PmrBits /\ soft' \subseteq picsr'
    BY <1>1, <1>2
  <2> QED BY <1>1, <1>2, <1>6, <1>10, <2>1, <2>2 DEF TypeOK, QueueOf, excvars
<1> QED BY <1>7, <1>8, <1>9, <1>11, <1>12 DEF IInv

(* Running a job that is not the timer's: it leaves the queue q without    *)
(* that job and adds at most jobs f.                                       *)
LEMMA JobStep ==
  ASSUME IInv, UNCHANGED tickvars, agenda[1].func \notin TickJobs,
         NEW f, f \notin TickJobs, agenda' \in QueueOf(JobFuncs), Ordered(agenda'),
         GainsOnly(agenda', Tail(agenda), f),
         agenda[1].func = "check_int" => ~Without(agenda', "check_int"),
         Continue
  PROVE  /\ QueueInv'
         /\ JobsOK(agenda, ttmr, counting)'
         /\ OnTime(agenda, ttmr, ttcr, counting)'
         /\ mode' \in {"insn", "sched"}
         /\ agenda' \in Seq([func : JobFuncs, due : Int])
         /\ ttmr' \in TtmrWords /\ ttcr' \in 0..(REGMOD - 1)
         /\ counting' \in BOOLEAN
         /\ agenda[1].func # "pic_rep_int" =>
              \A d : Holds(agenda, "pic_rep_int", d)
                      => Holds(agenda', "pic_rep_int", d)
<1> DEFINE q == Tail(agenda)
<1>1. /\ q \in QueueOf(JobFuncs) /\ Ordered(q)
      /\ LosesOnly(q, agenda, agenda[1].func)
      /\ agenda[1].func # "check_int" => ~Without(q, "check_int")
      /\ JobsOK(q, ttmr, counting) /\ OnTime(q, ttmr, ttcr, counting)
  BY PopInv
<1>0. GainsOnly(agenda', q, f)
  OBVIOUS
<1> HIDE DEF q
<1>2. SameJobs(agenda', q, TickJobs)
  BY <1>0, <1>1, GainsSame
<1>3. JobsOK(agenda', ttmr, counting) /\ OnTime(agenda', ttmr, ttcr, counting)
  BY <1>1, <1>2, TickKept
<1>4. ttmr' = ttmr /\ ttcr' = ttcr /\ counting' = counting
  BY DEF tickvars
<1>5. JobsOK(agenda', ttmr', counting') /\ OnTime(agenda', ttmr', ttcr', counting')
  BY <1>3, <1>4
<1>6. ~Without(agenda', "check_int")
  BY <1>0, <1>1, HoldsSome DEF GainsOnly
<1>7. mode' \in {"insn", "sched"} /\ (mode' = "insn" => agenda'[1].due > 0)
  BY <1>6, ContinueInv
<1>8. QueueInv'
  BY <1>6, <1>7 DEF QueueInv
<1>9. ttmr \in TtmrWords /\ ttcr \in 0..(REGMOD - 1) /\ counting \in BOOLEAN
  BY DEF IInv, TypeOK
<1>10. agenda' \in Seq([func : JobFuncs, due : Int])
  BY DEF QueueOf
<1>11. ASSUME agenda[1].func # "pic_rep_int", NEW d,
              Holds(agenda, "pic_rep_int", d)
       PROVE  Holds(agenda', "pic_rep_int", d)
  BY <1>0, <1>1, <1>11 DEF LosesOnly, GainsOnly
<1> QED BY <1>4, <1>5, <1>7, <1>8, <1>9, <1>10, <1>11

(* The timer's jobs: what they leave besides their own.                    *)
LEMMA TickPop ==
  ASSUME IInv, NEW f \in TickJobs, agenda[1].func = f
  PROVE  LET q == Tail(agenda) IN
         /\ q \in QueueOf(JobFuncs) /\ Ordered(q)
         /\ Without(q, f) /\ ~Without(agenda, f)
         /\ SameJobs(q, agenda, (TickJobs \ {f}) \cup Others)
         /\ ~Without(q, "check_int")
<1> DEFINE q == Tail(agenda)
<1>1. agenda \in QueueOf(JobFuncs) /\ ~Without(agenda, "check_int")
  BY DEF IInv, QueueInv
<1>2. f \notin (TickJobs \ {f}) \cup Others /\ f # "check_int"
  BY DEF TickJobs, Others
<1>3. /\ q \in QueueOf(JobFuncs) /\ Ordered(q) /\ Without(q, f)
      /\ LosesOnly(q, agenda, f) /\ ~Without(q, "check_int")
  BY <1>2, PopInv
<1> HIDE DEF q
<1>4. SameJobs(q, agenda, (TickJobs \ {f}) \cup Others)
  BY <1>1, <1>2, <1>3, LosesSame
<1>5. 1 \in 1..Len(agenda)
  BY <1>1, NotEmpty, QueueType
<1>6. ~Without(agenda, f)
  BY <1>5 DEF Without
<1> QED BY <1>3, <1>4, <1>6 DEF q

(* The jobs of the PIC, the peripherals and the command line.              *)
LEMMA JobIInv ==
  ASSUME IInv,
         \/ JobPicRepInt
         \/ \E l \in Lines : JobDevice(l)
         \/ JobCheckInt \/ JobCheckIntReset
  PROVE  IInv'
<1>1. /\ sr \in SRs /\ esr \in SRs /\ pc \in Codes /\ epcr \in Codes
      /\ picmr \subseteq Lines /\ picsr \subseteq Lines /\ pmr \subseteq PmrBits
      /\ edge_trigger \in BOOLEAN /\ soft \subseteq picsr
  BY DEF IInv, TypeOK
<1>2. NoInts \in SRs /\ "int" \in Codes /\ "reset" \in Codes
  BY DEF NoInts, SRs, Codes, Vectors
<1>3. /\ Tail(agenda) \in QueueOf(JobFuncs) /\ Ordered(Tail(agenda))
      /\ \A f : GainsOnly(Tail(agenda), Tail(agenda), f)
  BY PopInv, GainRefl
<1>4. "pic_rep_int" \notin TickJobs /\ "check_int" \notin TickJobs
      /\ "pic_rep_int" \in JobFuncs /\ "check_int" \in JobFuncs
  BY DEF TickJobs, JobFuncs
<1>5. CASE JobPicRepInt
  <2>1. /\ agenda[1].func = "pic_rep_int" /\ agenda' = Tail(agenda)
        /\ UNCHANGED tickvars /\ Continue
        /\ picmr' = picmr /\ picsr' = picsr /\ pmr' = pmr
        /\ edge_trigger' = edge_trigger /\ soft' = soft
        /\ IF picsr # {} THEN except_handle("int") ELSE NoExcept
    BY <1>5 DEF JobPicRepInt, RunJob, pic_rep_int, picvars
  <2>2. /\ QueueInv'
        /\ JobsOK(agenda, ttmr, counting)' /\ OnTime(agenda, ttmr, ttcr, counting)'
        /\ mode' \in {"insn", "sched"}
        /\ agenda' \in Seq([func : JobFuncs, due : Int])
        /\ ttmr' \in TtmrWords /\ ttcr' \in 0..(REGMOD - 1)
        /\ counting' \in BOOLEAN
    BY <1>3, <1>4, <2>1, JobStep
  <2>3. /\ sr' \in SRs /\ esr' \in SRs /\ pc' \in Codes /\ epcr' \in Codes
        /\ picsr # {} => sr' = NoInts
    BY <1>1, <1>2, <2>1 DEF except_handle, NoExcept
  <2>4. TypeOK'
    BY <1>1, <2>1, <2>2, <2>3 DEF TypeOK
  <2>5. DeliveryQueued'
    BY <2>1, <2>3 DEF DeliveryQueued, NoInts
  <2> QED BY <2>2, <2>4, <2>5 DEF IInv
<1>6. ASSUME NEW l \in Lines, JobDevice(l) PROVE IInv'
  <2> DEFINE b == l \notin picsr /\ l \in picmr /\ sr.iee
  <2>1. /\ agenda[1].func = l /\ UNCHANGED excvars /\ UNCHANGED tickvars
        /\ picmr' = picmr /\ picsr' = picsr \cup {l} /\ pmr' = pmr \ PmrBits
        /\ edge_trigger' = edge_trigger /\ soft' = soft /\ Continue
        /\ agenda' = IF b THEN AddJob(Tail(agenda), "pic_rep_int", 0)
                     ELSE Tail(agenda)
    BY <1>6 DEF JobDevice, RunJob, report_interrupt
  <2>2. l \notin TickJobs /\ l \notin Others
    BY JobNames
  <2>3. /\ agenda' \in QueueOf(JobFuncs) /\ Ordered(agenda')
        /\ GainsOnly(agenda', Tail(agenda), "pic_rep_int")
        /\ b => Holds(agenda', "pic_rep_int", 0)
    <3>1. b \in BOOLEAN
      BY <1>1 DEF SRs
    <3>2. agenda' = IF b THEN AddJob(Tail(agenda), "pic_rep_int", 0)
                    ELSE Tail(agenda)
      BY <2>1
    <3> HIDE DEF b
    <3> QED BY <1>3, <3>1, <3>2, DeliveryJob
  <2>4. /\ QueueInv'
        /\ JobsOK(agenda, ttmr, counting)' /\ OnTime(agenda, ttmr, ttcr, counting)'
        /\ mode' \in {"insn", "sched"}
        /\ agenda' \in Seq([func : JobFuncs, due : Int])
        /\ ttmr' \in TtmrWords /\ ttcr' \in 0..(REGMOD - 1)
        /\ counting' \in BOOLEAN
        /\ \A d : Holds(agenda, "pic_rep_int", d)
                   => Holds(agenda', "pic_rep_int", d)
    BY <1>4, <2>1, <2>2, <2>3, JobStep DEF Others
  <2>5. sr' = sr /\ esr' = esr /\ pc' = pc /\ epcr' = epcr
    BY <2>1 DEF excvars
  <2>6. TypeOK'
    BY <1>1, <2>1, <2>4, <2>5 DEF TypeOK
  <2>7. DeliveryQueued'
    <3>1. (sr.iee /\ (picsr' \ soft') \cap picmr' # {}) => (picsr \ soft) \cap picmr # {} \/ b
      BY <2>1
    <3>2. (sr.iee /\ (picsr \ soft) \cap picmr # {}) =>
            \E d \in Int : d <= 0 /\ Holds(agenda', "pic_rep_int", d)
      BY <2>4 DEF IInv, DeliveryQueued
    <3> QED BY <2>3, <2>5, <3>1, <3>2 DEF DeliveryQueued
  <2> QED BY <2>4, <2>6, <2>7 DEF IInv
<1>7. CASE JobCheckInt
  <2>1. /\ agenda[1].func = "check_int" /\ UNCHANGED tickvars /\ Continue
        /\ sr' = sr /\ esr' = esr /\ pc' = pc /\ epcr' = epcr
        /\ picmr' = picmr /\ picsr' = picsr /\ pmr' = pmr
        /\ edge_trigger' = edge_trigger /\ soft' = soft
        /\ agenda' = AddJob(Tail(agenda), "check_int", CHECK_INT_TIME)
    BY <1>7 DEF JobCheckInt, RunJob, picvars, excvars
  <2>2. CHECK_INT_TIME \in Nat /\ CHECK_INT_TIME \in Int
    BY CpuAssumption
  <2>3. /\ agenda' \in QueueOf(JobFuncs) /\ Ordered(agenda')
        /\ GainsOnly(agenda', Tail(agenda), "check_int")
        /\ Holds(agenda', "check_int", CHECK_INT_TIME)
    BY <1>3, <1>4, <2>1, <2>2, AddJobProps
  <2>4. ~Without(agenda', "check_int")
    BY <2>2, <2>3, HoldsSome
  <2>5. /\ QueueInv'
        /\ JobsOK(agenda, ttmr, counting)' /\ OnTime(agenda, ttmr, ttcr, counting)'
        /\ mode' \in {"insn", "sched"}
        /\ agenda' \in Seq([func : JobFuncs, due : Int])
        /\ ttmr' \in TtmrWords /\ ttcr' \in 0..(REGMOD - 1)
        /\ counting' \in BOOLEAN
        /\ \A d : Holds(agenda, "pic_rep_int", d)
                   => Holds(agenda', "pic_rep_int", d)
    BY <1>4, <2>1, <2>3, <2>4, JobStep
  <2>6. TypeOK'
    BY <1>1, <2>1, <2>5 DEF TypeOK
  <2>7. DeliveryQueued'
    BY <2>1, <2>5 DEF DeliveryQueued, IInv
  <2> QED BY <2>5, <2>6, <2>7 DEF IInv
<1>8. CASE JobCheckIntReset
  <2> DEFINE q == <<Job("check_int", 1)>>
  <2>1. /\ agenda' = AddJob(q, "check_int", CHECK_INT_TIME)
        /\ ttcr' = 0 /\ ttmr' = Ttmr("off", FALSE, 0) /\ counting' = FALSE
        /\ pmr' = {} /\ picmr' = NmiLines /\ picsr' = {}
        /\ edge_trigger' = edge_trigger /\ soft' = {}
        /\ pc' = "reset" /\ esr' = sr /\ sr' = NoInts /\ epcr' = epcr
        /\ Continue
    BY <1>8 DEF JobCheckIntReset, tick_reset, pic_reset, except_handle
  <2>2. /\ q \in QueueOf(JobFuncs) /\ Ordered(q)
        /\ ~Without(q, "check_int") /\ \A f \in TickJobs : Without(q, f)
    BY FreshQueue
  <2> HIDE DEF q
  <2>3. CHECK_INT_TIME \in Nat
    BY CpuAssumption
  <2>4. /\ agenda' \in QueueOf(JobFuncs) /\ Ordered(agenda')
        /\ GainsOnly(agenda', q, "check_int")
    BY <1>4, <2>1, <2>2, <2>3, AddJobProps
  <2>5. /\ \A f \in TickJobs : Without(agenda', f)
        /\ ~Without(agenda', "check_int")
    BY <1>4, <2>2, <2>4, HoldsSome DEF GainsOnly
  <2>6. mode' \in {"insn", "sched"} /\ (mode' = "insn" => agenda'[1].due > 0)
    BY <2>1, <2>4, <2>5, ContinueInv
  <2>7. JobsOK(agenda', ttmr', counting')
        /\ OnTime(agenda', ttmr', ttcr', counting')
    BY <2>1, <2>4, <2>5, TimerOff
  <2>8. TypeOK'
    <3>1. Ttmr("off", FALSE, 0) \in TtmrWords
      BY TickAssumption DEF Ttmr, TtmrWords, TickModes
    <3>2. 0 \in 0..(REGMOD - 1)
      BY TickAssumption
    <3> QED BY <1>1, <1>2, <2>1, <2>4, <2>6, <3>1, <3>2, PicAssumption
            DEF TypeOK, QueueOf
  <2>9. QueueInv'
    BY <2>4, <2>5, <2>6 DEF QueueInv
  <2>10. DeliveryQueued'
    BY <2>1 DEF DeliveryQueued
  <2> QED BY <2>7, <2>8, <2>9, <2>10 DEF IInv
<1> QED BY <1>5, <1>6, <1>7, <1>8

(* The jobs of the timer.                                                  *)
LEMMA TickIInv ==
  ASSUME IInv, JobTickRaise \/ JobTickRestart \/ JobTickOneShot
  PROVE  IInv'
<1> DEFINE q == Tail(agenda)
<1>1. /\ sr \in SRs /\ esr \in SRs /\ pc \in Codes /\ epcr \in Codes
      /\ picmr \subseteq Lines /\ picsr \subseteq Lines /\ pmr \subseteq PmrBits
      /\ edge_trigger \in BOOLEAN /\ soft \subseteq picsr
      /\ ttmr \in TtmrWords /\ ttcr \in 0..(REGMOD - 1) /\ counting \in BOOLEAN
  BY DEF IInv, TypeOK
<1>2. NoInts \in SRs /\ "tick" \in Codes
  BY DEF NoInts, SRs, Codes, Vectors
<1>3. JobsOK(agenda, ttmr, counting) /\ OnTime(agenda, ttmr, ttcr, counting)
  BY DEF IInv
<1>4. TickJobs \subseteq JobFuncs
  BY JobNames
<1>5. ASSUME NEW f \in TickJobs, SameJobs(agenda', agenda, Others),
             agenda' \in QueueOf(JobFuncs), Ordered(agenda'),
             UNCHANGED picvars, sr' \in SRs, sr'.iee => sr.iee, Continue
      PROVE  QueueInv' /\ DeliveryQueued' /\ mode' \in {"insn", "sched"}
  <2>1. ~Without(agenda', "check_int")
    BY <1>5 DEF SameJobs, Others, IInv, QueueInv
  <2>2. mode' \in {"insn", "sched"} /\ (mode' = "insn" => agenda'[1].due > 0)
    BY <1>5, <2>1, ContinueInv
  <2>3. QueueInv'
    BY <1>5, <2>1, <2>2 DEF QueueInv
  <2>4. \A d : Holds(agenda, "pic_rep_int", d) => Holds(agenda', "pic_rep_int", d)
    BY <1>5 DEF SameJobs, Others
  <2>5. DeliveryQueued'
    BY <1>5, <2>4 DEF DeliveryQueued, IInv, picvars
  <2> QED BY <2>2, <2>3, <2>5
<1>6. CASE JobTickRaise
  <2> DEFINE f == "tick_raise_except"
             t == NextInsnTime(q)
  <2>1. /\ agenda[1].func = f /\ UNCHANGED picvars /\ Continue
        /\ ttmr' = [ttmr EXCEPT !.ip = TRUE] /\ ttcr' = ttcr
        /\ counting' = counting
        /\ agenda' = AddJob(q, f, t)
        /\ IF sr.tee THEN except_handle("tick") ELSE NoExcept
    BY <1>6 DEF JobTickRaise, RunJob, tick_raise_except
  <2>2. /\ q \in QueueOf(JobFuncs) /\ Ordered(q)
        /\ Without(q, f) /\ ~Without(agenda, f)
        /\ SameJobs(q, agenda, (TickJobs \ {f}) \cup Others)
        /\ ~Without(q, "check_int")
    BY <2>1, TickPop DEF TickJobs
  <2> HIDE DEF q
  <2>3. t \in Nat
    BY <2>2, NotEmpty DEF NextInsnTime
  <2>4. f \in JobFuncs /\ f \in TickJobs /\ f \notin (TickJobs \ {f}) \cup Others
    BY <1>4 DEF TickJobs, Others
  <2>5. /\ agenda' \in QueueOf(JobFuncs) /\ Ordered(agenda')
        /\ GainsOnly(agenda', q, f) /\ Holds(agenda', f, t) /\ AtMostOne(agenda', f)
    BY <2>1, <2>2, <2>3, <2>4, AddJobProps
  <2>6. SameJobs(agenda', agenda, (TickJobs \ {f}) \cup Others)
    <3>1. SameJobs(agenda', q, (TickJobs \ {f}) \cup Others)
      BY <2>2, <2>4, <2>5, GainsSame
    <3> QED BY <2>2, <3>1, SameJobsTrans
  <2>7. ~Without(agenda', f)
    BY <2>3, <2>5, HoldsSome
  <2>8. ttmr.ie
    BY <1>3, <2>2 DEF JobsOK
  <2>9. /\ ttmr'.m = ttmr.m /\ ttmr'.ie = ttmr.ie /\ ttmr'.ip = TRUE
        /\ ttmr' \in TtmrWords
    BY <1>1, <2>1 DEF TtmrWords
  <2>10. JobsOK(agenda', ttmr', counting')
    <3>1. \A g \in TickJobs \ {f} :
            /\ Without(agenda, g) <=> Without(agenda', g)
            /\ AtMostOne(agenda, g) => AtMostOne(agenda', g)
      BY <2>6 DEF SameJobs
    <3>2. \A g \in TickJobs : AtMostOne(agenda', g)
      BY <1>3, <2>5, <3>1 DEF JobsOK
    <3>3. "tick_restart" \in TickJobs \ {f} /\ "tick_one_shot" \in TickJobs \ {f}
      BY DEF TickJobs
    <3> QED BY <1>3, <2>1, <2>7, <2>8, <2>9, <3>1, <3>2, <3>3 DEF JobsOK
  <2>11. OnTime(agenda', ttmr', ttcr', counting')
    BY <2>9 DEF OnTime
  <2>12. /\ sr' \in SRs /\ esr' \in SRs /\ pc' \in Codes /\ epcr' \in Codes
         /\ sr'.iee => sr.iee
    <3>1. CASE sr.tee
      <4>1. pc' = "tick" /\ esr' = sr /\ sr' = NoInts /\ epcr' = pc
        BY <2>1, <3>1 DEF except_handle
      <4>2. ~NoInts.iee
        BY DEF NoInts
      <4> QED BY <1>1, <1>2, <4>1, <4>2
    <3>2. CASE ~sr.tee
      BY <1>1, <2>1, <3>2 DEF NoExcept
    <3> QED BY <3>1, <3>2
  <2>13. SameJobs(agenda', agenda, Others)
    BY <2>6 DEF SameJobs
  <2>14. QueueInv' /\ DeliveryQueued' /\ mode' \in {"insn", "sched"}
    BY <1>5, <2>1, <2>4, <2>5, <2>12, <2>13
  <2>15. TypeOK'
    BY <1>1, <2>1, <2>5, <2>9, <2>12, <2>14 DEF TypeOK, QueueOf, picvars
  <2> QED BY <2>10, <2>11, <2>14, <2>15 DEF IInv
<1>7. CASE JobTickRestart
  <2> DEFINE f == "tick_restart"
             t == ttmr.tp
  <2>1. /\ agenda[1].func = f /\ UNCHANGED picvars /\ Continue
        /\ ttmr' = ttmr /\ ttcr' = 0 /\ counting' = counting
        /\ agenda' = AddJob(q, f, t)
        /\ sr' = sr /\ esr' = esr /\ pc' = pc /\ epcr' = epcr
    BY <1>7 DEF JobTickRestart, RunJob, tick_restart, excvars
  <2>2. /\ q \in QueueOf(JobFuncs) /\ Ordered(q)
        /\ Without(q, f) /\ ~Without(agenda, f)
        /\ SameJobs(q, agenda, (TickJobs \ {f}) \cup Others)
    BY <2>1, TickPop DEF TickJobs
  <2>3. t \in Nat
    BY <1>1 DEF TtmrWords
  <2>4. f \in JobFuncs /\ f \in TickJobs /\ f \notin (TickJobs \ {f}) \cup Others
    BY <1>4 DEF TickJobs, Others
  <2> HIDE DEF q
  <2>5. /\ agenda' \in QueueOf(JobFuncs) /\ Ordered(agenda')
        /\ GainsOnly(agenda', q, f) /\ Holds(agenda', f, t) /\ AtMostOne(agenda', f)
    BY <2>1, <2>2, <2>3, <2>4, AddJobProps
  <2>6. SameJobs(agenda', agenda, (TickJobs \ {f}) \cup Others)
    <3>1. SameJobs(agenda', q, (TickJobs \ {f}) \cup Others)
      BY <2>2, <2>4, <2>5, GainsSame
    <3> QED BY <2>2, <3>1, SameJobsTrans
  <2>7. ~Without(agenda', f)
    BY <2>3, <2>5, HoldsSome
  <2>8. ttmr.m = "RT"
    BY <1>3, <2>2 DEF JobsOK
  <2>9. ttmr.ie /\ ~ttmr.ip => Without(agenda, "tick_raise_except")
    <3>1. SUFFICES ASSUME ttmr.ie, ~ttmr.ip, NEW i \in 1..Len(agenda),
                          agenda[i].func = "tick_raise_except"
                   PROVE  FALSE
      BY DEF Without
    <3>2. agenda \in QueueOf(JobFuncs)
      BY DEF IInv, QueueInv
    <3>3. Len(agenda) \in Nat /\ 1 \in 1..Len(agenda)
      BY <3>2, QueueType
    <3>4. InFront(agenda, "tick_raise_except", f)
      BY <1>3, <2>8, <3>1 DEF JobsOK
    <3>5. i < 1
      BY <2>1, <3>1, <3>3, <3>4 DEF InFront
    <3> QED BY <3>3, <3>5
  <2>10. \A g \in TickJobs \ {f} :
           /\ Without(agenda, g) <=> Without(agenda', g)
           /\ AtMostOne(agenda, g) => AtMostOne(agenda', g)
    BY <2>6 DEF SameJobs
  <2>11. "tick_raise_except" \in TickJobs \ {f} /\ "tick_one_shot" \in TickJobs \ {f}
    BY DEF TickJobs
  <2>12. JobsOK(agenda', ttmr, counting)
    <3>1. \A g \in TickJobs : AtMostOne(agenda', g)
      BY <1>3, <2>5, <2>10 DEF JobsOK
    <3>2. ttmr.ie /\ ~ttmr.ip => InFront(agenda', "tick_raise_except", f)
      BY <2>9, <2>10, <2>11 DEF InFront, Without
    <3> QED BY <1>3, <2>7, <2>8, <2>10, <2>11, <3>1, <3>2 DEF JobsOK
  <2>13. OnTime(agenda', ttmr, 0, counting)
    <3>1. SUFFICES ASSUME ttmr.ie, ~ttmr.ip, counting PROVE FALSE
      BY DEF OnTime
    <3>2. Without(agenda, "tick_raise_except")
      BY <2>9, <3>1
    <3>3. \E d \in Int : Holds(agenda, "tick_raise_except", d)
      BY <1>3, <3>1 DEF OnTime
    <3> QED BY <3>2, <3>3 DEF Without, Holds
  <2>14. SameJobs(agenda', agenda, Others)
    BY <2>6 DEF SameJobs
  <2>15. QueueInv' /\ DeliveryQueued' /\ mode' \in {"insn", "sched"}
    BY <1>1, <1>5, <2>1, <2>4, <2>5, <2>14
  <2>16. TypeOK'
    <3>1. 0 \in 0..(REGMOD - 1)
      BY TickAssumption
    <3> QED BY <1>1, <2>1, <2>5, <2>15, <3>1 DEF TypeOK, QueueOf, picvars
  <2>17. (JobsOK(agenda, ttmr, counting) /\ OnTime(agenda, ttmr, ttcr, counting))'
    BY <2>1, <2>12, <2>13
  <2> QED BY <2>15, <2>16, <2>17 DEF IInv
<1>8. CASE JobTickOneShot
  <2> DEFINE f == "tick_one_shot"
  <2>1. /\ agenda[1].func = f /\ UNCHANGED picvars /\ Continue
        /\ ttmr' = ttmr /\ ttcr' = ttmr.tp /\ counting' = FALSE
        /\ agenda' = q
        /\ sr' = sr /\ esr' = esr /\ pc' = pc /\ epcr' = epcr
    BY <1>8 DEF JobTickOneShot, RunJob, tick_one_shot, excvars
  <2>2. /\ q \in QueueOf(JobFuncs) /\ Ordered(q)
        /\ Without(q, f) /\ ~Without(agenda, f)
        /\ SameJobs(q, agenda, (TickJobs \ {f}) \cup Others)
    BY <2>1, TickPop DEF TickJobs
  <2> HIDE DEF q
  <2>3. \A g \in TickJobs \ {f} :
          /\ Without(agenda, g) <=> Without(agenda', g)
          /\ AtMostOne(agenda, g) => AtMostOne(agenda', g)
    BY <2>1, <2>2 DEF SameJobs
  <2>4. "tick_raise_except" \in TickJobs \ {f} /\ "tick_restart" \in TickJobs \ {f}
    BY DEF TickJobs
  <2>5. ttmr.m = "SR"
    BY <1>3, <2>2 DEF JobsOK
  <2>6. JobsOK(agenda', ttmr, FALSE)
    <3>1. AtMostOne(agenda', f) /\ Without(agenda', f)
      BY <2>1, <2>2 DEF AtMostOne, Without
    <3>2. \A g \in TickJobs : AtMostOne(agenda', g)
      BY <1>3, <2>3, <3>1 DEF JobsOK
    <3> QED BY <1>3, <2>3, <2>4, <2>5, <3>1, <3>2 DEF JobsOK
  <2>7. SameJobs(agenda', agenda, Others) /\ f \in TickJobs
    BY <2>1, <2>2 DEF SameJobs, TickJobs
  <2>8. QueueInv' /\ DeliveryQueued' /\ mode' \in {"insn", "sched"}
    BY <1>1, <1>5, <2>1, <2>2, <2>7
  <2>9. ttmr.tp \in 0..(REGMOD - 1)
    <3>1. ttmr.tp \in 0..(TPMOD - 1) /\ TPMOD \in Nat /\ REGMOD \in Nat
      BY <1>1, TickAssumption DEF TtmrWords
    <3>2. TPMOD <= REGMOD
      <4> DEFINE K == REGMOD \div TPMOD
      <4>1. TPMOD \in Nat \ {0} /\ REGMOD \in Nat \ {0} /\ REGMOD % TPMOD = 0
        BY TickAssumption
      <4>2. REGMOD = TPMOD * K /\ K \in Int
        BY <4>1, DivMod
      <4> HIDE DEF K
      <4>3. K >= 1
        <5>1. K <= 0 => TPMOD * K <= 0
          BY <4>1, <4>2
        <5> QED BY <4>1, <4>2, <5>1
      <4>4. TPMOD * K >= TPMOD
        BY <4>1, <4>2, <4>3
      <4> QED BY <4>2, <4>4
    <3> QED BY <3>1, <3>2
  <2>10. TypeOK'
    BY <1>1, <2>1, <2>2, <2>8, <2>9 DEF TypeOK, QueueOf, picvars
  <2>11. (JobsOK(agenda, ttmr, counting) /\ OnTime(agenda, ttmr, ttcr, counting))'
    BY <2>1, <2>6 DEF OnTime
  <2> QED BY <2>8, <2>10, <2>11 DEF IInv
<1> QED BY <1>6, <1>7, <1>8

(* Every step of the main loop keeps the invariant.                        *)
LEMMA NextIInv == IInv /\ [Next]_vars => IInv'
<1> SUFFICES ASSUME IInv, [Next]_vars PROVE IInv'
  OBVIOUS
<1>1. CASE UNCHANGED vars
  <2>1. /\ agenda' = agenda /\ mode' = mode /\ sr' = sr /\ esr' = esr
        /\ pc' = pc /\ epcr' = epcr /\ picmr' = picmr /\ picsr' = picsr
        /\ pmr' = pmr /\ edge_trigger' = edge_trigger /\ soft' = soft
        /\ ttmr' = ttmr /\ ttcr' = ttcr /\ counting' = counting
    BY <1>1 DEF vars
  <2>2. TypeOK'
    BY <2>1 DEF IInv, TypeOK
  <2>3. QueueInv'
    BY <2>1 DEF IInv, QueueInv
  <2>4. DeliveryQueued'
    BY <2>1 DEF IInv, DeliveryQueued
  <2>5. (JobsOK(agenda, ttmr, counting) /\ OnTime(agenda, ttmr, ttcr, counting))'
    BY <2>1 DEF IInv
  <2> QED BY <2>2, <2>3, <2>4, <2>5 DEF IInv
<1>2. CASE \/ InsnOther \/ InsnRfe \/ InsnSys
           \/ \E v \in SRs : InsnMtsprSr(v)
           \/ \E s \in SUBSET Lines : InsnMtsprPicmr(s)
           \/ \E s \in SUBSET Lines : InsnMtsprPicsr(s)
           \/ \E v \in TtmrValues : InsnMtsprTtmr(v)
           \/ \E v \in TtcrValues : InsnMtsprTtcr(v)
           \/ \E v \in Pmrs : InsnMtsprPmr(v)
           \/ \E l \in Lines, d \in Delays : InsnStart(l, d)
           \/ \E l \in Lines : InsnReport(l) \/ InsnClear(l)
  BY <1>2, InsnIInv
<1>3. CASE \E c \in Cycles, set, clr \in ExtInts : EndInsn(c, set, clr)
  BY <1>3, EndIInv
<1>4. CASE \/ JobPicRepInt
           \/ \E l \in Lines : JobDevice(l)
           \/ JobCheckInt \/ JobCheckIntReset
  BY <1>4, JobIInv
<1>5. CASE JobTickRaise \/ JobTickRestart \/ JobTickOneShot
  BY <1>5, TickIInv
<1> QED BY <1>1, <1>2, <1>3, <1>4, <1>5 DEF Next

(* The invariant holds in every state of every behaviour.                  *)
LEMMA IInvAlways == Spec => []IInv
BY InitIInv, NextIInv, PTL DEF Spec

-----------------------------------------------------------------------------
(* The number of jobs of f, as the properties count them.                  *)
LEMMA Counted ==
  ASSUME NEW q \in QueueOf(JobFuncs), NEW f
  PROVE  /\ Cardinality(Where(q, f)) \in Nat
         /\ Without(q, f) => Cardinality(Where(q, f)) = 0
         /\ (AtMostOne(q, f) /\ ~Without(q, f)) => Cardinality(Where(q, f)) = 1
<1> DEFINE W == Where(q, f)
<1>1. DOMAIN q = 1..Len(q) /\ Len(q) \in Nat
  BY QueueType DEF QueueOf
<1>2. W = {i \in 1..Len(q) : q[i].func = f}
  BY <1>1 DEF Where
<1> HIDE DEF W
<1>3. IsFiniteSet(W)
  <2>1. W \in SUBSET (1..Len(q)) /\ IsFiniteSet(1..Len(q))
    BY <1>1, <1>2, FS_Interval
  <2> QED BY <2>1, FS_Subset
<1>4. Without(q, f) => W = {}
  BY <1>2 DEF Without
<1>5. ASSUME AtMostOne(q, f), ~Without(q, f) PROVE \E x : W = {x}
  <2>1. PICK i \in 1..Len(q) : q[i].func = f
    BY <1>5 DEF Without
  <2>2. W = {i}
    BY <1>2, <1>5, <2>1 DEF AtMostOne
  <2> QED BY <2>2
<1>6. /\ Cardinality(W) \in Nat
      /\ Without(q, f) => Cardinality(W) = 0
      /\ (AtMostOne(q, f) /\ ~Without(q, f)) => Cardinality(W) = 1
  BY <1>3, <1>4, <1>5, FS_CardinalityType, FS_EmptySet, FS_Singleton
<1> QED BY <1>6 DEF W

(* The invariant says that a tick the timer owes is scheduled.             *)
LEMMA IInvTick == IInv => TickScheduled
<1> SUFFICES ASSUME IInv PROVE TickScheduled
  OBVIOUS
<1> DEFINE n(f) == Cardinality(Where(agenda, f))
<1>1. /\ agenda \in QueueOf(JobFuncs) /\ JobsOK(agenda, ttmr, counting)
      /\ OnTime(agenda, ttmr, ttcr, counting)
      /\ ttmr.ie \in BOOLEAN /\ ttmr.ip \in BOOLEAN
  BY DEF IInv, QueueInv, TypeOK, TtmrWords
<1>2. \A f \in TickJobs :
        /\ Without(agenda, f) => n(f) = 0
        /\ ~Without(agenda, f) => n(f) = 1
  BY <1>1, Counted DEF JobsOK
<1> HIDE DEF n
<1>3. /\ n("tick_restart") = IF ttmr.m = "RT" THEN 1 ELSE 0
      /\ n("tick_one_shot") = IF ttmr.m = "SR" /\ counting THEN 1 ELSE 0
      /\ n("tick_raise_except") <= IF ttmr.ie THEN 1 ELSE 0
      /\ ttmr.ip => n("tick_raise_except") = 1
  BY <1>1, <1>2 DEF JobsOK, TickJobs
<1>4. TickJobsMatch
  BY <1>3 DEF TickJobsMatch, n
<1>5. TickOnTime
  <2>1. SUFFICES ASSUME ttmr.ie, ~ttmr.ip, counting
                 PROVE  \E i \in DOMAIN agenda :
                          /\ agenda[i].func = "tick_raise_except"
                          /\ (ttcr + agenda[i].due) % TPMOD = ttmr.tp
    BY DEF TickOnTime
  <2>2. PICK d \in Int : /\ Holds(agenda, "tick_raise_except", d)
                         /\ (ttcr + d) % TPMOD = ttmr.tp
    BY <1>1, <2>1 DEF OnTime
  <2>3. DOMAIN agenda = 1..Len(agenda)
    BY <1>1 DEF QueueOf
  <2> QED BY <2>2, <2>3 DEF Holds
<1> QED BY <1>4, <1>5 DEF TickScheduled

-----------------------------------------------------------------------------
(* The registers keep their widths and the queue holds only known jobs:    *)
(* mtspr(), the timer's jobs and the wrap of TTCR stay within the words.   *)
THEOREM TypesCorrect == Spec => []TypeOK
<1>1. IInv => TypeOK
  BY DEF IInv
<1> QED BY <1>1, IInvAlways, PTL

(* report_interrupt(), pic_ints_en() and do_scheduler() together lose no   *)
(* interrupt: whichever of a peripheral, mtspr(SR), mtspr(PICMR), l.rfe    *)
(* or the library's caller makes one deliverable, it has been delivered    *)
(* before the next instruction.  The one exception the code makes is part  *)
(* of PreciseDelivery: a bit that software itself sets in PICSR.           *)
THEOREM InterruptsPrecise == Spec => []PreciseDelivery
BY Precise, IInvAlways, PTL

(* sched_timer_job(): the timer's jobs in the queue are always those of    *)
(* the mode in TTMR, each once, and the tick is queued for the cycle in    *)
(* which TTCR matches TP, across the wrap of TTCR.                         *)
THEOREM TickAlwaysScheduled == Spec => []TickScheduled
BY IInvTick, IInvAlways, PTL
=============================================================================
