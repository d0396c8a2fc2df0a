---------------------------- MODULE SchedProofs ----------------------------
(***************************************************************************)
(* Proofs about support/sched.c (module Sched), for every heap size, every *)
(* set of job functions and all times.                                     *)
(***************************************************************************)
EXTENDS Sched, DataLemmas, TLAPS

(* The queue is in the order of the absolute times.                        *)
DueSorted == \A i, j \in 1..Len(due) : i <= j => due[i] <= due[j]

(* check_int and the guard are queued, except while they run.              *)
AlwaysQueued(f) ==
  (running # f /\ mode # "crash") =>
    \E i \in 1..Len(job_queue) : job_queue[i].func = f

(* Which job function may be running in which mode.                        *)
RunningInv ==
  /\ mode \in {"insn", "loop"} => running = None
  /\ mode = "crash" => free = 0
  /\ mode \in {"add", "next"} =>
       /\ frame.ret = "insn" => running = None /\ frame.after = None
       /\ \/ /\ frame.func \in Jobs
             /\ frame.after = running
             /\ running # Guard
          \/ /\ mode = "add"
             /\ frame.func \in {Guard, CheckInt}
             /\ running = frame.func
             /\ frame.after = None

(* sched_add()'s search: everything in front of cur is due before the new  *)
(* job, and alltime is the absolute time of cur, or of the last job when   *)
(* the search has run off the end.                                         *)
AddInv ==
  mode = "add" =>
    /\ frame.func \in Funcs
    /\ frame.time >= 0
    /\ frame.cur \in 1..(Len(due) + 1)
    /\ \A i \in 1..Len(due) : i < frame.cur => due[i] < frame.time
    /\ frame.alltime =
         IF frame.cur <= Len(due) THEN due[frame.cur] ELSE due[Len(due)]

(* sched_next_insn()'s loop: only the front job can be late against its    *)
(* predecessor, so the loop runs at most once.                             *)
NextInv ==
  mode = "next" =>
    /\ frame.func \in Jobs
    /\ frame.cur \in {1, 2}
    /\ frame.cur = 1 => frame.alltime = 1
    /\ frame.cur = 2 => due[1] < 0 /\ frame.alltime = 1 - due[1]

-----------------------------------------------------------------------------
(***************************************************************************)
(* A list q of differences that encodes the sorted absolute times d.       *)
(***************************************************************************)
Entries == [func : Funcs, time : Int]

Encodes(q, d) ==
  /\ q \in Seq(Entries)
  /\ d \in Seq(Int)
  /\ Len(d) = Len(q)
  /\ \A i \in 1..Len(q) :
       q[i].time = d[i] - (IF i = 1 THEN 0 ELSE d[i - 1])
  /\ \A i, j \in 1..Len(d) : i <= j => d[i] <= d[j]

(* q2 holds the jobs of q1 and f besides.                                  *)
KeepsFuncs(q1, q2) ==
  \A i \in 1..Len(q1) : \E j \in 1..Len(q2) : q2[j].func = q1[i].func

(* c is where sched_add() puts a job that is due at t.                     *)
Place(d, c, t) ==
  /\ c \in 1..(Len(d) + 1)
  /\ \A i \in 1..Len(d) : i < c => d[i] <= t
  /\ c <= Len(d) => d[c] >= t

(* The time stored in that job.                                            *)
Gap(d, c, t) == t - (IF c = 1 THEN 0 ELSE d[c - 1])

(* sched_add()'s linking keeps the encoding and all jobs.                  *)
LEMMA LinkEncodes ==
  ASSUME NEW q, NEW d, NEW f \in Funcs, NEW t \in Int, NEW c,
         Encodes(q, d), Place(d, c, t)
  PROVE  LET q2 == Link(q, c, Entry(f, Gap(d, c, t)))
         IN  /\ Encodes(q2, InsertAt(d, c, t))
             /\ Len(q2) = Len(q) + 1
             /\ q2[c].func = f
             /\ KeepsFuncs(q, q2)
<1> DEFINE nt == Gap(d, c, t)
           e == Entry(f, nt)
           r == [i \in DOMAIN q |->
                   IF i = c THEN Entry(q[i].func, q[i].time - e.time)
                   ELSE q[i]]
           q2 == Link(q, c, e)
           d2 == InsertAt(d, c, t)
           n == Len(q)
<1>0. /\ q \in Seq(Entries) /\ d \in Seq(Int)
      /\ n \in Nat /\ Len(d) = n
      /\ DOMAIN q = 1..n
      /\ \A i \in 1..n : q[i] \in Entries
      /\ \A i \in 1..n : d[i] \in Int
      /\ c \in 1..(n + 1)
  BY DEF Encodes, Place
<1>A. nt = t - (IF c = 1 THEN 0 ELSE d[c - 1])
  BY DEF Gap
<1>B. r = [i \in 1..n |->
             IF i = c THEN Entry(q[i].func, q[i].time - nt) ELSE q[i]]
  BY <1>0 DEF Entry
<1>C. q2 = InsertAt(r, c, e)
  BY DEF Link
<1> HIDE DEF nt, r, e, q2, d2, n
<1>1. nt \in Int
  BY <1>0, <1>A
<1>2. /\ e \in Entries /\ e.func = f /\ e.time = nt
  BY <1>1 DEF Entry, Entries, e
<1>3. \A i \in 1..n :
        IF i = c THEN Entry(q[i].func, q[i].time - nt) \in Entries
        ELSE q[i] \in Entries
  BY <1>0, <1>1 DEF Entry, Entries
<1>4. r \in Seq(Entries) /\ Len(r) = n
  BY <1>0, <1>3, <1>B
<1>5. \A i \in 1..n :
        /\ r[i].func = q[i].func
        /\ r[i].time = IF i = c THEN q[i].time - nt ELSE q[i].time
  BY <1>0, <1>1, <1>B DEF Entry, Entries
<1>6. /\ q2 \in Seq(Entries) /\ Len(q2) = n + 1
      /\ \A j \in 1..(n + 1) :
           q2[j] = IF j < c THEN r[j] ELSE IF j = c THEN e ELSE r[j - 1]
  <2>1. c \in 1..(Len(r) + 1)
    BY <1>0, <1>4
  <2>2. q2 \in Seq(Entries) /\ Inserted(q2, r, c, e)
    BY <1>2, <1>4, <1>C, <2>1, InsertAtProps
  <2> QED BY <1>4, <2>2 DEF Inserted
<1>7. /\ d2 \in Seq(Int) /\ Len(d2) = n + 1
      /\ \A j \in 1..(n + 1) :
           d2[j] = IF j < c THEN d[j] ELSE IF j = c THEN t ELSE d[j - 1]
  <2>1. c \in 1..(Len(d) + 1) /\ d \in Seq(Int)
    BY <1>0
  <2>2. d2 \in Seq(Int) /\ Inserted(d2, d, c, t)
    BY <2>1, InsertAtProps DEF d2
  <2> QED BY <1>0, <2>2 DEF Inserted
<1>8. \A j \in 1..Len(q2) :
        q2[j].time = d2[j] - (IF j = 1 THEN 0 ELSE d2[j - 1])
  <2> SUFFICES ASSUME NEW j \in 1..(n + 1)
               PROVE  q2[j].time = d2[j] - (IF j = 1 THEN 0 ELSE d2[j - 1])
    BY <1>6
  <2>0. \A i \in 1..n :
          q[i].time = d[i] - (IF i = 1 THEN 0 ELSE d[i - 1])
    BY DEF Encodes, n
  <2>1. CASE j < c
    <3>1. q2[j].time = q[j].time
      <4>1. q2[j] = r[j] /\ j \in 1..n
        BY <1>0, <1>6, <2>1
      <4> QED BY <1>5, <2>1, <4>1
    <3>2. d2[j] = d[j] /\ (j # 1 => d2[j - 1] = d[j - 1])
      BY <1>0, <1>7, <2>1
    <3> QED BY <1>0, <2>0, <2>1, <3>1, <3>2
  <2>2. CASE j = c
    <3>1. q2[j].time = nt
      BY <1>2, <1>6, <2>2
    <3>2. d2[j] = t /\ (j # 1 => d2[j - 1] = d[j - 1])
      BY <1>0, <1>7, <2>2
    <3> QED BY <1>0, <1>A, <2>2, <3>1, <3>2
  <2>3. CASE j = c + 1
    <3>1. q2[j].time = q[c].time - nt
      <4>1. j - 1 = c /\ c \in 1..n /\ ~(j < c) /\ j # c
        BY <1>0, <2>3
      <4>2. q2[j] = r[c]
        BY <1>6, <4>1
      <4> QED BY <1>5, <4>1, <4>2
    <3>2. d2[j] = d[c] /\ d2[j - 1] = t
      BY <1>0, <1>7, <2>3
    <3>3. q[c].time = d[c] - (IF c = 1 THEN 0 ELSE d[c - 1])
      BY <1>0, <2>0, <2>3
    <3>4. d[c] \in Int /\ (c # 1 => d[c - 1] \in Int)
      BY <1>0, <2>3
    <3> QED BY <1>0, <1>A, <2>3, <3>1, <3>2, <3>3, <3>4
  <2>4. CASE j > c + 1
    <3>0. j - 1 \in 1..n /\ j - 1 # c /\ j - 1 # 1
      BY <1>0, <2>4
    <3>1. q2[j].time = q[j - 1].time
      <4>1. q2[j] = r[j - 1]
        BY <1>0, <1>6, <2>4
      <4> QED BY <1>5, <3>0, <4>1
    <3>2. d2[j] = d[j - 1] /\ d2[j - 1] = d[j - 2]
      <4>1. /\ j \in 1..(n + 1) /\ j - 1 \in 1..(n + 1)
            /\ ~(j < c) /\ j # c /\ ~(j - 1 < c) /\ j - 1 # c
            /\ (j - 1) - 1 = j - 2
        BY <1>0, <2>4
      <4> QED BY <1>7, <4>1
    <3>3. q[j - 1].time = d[j - 1] - d[(j - 1) - 1]
      BY <2>0, <3>0
    <3>4. (j - 1) - 1 = j - 2 /\ j # 1
      BY <1>0, <2>4
    <3> QED BY <3>1, <3>2, <3>3, <3>4
  <2>5. j < c \/ j = c \/ j = c + 1 \/ j > c + 1
    BY <1>0
  <2> QED BY <2>1, <2>2, <2>3, <2>4, <2>5
<1>9. \A i, j \in 1..Len(d2) : i <= j => d2[i] <= d2[j]
  <2>1. /\ \A i, j \in 1..n : i <= j => d[i] <= d[j]
        /\ \A i \in 1..n : i < c => d[i] <= t
        /\ c <= n => d[c] >= t
    BY <1>0 DEF Encodes, Place
  <2>2. \A i \in 1..n : i >= c => d[i] >= t
    <3> SUFFICES ASSUME NEW i \in 1..n, i >= c PROVE d[i] >= t
      OBVIOUS
    <3>1. c \in 1..n /\ c <= n
      BY <1>0
    <3>2. d[c] <= d[i] /\ d[c] >= t /\ d[c] \in Int /\ d[i] \in Int
      BY <1>0, <2>1, <3>1
    <3> QED BY <3>2
  <2> SUFFICES ASSUME NEW i \in 1..(n + 1), NEW j \in 1..(n + 1), i <= j
               PROVE  d2[i] <= d2[j]
    BY <1>7
  <2>3. CASE i < c /\ j < c
    <3>1. i \in 1..n /\ j \in 1..n /\ d2[i] = d[i] /\ d2[j] = d[j]
      BY <1>0, <1>7, <2>3
    <3> QED BY <2>1, <3>1
  <2>4. CASE i < c /\ j = c
    <3>1. i \in 1..n /\ d2[i] = d[i] /\ d2[j] = t
      BY <1>0, <1>7, <2>4
    <3> QED BY <2>1, <2>4, <3>1
  <2>5. CASE i < c /\ j > c
    <3>1. i \in 1..n /\ j - 1 \in 1..n /\ i <= j - 1
      BY <1>0, <2>5
    <3>2. d2[i] = d[i] /\ d2[j] = d[j - 1]
      BY <1>0, <1>7, <2>5
    <3> QED BY <2>1, <3>1, <3>2
  <2>6. CASE i = c /\ j = c
    BY <1>0, <1>7, <2>6
  <2>7. CASE i = c /\ j > c
    <3>1. j - 1 \in 1..n /\ j - 1 >= c
      BY <1>0, <2>7
    <3>2. d2[i] = t /\ d2[j] = d[j - 1]
      BY <1>0, <1>7, <2>7
    <3>3. d[j - 1] >= t /\ d[j - 1] \in Int
      BY <1>0, <2>2, <3>1
    <3> QED BY <3>2, <3>3
  <2>8. CASE i > c
    <3>1. i - 1 \in 1..n /\ j - 1 \in 1..n /\ i - 1 <= j - 1 /\ j > c
      BY <1>0, <2>8
    <3>2. d2[i] = d[i - 1] /\ d2[j] = d[j - 1]
      BY <1>0, <1>7, <2>8, <3>1
    <3> QED BY <2>1, <3>1, <3>2
  <2>9. \/ i < c /\ (j < c \/ j = c \/ j > c)
        \/ i = c /\ (j = c \/ j > c)
        \/ i > c
    BY <1>0
  <2> QED BY <2>3, <2>4, <2>5, <2>6, <2>7, <2>8, <2>9
<1>10. KeepsFuncs(q, q2)
  <2> SUFFICES ASSUME NEW i \in 1..n
               PROVE  \E j \in 1..Len(q2) : q2[j].func = q[i].func
    BY DEF KeepsFuncs, n
  <2>1. CASE i < c
    <3>1. q2[i] = r[i] /\ i \in 1..Len(q2)
      BY <1>0, <1>6, <2>1
    <3>2. r[i].func = q[i].func
      BY <1>5
    <3> QED BY <3>1, <3>2
  <2>2. CASE i >= c
    <3>1. q2[i + 1] = r[(i + 1) - 1] /\ i + 1 \in 1..Len(q2)
      <4>1. i + 1 \in 1..(n + 1) /\ ~(i + 1 < c) /\ i + 1 # c
        BY <1>0, <2>2
      <4> QED BY <1>6, <4>1
    <3>2. (i + 1) - 1 = i
      BY <1>0
    <3>3. r[i].func = q[i].func
      BY <1>5
    <3> QED BY <3>1, <3>2, <3>3
  <2>3. i < c \/ i >= c
    BY <1>0
  <2> QED BY <2>1, <2>2, <2>3
<1>11. q2[c].func = f
  BY <1>0, <1>2, <1>6
<1> QED BY <1>6, <1>7, <1>8, <1>9, <1>10, <1>11 DEF Encodes, nt, r, e, q2, d2, n

(* The unlinking in sched_find_remove() and do_scheduler() keeps the       *)
(* encoding, and all jobs but the one at c.                                *)
LEMMA UnlinkEncodes ==
  ASSUME NEW q, NEW d, NEW c, Encodes(q, d), c \in 1..Len(q)
  PROVE  LET q2 == Unlink(q, c)
         IN  /\ Encodes(q2, RemoveAt(d, c))
             /\ Len(q2) = Len(q) - 1
             /\ \A i \in 1..Len(q) :
                  i # c => \E j \in 1..Len(q2) : q2[j].func = q[i].func
<1> DEFINE r == [i \in DOMAIN q |->
                   IF i = c + 1 THEN Entry(q[i].func, q[i].time + q[c].time)
                   ELSE q[i]]
           q2 == Unlink(q, c)
           d2 == RemoveAt(d, c)
           n == Len(q)
<1>0. /\ q \in Seq(Entries) /\ d \in Seq(Int)
      /\ n \in Nat /\ Len(d) = n
      /\ DOMAIN q = 1..n
      /\ \A i \in 1..n : q[i] \in Entries
      /\ \A i \in 1..n : d[i] \in Int
      /\ c \in 1..n
  BY DEF Encodes
<1>A. r = [i \in 1..n |->
             IF i = c + 1 THEN Entry(q[i].func, q[i].time + q[c].time)
             ELSE q[i]]
  BY <1>0
<1>C. q2 = RemoveAt(r, c)
  BY DEF Unlink
<1>B. /\ \A i \in 1..n : q[i].time = d[i] - (IF i = 1 THEN 0 ELSE d[i - 1])
      /\ \A i, j \in 1..n : i <= j => d[i] <= d[j]
  BY <1>0 DEF Encodes
<1> HIDE DEF r, q2, d2, n
<1>1. \A i \in 1..n :
        IF i = c + 1
        THEN Entry(q[i].func, q[i].time + q[c].time) \in Entries
        ELSE q[i] \in Entries
  BY <1>0 DEF Entry, Entries
<1>2. r \in Seq(Entries) /\ Len(r) = n
  BY <1>0, <1>1, <1>A
<1>3. \A i \in 1..n :
        /\ r[i].func = q[i].func
        /\ r[i].time = IF i = c + 1 THEN q[i].time + q[c].time ELSE q[i].time
  BY <1>0, <1>A DEF Entry, Entries
<1>4. /\ q2 \in Seq(Entries) /\ Len(q2) = n - 1
      /\ \A j \in 1..(n - 1) : q2[j] = IF j < c THEN r[j] ELSE r[j + 1]
  <2>1. c \in 1..Len(r)
    BY <1>0, <1>2
  <2>2. q2 \in Seq(Entries) /\ Removed(q2, r, c)
    BY <1>2, <1>C, <2>1, RemoveAtProps
  <2> QED BY <1>2, <2>2 DEF Removed
<1>5. /\ d2 \in Seq(Int) /\ Len(d2) = n - 1
      /\ \A j \in 1..(n - 1) : d2[j] = IF j < c THEN d[j] ELSE d[j + 1]
  <2>1. c \in 1..Len(d) /\ d \in Seq(Int)
    BY <1>0
  <2>2. d2 \in Seq(Int) /\ Removed(d2, d, c)
    BY <2>1, RemoveAtProps DEF d2
  <2> QED BY <1>0, <2>2 DEF Removed
<1>6. \A j \in 1..Len(q2) :
        q2[j].time = d2[j] - (IF j = 1 THEN 0 ELSE d2[j - 1])
  <2> SUFFICES ASSUME NEW j \in 1..(n - 1)
               PROVE  q2[j].time = d2[j] - (IF j = 1 THEN 0 ELSE d2[j - 1])
    BY <1>4
  <2>1. CASE j < c
    <3>1. q2[j].time = q[j].time
      <4>1. q2[j] = r[j] /\ j \in 1..n /\ j # c + 1
        BY <1>0, <1>4, <2>1
      <4> QED BY <1>3, <4>1
    <3>2. d2[j] = d[j] /\ (j # 1 => d2[j - 1] = d[j - 1])
      BY <1>0, <1>5, <2>1
    <3>3. q[j].time = d[j] - (IF j = 1 THEN 0 ELSE d[j - 1])
      BY <1>0, <1>B, <2>1
    <3> QED BY <3>1, <3>2, <3>3
  <2>2. CASE j = c
    <3>1. q2[j].time = q[c + 1].time + q[c].time
      <4>1. q2[j] = r[c + 1] /\ c + 1 \in 1..n
        BY <1>0, <1>4, <2>2
      <4> QED BY <1>3, <4>1
    <3>2. d2[j] = d[c + 1] /\ (j # 1 => d2[j - 1] = d[c - 1])
      BY <1>0, <1>5, <2>2
    <3>3. /\ q[c].time = d[c] - (IF c = 1 THEN 0 ELSE d[c - 1])
          /\ q[c + 1].time = d[c + 1] - d[c]
      <4>1. c \in 1..n /\ c + 1 \in 1..n /\ c + 1 # 1 /\ (c + 1) - 1 = c
        BY <1>0, <2>2
      <4> QED BY <1>B, <4>1
    <3>4. /\ d[c] \in Int /\ d[c + 1] \in Int
          /\ c # 1 => d[c - 1] \in Int
      BY <1>0, <2>2
    <3> QED BY <2>2, <3>1, <3>2, <3>3, <3>4
  <2>3. CASE j > c
    <3>0. j + 1 \in 1..n /\ j + 1 # c + 1 /\ j + 1 # 1 /\ (j + 1) - 1 = j
          /\ j # 1
      BY <1>0, <2>3
    <3>1. q2[j].time = q[j + 1].time
      <4>1. q2[j] = r[j + 1]
        BY <1>0, <1>4, <2>3
      <4> QED BY <1>3, <3>0, <4>1
    <3>2. d2[j] = d[j + 1] /\ d2[j - 1] = d[j]
      <4>1. /\ j \in 1..(n - 1) /\ j - 1 \in 1..(n - 1)
            /\ ~(j < c) /\ ~(j - 1 < c) /\ (j - 1) + 1 = j
        BY <1>0, <2>3
      <4> QED BY <1>5, <4>1
    <3>3. q[j + 1].time = d[j + 1] - d[(j + 1) - 1]
      BY <1>B, <3>0
    <3> QED BY <3>0, <3>1, <3>2, <3>3
  <2>4. j < c \/ j = c \/ j > c
    BY <1>0
  <2> QED BY <2>1, <2>2, <2>3, <2>4
<1>7. \A i, j \in 1..Len(d2) : i <= j => d2[i] <= d2[j]
  <2> SUFFICES ASSUME NEW i \in 1..(n - 1), NEW j \in 1..(n - 1), i <= j
               PROVE  d2[i] <= d2[j]
    BY <1>5
  <2> DEFINE i2 == IF i < c THEN i ELSE i + 1
             j2 == IF j < c THEN j ELSE j + 1
  <2>1. i2 \in 1..n /\ j2 \in 1..n /\ i2 <= j2
    BY <1>0
  <2>2. d2[i] = d[i2] /\ d2[j] = d[j2]
    BY <1>5
  <2> HIDE DEF i2, j2
  <2> QED BY <1>B, <2>1, <2>2
<1>8. \A i \in 1..n :
        i # c => \E j \in 1..Len(q2) : q2[j].func = q[i].func
  <2> SUFFICES ASSUME NEW i \in 1..n, i # c
               PROVE  \E j \in 1..Len(q2) : q2[j].func = q[i].func
    OBVIOUS
  <2>0. r[i].func = q[i].func
    BY <1>3
  <2>1. CASE i < c
    <3>1. q2[i] = r[i] /\ i \in 1..Len(q2)
      BY <1>0, <1>4, <2>1
    <3> QED BY <2>0, <3>1
  <2>2. CASE i > c
    <3>1. q2[i - 1] = r[(i - 1) + 1] /\ i - 1 \in 1..Len(q2)
          /\ (i - 1) + 1 = i
      BY <1>0, <1>4, <2>2
    <3> QED BY <2>0, <3>1
  <2>3. i < c \/ i > c
    BY <1>0
  <2> QED BY <2>1, <2>2, <2>3
<1> QED BY <1>4, <1>5, <1>6, <1>7, <1>8 DEF Encodes, r, q2, d2, n
-----------------------------------------------------------------------------
(* The parts of the invariant that concern the queue itself.               *)
QueueInv ==
  /\ Encodes(job_queue, due)
  /\ Len(job_queue) >= 1
  /\ free \in Nat
  /\ EntriesConserved
  /\ AlwaysQueued(Guard)
  /\ AlwaysQueued(CheckInt)

(* The parts that concern the control state.                               *)
ControlType ==
  /\ mode \in {"insn", "loop", "call", "add", "next", "crash"}
  /\ running \in Funcs \cup {None}
  /\ frame \in [func : Funcs \cup {None}, time : Int, cur : Nat \ {0},
                alltime : Int, ret : {"insn", "call"},
                after : Funcs \cup {None}]

ControlInv == ControlType /\ RunningInv /\ AddInv /\ NextInv

IInv == QueueInv /\ ControlInv

(* What the encoding says about the front of the queue, and the types.     *)
LEMMA EncodesFront ==
  ASSUME NEW q, NEW d, Encodes(q, d), Len(q) >= 1
  PROVE  /\ q[1].time = d[1] /\ d[1] \in Int
         /\ Len(q) \in Nat /\ Len(d) = Len(q)
         /\ \A i \in 1..Len(q) : d[i] \in Int
         /\ \A i \in 1..Len(q) : q[i].func \in Funcs
<1>1. /\ q \in Seq(Entries) /\ d \in Seq(Int)
      /\ Len(q) \in Nat /\ Len(d) = Len(q)
      /\ \A i \in 1..Len(q) :
           q[i].time = d[i] - (IF i = 1 THEN 0 ELSE d[i - 1])
  BY DEF Encodes
<1>2. \A i \in 1..Len(q) : d[i] \in Int
  BY <1>1
<1>3. \A i \in 1..Len(q) : q[i].func \in Funcs
  <2>1. \A i \in 1..Len(q) : q[i] \in Entries
    BY <1>1
  <2> QED BY <2>1 DEF Entries
<1>4. 1 \in 1..Len(q)
  BY <1>1
<1>5. d[1] \in Int /\ q[1].time = d[1] - 0
  BY <1>1, <1>2, <1>4
<1> QED BY <1>1, <1>2, <1>3, <1>5

(* The invariant contains the type invariant and the safety properties.    *)
LEMMA InvImplies ==
  IInv => /\ TypeOK
          /\ DeltaEncoding
          /\ DueSorted
          /\ EntriesConserved
          /\ QueueNeverEmpties
<1> SUFFICES ASSUME IInv
             PROVE  /\ TypeOK /\ DeltaEncoding /\ DueSorted
                    /\ EntriesConserved /\ QueueNeverEmpties
  OBVIOUS
<1>1. /\ job_queue \in Seq([func : Funcs, time : Int])
      /\ due \in Seq(Int)
      /\ DeltaEncoding
      /\ DueSorted
  BY DEF IInv, QueueInv, DeltaEncoding, DueSorted, Encodes, Entries
<1>2. TypeOK
  BY <1>1 DEF IInv, QueueInv, ControlInv, ControlType, TypeOK
<1>3. mode = "loop" => Len(job_queue) >= 2
  <2> SUFFICES ASSUME mode = "loop" PROVE Len(job_queue) >= 2
    OBVIOUS
  <2>1. running = None
    BY DEF IInv, ControlInv, RunningInv
  <2>2. None # Guard /\ None # CheckInt /\ Guard # CheckInt
    BY ConstantsAssumption DEF Funcs
  <2>3. PICK i \in 1..Len(job_queue) : job_queue[i].func = Guard
    BY <2>1, <2>2 DEF IInv, QueueInv, AlwaysQueued
  <2>4. PICK j \in 1..Len(job_queue) : job_queue[j].func = CheckInt
    BY <2>1, <2>2 DEF IInv, QueueInv, AlwaysQueued
  <2>5. i # j
    BY <2>2, <2>3, <2>4
  <2>6. Len(job_queue) \in Nat
    BY EncodesFront DEF IInv, QueueInv
  <2> QED BY <2>5, <2>6
<1>4. QueueNeverEmpties
  BY <1>3 DEF IInv, QueueInv, ControlInv, RunningInv, QueueNeverEmpties
<1> QED BY <1>1, <1>2, <1>4 DEF IInv, QueueInv

(* The two entries sched_reset() and sim_reset() leave encode their times. *)
LEMMA FreshEncodes ==
  /\ Encodes(FreshQueue, <<1, TIME_MAX>>)
  /\ Len(FreshQueue) = 2
  /\ FreshQueue[1].func = CheckInt
  /\ FreshQueue[2].func = Guard
  BY ConstantsAssumption DEF Encodes, Entries, Entry, FreshQueue, Funcs

(* The state sched_init() and the first sim_reset() set up satisfies the   *)
(* invariant.                                                              *)
THEOREM InitInv == Init => IInv
<1> SUFFICES ASSUME Init PROVE QueueInv /\ ControlInv
  BY DEF IInv
<1>1. job_queue = FreshQueue /\ due = <<1, TIME_MAX>>
  BY DEF Init
<1>2. QueueInv
  <2>1. EntriesConserved /\ free \in Nat
    BY <1>1, FreshEncodes, ConstantsAssumption DEF Init, EntriesConserved
  <2>2. AlwaysQueued(Guard) /\ AlwaysQueued(CheckInt)
    BY <1>1, FreshEncodes DEF AlwaysQueued
  <2> QED BY <1>1, <2>1, <2>2, FreshEncodes DEF QueueInv
<1>3. ControlType
  BY DEF Init, ControlType, NoFrame, Frame
<1>4. RunningInv /\ AddInv /\ NextInv
  BY DEF Init, RunningInv, AddInv, NextInv
<1> QED BY <1>2, <1>3, <1>4 DEF ControlInv

(* A step that leaves the queue alone and does not make the guard or       *)
(* check_int disappear from it.                                            *)
LEMMA QueueUnchanged ==
  ASSUME QueueInv, UNCHANGED <<job_queue, free, due>>,
         mode # "crash",
         running' \in {running, None},
         running # running' => running \notin {Guard, CheckInt}
  PROVE  QueueInv'
  BY DEF QueueInv, EntriesConserved, AlwaysQueued, Encodes

(* The steps of sched_add() and sched_next_insn() before the linking.      *)
LEMMA EnterAddInv ==
  ASSUME IInv, NEW f, NEW t \in Int, NEW ret, NEW after, t >= 0,
         mode # "crash",
         EnterAdd(f, t, ret, after),
         f \in Funcs, ret \in {"insn", "call"}, after \in Funcs \cup {None},
         ret = "insn" => running = None /\ after = None,
         \/ f \in Jobs /\ after = running /\ running # Guard
         \/ f \in {Guard, CheckInt} /\ running = f /\ after = None
  PROVE  IInv'
<1> USE DEF EnterAdd, Frame
<1>0. QueueInv /\ ControlInv
  BY DEF IInv
<1>1. QueueInv'
  BY <1>0, QueueUnchanged
<1>2. /\ Len(job_queue) >= 1 /\ Len(job_queue) \in Nat
      /\ Len(due) = Len(job_queue)
      /\ job_queue[1].time = due[1] /\ due[1] \in Int
  BY <1>0, EncodesFront DEF QueueInv
<1>3. ControlType'
  BY <1>0, <1>2 DEF ControlInv, ControlType
<1>4. AddInv'
  BY <1>2 DEF AddInv
<1>5. RunningInv' /\ NextInv'
  BY DEF RunningInv, NextInv
<1> QED BY <1>1, <1>3, <1>4, <1>5 DEF IInv, ControlInv

(* A round of sched_add()'s loop: alltime stays the absolute time of cur.  *)
LEMMA AddLoopInv == ASSUME IInv, AddLoop PROVE IInv'
<1> USE DEF AddLoop, Searching
<1> DEFINE c == frame.cur
<1>0. QueueInv /\ ControlInv
  BY DEF IInv
<1>1. QueueInv'
  BY <1>0, QueueUnchanged
<1>2. Encodes(job_queue, due) /\ Len(job_queue) >= 1
  BY <1>0 DEF QueueInv
<1>3. /\ Len(job_queue) \in Nat /\ Len(due) = Len(job_queue)
      /\ \A i \in 1..Len(job_queue) : due[i] \in Int
      /\ \A i \in 1..Len(job_queue) :
           job_queue[i].time = due[i] - (IF i = 1 THEN 0 ELSE due[i - 1])
  BY <1>2, EncodesFront DEF Encodes
<1>4. /\ c \in 1..Len(job_queue)
      /\ frame.time \in Int /\ frame.alltime = due[c]
      /\ \A i \in 1..Len(due) : i < c => due[i] < frame.time
  BY <1>0, <1>3 DEF ControlInv, ControlType, AddInv
<1>5. /\ frame'.cur = c + 1
      /\ frame'.func = frame.func /\ frame'.time = frame.time
      /\ frame'.ret = frame.ret /\ frame'.after = frame.after
      /\ frame'.alltime = IF c + 1 <= Len(job_queue)
                          THEN frame.alltime + job_queue[c + 1].time
                          ELSE frame.alltime
  BY <1>0 DEF ControlInv, ControlType
<1>6. frame'.alltime = IF c + 1 <= Len(due) THEN due[c + 1]
                       ELSE due[Len(due)]
  <2>1. CASE c + 1 <= Len(job_queue)
    <3>1. c + 1 \in 1..Len(job_queue) /\ c + 1 # 1 /\ (c + 1) - 1 = c
      BY <1>3, <1>4, <2>1
    <3>2. job_queue[c + 1].time = due[c + 1] - due[c]
      BY <1>3, <3>1
    <3>3. due[c] \in Int /\ due[c + 1] \in Int
      BY <1>3, <1>4, <3>1
    <3> QED BY <1>3, <1>4, <1>5, <2>1, <3>2, <3>3
  <2>2. CASE ~(c + 1 <= Len(job_queue))
    <3>1. c = Len(due)
      BY <1>3, <1>4, <2>2
    <3> QED BY <1>3, <1>4, <1>5, <2>2, <3>1
  <2> QED BY <2>1, <2>2
<1>7. frame'.alltime \in Int
  BY <1>3, <1>4, <1>6
<1>8. ControlType'
  <2> DEFINE x == frame'.alltime
  <2>1. frame' = [frame EXCEPT !.cur = c + 1, !.alltime = x]
    BY <1>0, <1>5 DEF ControlInv, ControlType
  <2>2. c + 1 \in Nat \ {0} /\ x \in Int
    BY <1>3, <1>4, <1>7
  <2> HIDE DEF x, c
  <2> QED BY <1>0, <2>1, <2>2 DEF ControlInv, ControlType
<1>9. AddInv'
  <2>1. \A i \in 1..Len(due) : i < c + 1 => due[i] < frame.time
    <3> SUFFICES ASSUME NEW i \in 1..Len(due), i < c + 1
                 PROVE  due[i] < frame.time
      OBVIOUS
    <3>1. i < c \/ i = c
      BY <1>3, <1>4
    <3> QED BY <1>4, <3>1
  <2> QED BY <1>0, <1>3, <1>4, <1>5, <1>6, <2>1 DEF ControlInv, AddInv
<1>10. RunningInv' /\ NextInv'
  BY <1>0, <1>5 DEF ControlInv, RunningInv, NextInv
<1> QED BY <1>1, <1>8, <1>9, <1>10 DEF IInv, ControlInv

(* The position sched_add() stops at is the place of the new job, and the  *)
(* time it computes is the gap to the job in front.                        *)
LEMMA AddLinkPlace ==
  ASSUME IInv, AddLink
  PROVE  /\ Place(due, frame.cur, frame.time)
         /\ NewTime = Gap(due, frame.cur, frame.time)
         /\ frame.time >= 0 /\ frame.time \in Int
         /\ frame.func \in Funcs
<1> DEFINE c == frame.cur
<1>0. QueueInv /\ ControlInv
  BY DEF IInv
<1>1. Encodes(job_queue, due) /\ Len(job_queue) >= 1
  BY <1>0 DEF QueueInv
<1>2. /\ Len(job_queue) \in Nat /\ Len(due) = Len(job_queue)
      /\ \A i \in 1..Len(job_queue) : due[i] \in Int
      /\ \A i \in 1..Len(job_queue) :
           job_queue[i].time = due[i] - (IF i = 1 THEN 0 ELSE due[i - 1])
  BY <1>1, EncodesFront DEF Encodes
<1>3. /\ c \in 1..(Len(due) + 1)
      /\ frame.time \in Int /\ frame.time >= 0 /\ frame.func \in Funcs
      /\ \A i \in 1..Len(due) : i < c => due[i] < frame.time
      /\ frame.alltime = IF c <= Len(due) THEN due[c] ELSE due[Len(due)]
  BY <1>0, <1>2 DEF AddLink, Searching, ControlInv, ControlType, AddInv
<1>4. ~(c <= Len(job_queue) /\ frame.alltime < frame.time)
  BY DEF AddLink, Searching
<1> HIDE DEF c
<1>5. Place(due, c, frame.time)
  <2>1. c <= Len(due) => due[c] >= frame.time
    BY <1>2, <1>3, <1>4
  <2>2. \A i \in 1..Len(due) : i < c => due[i] <= frame.time
    BY <1>2, <1>3
  <2> QED BY <1>3, <2>1, <2>2 DEF Place
<1>6. NewTime = IF c > 1
                THEN frame.time - (frame.alltime -
                       (IF c <= Len(job_queue) THEN job_queue[c].time ELSE 0))
                ELSE frame.time
  BY <1>3 DEF NewTime, c
<1>7. CASE c = 1
  BY <1>6, <1>3, <1>5, <1>7 DEF Gap, c
<1>8. CASE c > 1 /\ c <= Len(due)
  <2>1. job_queue[c].time = due[c] - due[c - 1]
    BY <1>2, <1>3, <1>8
  <2>2. due[c] \in Int /\ due[c - 1] \in Int
    BY <1>2, <1>3, <1>8
  <2>3. NewTime = frame.time - due[c - 1]
    BY <1>2, <1>3, <1>6, <1>8, <2>1, <2>2
  <2> QED BY <1>3, <1>5, <1>8, <2>3 DEF Gap, c
<1>9. CASE c > Len(due)
  <2>1. c - 1 = Len(due) /\ c > 1
    BY <1>1, <1>2, <1>3, <1>9
  <2>2. frame.alltime = due[c - 1] /\ due[c - 1] \in Int
    BY <1>2, <1>3, <1>9, <2>1
  <2>3. NewTime = frame.time - due[c - 1]
    BY <1>2, <1>3, <1>6, <1>9, <2>1, <2>2
  <2> QED BY <1>3, <1>5, <2>1, <2>3 DEF Gap, c
<1>10. c = 1 \/ (c > 1 /\ c <= Len(due)) \/ c > Len(due)
  BY <1>2, <1>3
<1> QED BY <1>7, <1>8, <1>9, <1>10

(* The linking at the end of sched_add(), and its crash on an empty free   *)
(* list.                                                                   *)
LEMMA AddLinkInv == ASSUME IInv, AddLink PROVE IInv'
<1> DEFINE c == frame.cur
           e == Entry(frame.func, NewTime)
<1>0. QueueInv /\ ControlInv
  BY DEF IInv
<1>1. Encodes(job_queue, due) /\ Len(job_queue) >= 1
  BY <1>0 DEF QueueInv
<1>2. frame' = NoFrame /\ running' = frame.after /\ mode = "add"
  BY DEF AddLink
<1>3. /\ frame.after \in Funcs \cup {None} /\ frame.ret \in {"insn", "call"}
      /\ frame.ret = "insn" => frame.after = None
      /\ \/ frame.after = running
         \/ frame.func \in {Guard, CheckInt} /\ running = frame.func
  BY <1>0, <1>2 DEF ControlInv, ControlType, RunningInv
<1>4. mode' \in {"insn", "call", "crash"}
  BY <1>3 DEF AddLink
<1>5. ControlInv'
  <2>1. ControlType'
    BY <1>2, <1>3, <1>4 DEF ControlType, NoFrame, Frame
  <2>2. RunningInv'
    <3>1. mode' = "insn" => running' = None
      BY <1>2, <1>3 DEF AddLink
    <3>2. mode' = "crash" => free' = 0
      BY <1>0, <1>3 DEF AddLink, QueueInv
    <3> QED BY <1>4, <3>1, <3>2 DEF RunningInv
  <2> QED BY <1>4, <2>1, <2>2 DEF ControlInv, AddInv, NextInv
<1>6. QueueInv'
  <2>1. CASE free > 0
    <3>1. /\ job_queue' = Link(job_queue, c, e)
          /\ free' = free - 1
          /\ due' = InsertAt(due, c, frame.time)
      BY <2>1, AddLinkPlace DEF AddLink
    <3>2. /\ Encodes(job_queue', due')
          /\ Len(job_queue') = Len(job_queue) + 1
          /\ job_queue'[c].func = frame.func
          /\ KeepsFuncs(job_queue, job_queue')
      BY <1>1, <3>1, AddLinkPlace, LinkEncodes
    <3>3. c \in 1..Len(job_queue') /\ Len(job_queue) \in Nat
      BY <1>1, <3>2, AddLinkPlace, EncodesFront DEF Place
    <3>4. ASSUME NEW f \in {Guard, CheckInt} PROVE AlwaysQueued(f)'
      <4> SUFFICES ASSUME running' # f
                   PROVE \E i \in 1..Len(job_queue') : job_queue'[i].func = f
        BY DEF AlwaysQueued
      <4>1. CASE running = f
        <5>1. frame.func = f
          BY <1>2, <1>3, <4>1
        <5> QED BY <3>2, <3>3, <5>1
      <4>2. CASE running # f
        <5>1. PICK i \in 1..Len(job_queue) : job_queue[i].func = f
          BY <1>0, <1>2, <4>2 DEF QueueInv, AlwaysQueued
        <5> QED BY <3>2, <5>1 DEF KeepsFuncs
      <4> QED BY <4>1, <4>2
    <3>5. AlwaysQueued(Guard)' /\ AlwaysQueued(CheckInt)'
      BY <3>4
    <3>6. free' \in Nat /\ EntriesConserved'
      BY <1>0, <2>1, <3>1, <3>2, <3>3, ConstantsAssumption
         DEF QueueInv, EntriesConserved
    <3> QED BY <1>1, <3>2, <3>3, <3>5, <3>6 DEF QueueInv
  <2>2. CASE ~(free > 0)
    <3>1. UNCHANGED <<job_queue, free, due>> /\ mode' = "crash"
      BY <2>2 DEF AddLink
    <3> QED BY <1>0, <3>1 DEF QueueInv, EntriesConserved, AlwaysQueued
  <2> QED BY <2>1, <2>2
<1> QED BY <1>5, <1>6 DEF IInv

(* Behind the front job no entry has a negative time, so the loop of       *)
(* sched_next_insn() ends after the front job at the latest.               *)
LEMMA NextInsnLoopInv == ASSUME IInv, NextInsnLoop PROVE IInv'
<1> DEFINE c == frame.cur
<1>0. QueueInv /\ ControlInv
  BY DEF IInv
<1>1. /\ mode = "next" /\ mode' = "next" /\ running' = running
      /\ c <= Len(job_queue) /\ job_queue[c].time < 0
  BY DEF NextInsnLoop
<1>2. QueueInv'
  BY <1>0, <1>1, QueueUnchanged DEF NextInsnLoop
<1>3. Encodes(job_queue, due) /\ Len(job_queue) >= 1
  BY <1>0 DEF QueueInv
<1>4. /\ Len(job_queue) \in Nat /\ Len(due) = Len(job_queue)
      /\ job_queue[1].time = due[1] /\ due[1] \in Int
      /\ \A i \in 1..Len(job_queue) : due[i] \in Int
  BY <1>3, EncodesFront
<1>5. c \in {1, 2} /\ frame.alltime \in Int /\ (c = 1 => frame.alltime = 1)
  BY <1>0, <1>1 DEF ControlInv, ControlType, NextInv
<1>6. c = 1
  <2> SUFFICES ASSUME c = 2 PROVE FALSE
    BY <1>5
  <2>1. 2 \in 1..Len(job_queue) /\ 2 \in 1..Len(due) /\ 1 \in 1..Len(due)
    BY <1>1, <1>4
  <2>2. job_queue[2].time = due[2] - due[1] /\ due[1] <= due[2]
    BY <1>3, <2>1 DEF Encodes
  <2>3. due[2] \in Int
    BY <1>4, <2>1
  <2> QED BY <1>1, <1>4, <2>2, <2>3
<1>7. frame' = [frame EXCEPT !.cur = 2, !.alltime = 1 - due[1]]
  <2>1. frame' = [frame EXCEPT !.cur = c + 1,
                               !.alltime = frame.alltime - job_queue[c].time]
    BY DEF NextInsnLoop
  <2>2. c + 1 = 2 /\ frame.alltime - job_queue[c].time = 1 - due[1]
    BY <1>4, <1>5, <1>6
  <2> QED BY <2>1, <2>2
<1>8. ControlType'
  <2> DEFINE x == 1 - due[1]
             y == 2
  <2>1. /\ x \in Int /\ y \in Nat \ {0}
        /\ frame' = [frame EXCEPT !.cur = y, !.alltime = x]
    BY <1>4, <1>7
  <2>2. /\ frame \in [func : Funcs \cup {None}, time : Int, cur : Nat \ {0},
                      alltime : Int, ret : {"insn", "call"},
                      after : Funcs \cup {None}]
        /\ running \in Funcs \cup {None}
    BY <1>0 DEF ControlInv, ControlType
  <2>3. mode' = "next" /\ running' = running
    BY <1>1
  <2> HIDE DEF x, y, c
  <2>4. frame' \in [func : Funcs \cup {None}, time : Int, cur : Nat \ {0},
                    alltime : Int, ret : {"insn", "call"},
                    after : Funcs \cup {None}]
    BY <2>1, <2>2
  <2> QED BY <2>2, <2>3, <2>4 DEF ControlType
<1>9. /\ frame'.cur = 2 /\ frame'.alltime = 1 - due[1]
      /\ frame'.func = frame.func /\ frame'.ret = frame.ret
      /\ frame'.after = frame.after
  BY <1>0, <1>7 DEF ControlInv, ControlType
<1>10. due' = due
  BY DEF NextInsnLoop
<1>11. NextInv'
  BY <1>0, <1>1, <1>4, <1>6, <1>9, <1>10 DEF ControlInv, NextInv
<1>12. RunningInv' /\ AddInv'
  BY <1>0, <1>1, <1>9 DEF ControlInv, RunningInv, AddInv
<1> QED BY <1>2, <1>8, <1>11, <1>12 DEF IInv, ControlInv

(* sched_next_insn() always calls sched_add() with a time above zero.      *)
LEMMA NextInsnAddInv == ASSUME IInv, NextInsnAdd PROVE IInv'
<1>0. QueueInv /\ ControlInv
  BY DEF IInv
<1>1. mode = "next"
  BY DEF NextInsnAdd
<1>2. /\ frame.func \in Jobs /\ frame.alltime \in Int
      /\ frame.cur \in {1, 2}
      /\ frame.cur = 1 => frame.alltime = 1
      /\ frame.cur = 2 => due[1] < 0 /\ frame.alltime = 1 - due[1]
  BY <1>0, <1>1 DEF ControlInv, ControlType, NextInv
<1>3. due[1] \in Int
  BY <1>0, EncodesFront DEF QueueInv
<1>4. frame.alltime >= 0
  BY <1>2, <1>3
<1>5. /\ frame.ret \in {"insn", "call"} /\ frame.after \in Funcs \cup {None}
      /\ frame.ret = "insn" => running = None /\ frame.after = None
      /\ frame.after = running /\ running # Guard
  BY <1>0, <1>1, <1>2, ConstantsAssumption
     DEF ControlInv, ControlType, RunningInv, Funcs
<1>6. EnterAdd(frame.func, frame.alltime, frame.ret, frame.after)
  BY DEF NextInsnAdd
<1> QED BY <1>1, <1>2, <1>4, <1>5, <1>6, EnterAddInv DEF Funcs

(* A call of SCHED_ADD by a job function, an instruction or the command    *)
(* line.                                                                   *)
LEMMA CallAddInv ==
  ASSUME IInv, NEW f \in Jobs, NEW t \in Delays, CallAdd(f, t)
  PROVE  IInv'
<1>1. mode \in {"insn", "call"} /\ running # Guard
  BY DEF CallAdd, Active
<1>2. mode = "insn" => running = None
  BY DEF IInv, ControlInv, RunningInv
<1>3. t \in Int /\ t >= 0 /\ f \in Funcs /\ running \in Funcs \cup {None}
  BY ConstantsAssumption DEF IInv, ControlInv, ControlType, Funcs
<1>4. EnterAdd(f, t, mode, running)
  BY DEF CallAdd
<1> QED BY <1>1, <1>2, <1>3, <1>4, EnterAddInv

(* sched_guard() and check_int() adding themselves again.                  *)
LEMMA RearmInv ==
  ASSUME IInv, NEW f \in {Guard, CheckInt}, NEW t \in Nat, Rearm(f, t)
  PROVE  IInv'
<1>1. mode = "call" /\ running = f /\ EnterAdd(f, t, "call", None)
  BY DEF Rearm
<1>2. f \in Funcs /\ t \in Int /\ t >= 0
  BY DEF Funcs
<1> QED BY <1>1, <1>2, EnterAddInv

(* The entry of sched_next_insn().                                         *)
LEMMA CallNextInsnInv ==
  ASSUME IInv, NEW f \in Jobs, CallNextInsn(f)
  PROVE  IInv'
<1>0. QueueInv /\ ControlInv
  BY DEF IInv
<1>1. /\ mode \in {"insn", "call"} /\ running # Guard
      /\ mode' = "next" /\ running' = running
      /\ frame' = Frame(f, 0, 1, 1, mode, running)
  BY DEF CallNextInsn, Active
<1>2. QueueInv'
  BY <1>0, <1>1, QueueUnchanged DEF CallNextInsn
<1>3. ControlType'
  BY <1>0, <1>1 DEF ControlInv, ControlType, Frame, Funcs
<1>4. RunningInv' /\ AddInv' /\ NextInv'
  BY <1>0, <1>1 DEF ControlInv, RunningInv, AddInv, NextInv, Frame
<1> QED BY <1>2, <1>3, <1>4 DEF IInv, ControlInv

(* A job function returns to do_scheduler().                               *)
LEMMA ReturnInv == ASSUME IInv, Return PROVE IInv'
<1>0. QueueInv /\ ControlInv
  BY DEF IInv
<1>1. /\ mode = "call" /\ running \notin {Guard, CheckInt}
      /\ mode' \in {"loop", "insn"} /\ running' = None /\ frame' = frame
  BY DEF Return
<1>2. QueueInv'
  BY <1>0, <1>1, QueueUnchanged DEF Return
<1>3. ControlType'
  BY <1>0, <1>1 DEF ControlInv, ControlType
<1>4. RunningInv' /\ AddInv' /\ NextInv'
  BY <1>0, <1>1 DEF ControlInv, RunningInv, AddInv, NextInv
<1> QED BY <1>2, <1>3, <1>4 DEF IInv, ControlInv

(* sched_reset() gives every entry back before it takes two.               *)
LEMMA ResetInv == ASSUME IInv, Reset PROVE IInv'
<1>0. QueueInv /\ ControlInv
  BY DEF IInv
<1>1. /\ job_queue' = FreshQueue /\ due' = <<1, TIME_MAX>>
      /\ free' = free + Len(job_queue) - 2
      /\ mode \in {"insn", "call"}
      /\ UNCHANGED <<mode, running, frame>>
  BY DEF Reset, Active
<1>2. Len(job_queue) \in Nat
  BY <1>0, EncodesFront DEF QueueInv
<1>3. EntriesConserved' /\ free' \in Nat
  BY <1>0, <1>1, <1>2, FreshEncodes, ConstantsAssumption
     DEF QueueInv, EntriesConserved
<1>4. AlwaysQueued(Guard)' /\ AlwaysQueued(CheckInt)'
  BY <1>1, FreshEncodes DEF AlwaysQueued
<1>5. QueueInv'
  BY <1>1, <1>3, <1>4, FreshEncodes DEF QueueInv
<1>6. ControlInv'
  BY <1>0, <1>1 DEF ControlInv, ControlType, RunningInv, AddInv, NextInv
<1> QED BY <1>5, <1>6 DEF IInv

(* The main loop writes the front entry only; every absolute time moves.   *)
LEMMA EndInsnInv ==
  ASSUME IInv, NEW c \in Cycles, EndInsn(c)
  PROVE  IInv'
<1>0. QueueInv /\ ControlInv
  BY DEF IInv
<1>1. Encodes(job_queue, due) /\ Len(job_queue) >= 1
  BY <1>0 DEF QueueInv
<1>2. /\ Len(job_queue) \in Nat /\ Len(due) = Len(job_queue)
      /\ \A i \in 1..Len(job_queue) : due[i] \in Int
      /\ job_queue \in Seq(Entries) /\ due \in Seq(Int)
      /\ \A i \in 1..Len(job_queue) :
           job_queue[i].time = due[i] - (IF i = 1 THEN 0 ELSE due[i - 1])
      /\ \A i, j \in 1..Len(due) : i <= j => due[i] <= due[j]
  BY <1>1, EncodesFront DEF Encodes
<1>3. c \in Int
  BY ConstantsAssumption
<1>4. /\ mode = "insn" /\ mode' \in {"loop", "insn"}
      /\ free' = free /\ running' = running /\ frame' = frame
      /\ job_queue' = [job_queue EXCEPT ![1].time = @ - c]
      /\ due' = [i \in DOMAIN due |-> due[i] - c]
  BY DEF EndInsn
<1>5. /\ due' \in Seq(Int) /\ Len(due') = Len(due)
      /\ \A i \in 1..Len(due) : due'[i] = due[i] - c
  <2>1. DOMAIN due = 1..Len(due) /\ Len(due) \in Nat
    BY <1>2
  <2>2. \A i \in 1..Len(due) : due[i] - c \in Int
    BY <1>2, <1>3
  <2>3. due' = [i \in 1..Len(due) |-> due[i] - c]
    BY <1>4, <2>1
  <2> QED BY <2>1, <2>2, <2>3
<1>6. \A i \in 1..Len(job_queue) : job_queue[i] \in Entries
  BY <1>2
<1>7. /\ job_queue' \in Seq(Entries) /\ Len(job_queue') = Len(job_queue)
      /\ \A i \in 1..Len(job_queue) :
           /\ job_queue'[i].func = job_queue[i].func
           /\ job_queue'[i].time = IF i = 1 THEN job_queue[i].time - c
                                   ELSE job_queue[i].time
  <2> DEFINE e == [job_queue[1] EXCEPT !.time = @ - c]
  <2>1. /\ e \in Entries /\ e.func = job_queue[1].func
        /\ e.time = job_queue[1].time - c
    <3>1. 1 \in 1..Len(job_queue)
      BY <1>1, <1>2
    <3>2. job_queue[1] \in Entries
      BY <1>6, <3>1
    <3>3. job_queue[1].time - c \in Int
      BY <1>3, <3>2 DEF Entries
    <3> QED BY <3>2, <3>3 DEF Entries
  <2>2. job_queue' = [job_queue EXCEPT ![1] = e]
    BY <1>4
  <2> HIDE DEF e
  <2>3. /\ job_queue' \in Seq(Entries) /\ Len(job_queue') = Len(job_queue)
        /\ \A i \in 1..Len(job_queue) :
             job_queue'[i] = IF i = 1 THEN e ELSE job_queue[i]
    BY <1>1, <1>2, <2>1, <2>2
  <2> QED BY <2>1, <2>3
<1>8. Encodes(job_queue', due')
  <2>1. \A i \in 1..Len(job_queue) :
          job_queue'[i].time = due'[i] - (IF i = 1 THEN 0 ELSE due'[i - 1])
    <3> SUFFICES ASSUME NEW i \in 1..Len(job_queue)
                 PROVE  job_queue'[i].time =
                          due'[i] - (IF i = 1 THEN 0 ELSE due'[i - 1])
      OBVIOUS
    <3>1. CASE i = 1
      <4>1. 1 \in 1..Len(job_queue) /\ 1 \in 1..Len(due)
        BY <1>1, <1>2
      <4>2. job_queue[1].time = due[1] /\ due[1] \in Int
        BY <1>1, EncodesFront
      <4>3. job_queue'[1].time = due[1] - c
        BY <1>7, <4>1, <4>2
      <4>4. due'[1] = due[1] - c
        BY <1>5, <4>1
      <4> QED BY <1>3, <3>1, <4>2, <4>3, <4>4
    <3>2. CASE i # 1
      <4>1. i - 1 \in 1..Len(due) /\ i \in 1..Len(due)
        BY <1>2, <3>2
      <4>2. due'[i - 1] = due[i - 1] - c /\ due'[i] = due[i] - c
        BY <1>5, <4>1
      <4>3. due[i - 1] \in Int /\ due[i] \in Int
        BY <1>2, <4>1
      <4>4. job_queue'[i].time = due[i] - due[i - 1]
        BY <1>2, <1>7, <3>2
      <4> QED BY <1>3, <3>2, <4>2, <4>3, <4>4
    <3> QED BY <3>1, <3>2
  <2>2. \A i, j \in 1..Len(due') : i <= j => due'[i] <= due'[j]
    <3> SUFFICES ASSUME NEW i \in 1..Len(due), NEW j \in 1..Len(due), i <= j
                 PROVE  due'[i] <= due'[j]
      BY <1>5
    <3>1. due[i] <= due[j] /\ due[i] \in Int /\ due[j] \in Int
      BY <1>2
    <3> QED BY <1>3, <1>5, <3>1
  <2> QED BY <1>2, <1>5, <1>7, <2>1, <2>2 DEF Encodes
<1>9. AlwaysQueued(Guard)' /\ AlwaysQueued(CheckInt)'
  BY <1>0, <1>4, <1>7 DEF QueueInv, AlwaysQueued
<1>10. QueueInv'
  BY <1>0, <1>1, <1>4, <1>7, <1>8, <1>9 DEF QueueInv, EntriesConserved
<1>11. ControlType' /\ RunningInv' /\ AddInv' /\ NextInv'
  BY <1>0, <1>4 DEF ControlInv, ControlType, RunningInv, AddInv, NextInv
<1> QED BY <1>10, <1>11 DEF IInv, ControlInv

(* Unlinking an entry whose function is not needed in the queue.           *)
LEMMA UnlinkQueueInv ==
  ASSUME IInv, NEW c \in 1..Len(job_queue),
         job_queue' = Unlink(job_queue, c), due' = RemoveAt(due, c),
         free' = free + 1, Len(job_queue) >= 2,
         mode \in {"insn", "loop", "call"},
         \/ running' = job_queue[c].func /\ running = None
         \/ running' = running /\ job_queue[c].func \in Jobs
  PROVE  QueueInv'
<1>0. QueueInv /\ Encodes(job_queue, due)
  BY DEF IInv, QueueInv
<1>1. /\ Encodes(job_queue', due')
      /\ Len(job_queue') = Len(job_queue) - 1
      /\ \A i \in 1..Len(job_queue) :
           i # c => \E j \in 1..Len(job_queue') :
                      job_queue'[j].func = job_queue[i].func
  <2>1. job_queue' = Unlink(job_queue, c) /\ due' = RemoveAt(due, c)
    OBVIOUS
  <2>2. LET q2 == Unlink(job_queue, c)
        IN  /\ Encodes(q2, RemoveAt(due, c))
            /\ Len(q2) = Len(job_queue) - 1
            /\ \A i \in 1..Len(job_queue) :
                 i # c => \E j \in 1..Len(q2) : q2[j].func = job_queue[i].func
    BY <1>0, UnlinkEncodes
  <2> QED BY ONLY <2>1, <2>2
<1>2. Len(job_queue) \in Nat
  BY <1>0, EncodesFront
<1>3. ASSUME NEW f \in {Guard, CheckInt} PROVE AlwaysQueued(f)'
  <2> SUFFICES ASSUME running' # f
               PROVE \E i \in 1..Len(job_queue') : job_queue'[i].func = f
    BY DEF AlwaysQueued
  <2>1. f \notin Jobs /\ f # None
    BY ConstantsAssumption DEF Funcs
  <2>2. running # f /\ job_queue[c].func # f
    BY <2>1
  <2>3. PICK i \in 1..Len(job_queue) : job_queue[i].func = f
    BY <1>0, <2>2 DEF QueueInv, AlwaysQueued
  <2> QED BY <1>1, <2>2, <2>3
<1>4. AlwaysQueued(Guard)' /\ AlwaysQueued(CheckInt)'
  BY <1>3
<1>5. free' \in Nat /\ EntriesConserved' /\ Len(job_queue') >= 1
  BY <1>0, <1>1, <1>2, ConstantsAssumption DEF QueueInv, EntriesConserved
<1> QED BY <1>1, <1>4, <1>5 DEF QueueInv

(* sched_find_remove() of a job that is neither check_int nor the guard    *)
(* preserves the invariant.                                                *)
LEMMA FindRemoveInv ==
  ASSUME IInv, NEW f \in Jobs, FindRemove(f)
  PROVE  IInv'
<1> DEFINE match == {i \in DOMAIN job_queue : job_queue[i].func = f}
<1>0. QueueInv /\ ControlInv
  BY DEF IInv
<1>1. /\ mode \in {"insn", "call"} /\ running # Guard
      /\ UNCHANGED <<mode, running, frame>>
  BY DEF FindRemove, Active
<1>2. ControlInv'
  BY <1>0, <1>1 DEF ControlInv, ControlType, RunningInv, AddInv, NextInv
<1>3. CASE UNCHANGED <<job_queue, free, due>>
  BY <1>0, <1>1, <1>2, <1>3, QueueUnchanged DEF IInv
<1>4. CASE \E c \in match : /\ job_queue' = Unlink(job_queue, c)
                            /\ due' = RemoveAt(due, c)
                            /\ free' = free + 1
  <2>1. DOMAIN job_queue = 1..Len(job_queue) /\ Len(job_queue) \in Nat
    BY <1>0 DEF QueueInv, Encodes
  <2>4. PICK c \in match : /\ job_queue' = Unlink(job_queue, c)
                           /\ due' = RemoveAt(due, c)
                           /\ free' = free + 1
    BY <1>4
  <2>5. c \in 1..Len(job_queue) /\ job_queue[c].func = f
    BY <2>1
  <2> HIDE DEF match
  <2>6. Len(job_queue) >= 2
    <3>1. f \notin {Guard, CheckInt} /\ Guard # CheckInt
      BY ConstantsAssumption
    <3>2. PICK g \in {Guard, CheckInt} : running # g
      BY <3>1
    <3>3. PICK i \in 1..Len(job_queue) : job_queue[i].func = g
      BY <1>0, <1>1, <3>2 DEF QueueInv, AlwaysQueued
    <3>4. i # c
      BY <2>5, <3>1, <3>3
    <3> QED BY <2>1, <2>5, <3>4
  <2>7. QueueInv'
    BY <1>1, <2>4, <2>5, <2>6, UnlinkQueueInv
  <2> QED BY <1>2, <2>7 DEF IInv
<1> QED BY <1>3, <1>4 DEF FindRemove

(* do_scheduler() unlinks the front entry before it calls its function.    *)
LEMMA PopInv == ASSUME IInv, Pop PROVE IInv'
<1>0. QueueInv /\ ControlInv /\ Len(job_queue) >= 2
  BY InvImplies DEF IInv, Pop, QueueNeverEmpties
<1>1. /\ Len(job_queue) \in Nat
      /\ \A i \in 1..Len(job_queue) : job_queue[i].func \in Funcs
  BY <1>0, EncodesFront DEF QueueInv
<1>2. /\ job_queue' = Unlink(job_queue, 1) /\ due' = RemoveAt(due, 1)
      /\ free' = free + 1
      /\ running' = job_queue[1].func
      /\ mode = "loop" /\ mode' = "call" /\ frame' = frame
  BY <1>0, <1>1 DEF Pop
<1>3. running = None
  BY <1>0, <1>2 DEF ControlInv, RunningInv
<1>4. 1 \in 1..Len(job_queue)
  BY <1>0, <1>1
<1>5. QueueInv'
  BY <1>0, <1>2, <1>3, <1>4, UnlinkQueueInv
<1>6. ControlType' /\ RunningInv' /\ AddInv' /\ NextInv'
  BY <1>0, <1>1, <1>2, <1>4
     DEF ControlInv, ControlType, RunningInv, AddInv, NextInv
<1> QED BY <1>5, <1>6 DEF IInv, ControlInv
-----------------------------------------------------------------------------
(* do_scheduler() is entered, and goes round, only when the front job is   *)
(* due.                                                                    *)
LoopInv == mode = "loop" => due[1] <= 0

(* Every step of the specification preserves the invariant.                *)
LEMMA NextIInv == IInv /\ [Next]_vars => IInv'
<1> SUFFICES ASSUME IInv, [Next]_vars PROVE IInv'
  OBVIOUS
<1>1. ASSUME NEW f \in Jobs, NEW t \in Delays, CallAdd(f, t) PROVE IInv'
  BY <1>1, CallAddInv
<1>2. ASSUME NEW f \in Jobs, CallNextInsn(f) PROVE IInv'
  BY <1>2, CallNextInsnInv
<1>3. ASSUME NEW f \in Jobs, FindRemove(f) PROVE IInv'
  BY <1>3, FindRemoveInv
<1>4. CASE Reset
  BY <1>4, ResetInv
<1>5. CASE AddLoop
  BY <1>5, AddLoopInv
<1>6. CASE AddLink
  BY <1>6, AddLinkInv
<1>7. CASE NextInsnLoop
  BY <1>7, NextInsnLoopInv
<1>8. CASE NextInsnAdd
  BY <1>8, NextInsnAddInv
<1>9. ASSUME NEW c \in Cycles, EndInsn(c) PROVE IInv'
  BY <1>9, EndInsnInv
<1>10. CASE Pop
  BY <1>10, PopInv
<1>11. CASE Rearm(Guard, TIME_MAX) \/ Rearm(CheckInt, CHECK_INT_TIME)
  <2>1. TIME_MAX \in Nat /\ CHECK_INT_TIME \in Nat
    BY ConstantsAssumption
  <2> QED BY <1>11, <2>1, RearmInv
<1>12. CASE Return
  BY <1>12, ReturnInv
<1>13. CASE UNCHANGED vars
  BY <1>13 DEF vars, IInv, QueueInv, ControlInv, ControlType, RunningInv,
     AddInv, NextInv, EntriesConserved, AlwaysQueued, Encodes
<1> QED BY <1>1, <1>2, <1>3, <1>4, <1>5, <1>6, <1>7, <1>8, <1>9, <1>10,
           <1>11, <1>12, <1>13 DEF Next

(* The invariant holds in every reachable state.                           *)
THEOREM Invariance == Spec => []IInv
  BY InitInv, NextIInv, PTL DEF Spec

(* The variables keep their types.                                         *)
THEOREM TypeCorrect == Spec => []TypeOK
<1>1. IInv => TypeOK
  BY InvImplies
<1> QED BY <1>1, Invariance, PTL

(* For every heap size, every set of jobs and all times: the differences   *)
(* stored by sched_add(), sched_find_remove() and do_scheduler() always    *)
(* add up to the times the callers asked for.                              *)
THEOREM DeltaEncodingHolds == Spec => []DeltaEncoding
<1>1. IInv => DeltaEncoding
  BY InvImplies
<1> QED BY <1>1, Invariance, PTL

(* For every heap size: no entry of the heap of sched_init() is lost or    *)
(* linked twice.                                                           *)
THEOREM EntriesConservedHolds == Spec => []EntriesConserved
<1>1. IInv => EntriesConserved
  BY InvImplies
<1> QED BY <1>1, Invariance, PTL

(* do_scheduler() always finds a second entry to write to, and the only    *)
(* NULL pointer the scheduler can follow is the head of an empty free      *)
(* list.                                                                   *)
THEOREM QueueNeverEmptiesHolds == Spec => []QueueNeverEmpties
<1>1. IInv => QueueNeverEmpties
  BY InvImplies
<1> QED BY <1>1, Invariance, PTL

(* The two places that enter the loop of do_scheduler() compare the time   *)
(* of the front entry with zero; it is the absolute time of that job.      *)
LEMMA NextLoopInv == IInv /\ LoopInv /\ [Next]_vars => LoopInv'
<1> SUFFICES ASSUME IInv, LoopInv, [Next]_vars, mode' = "loop"
             PROVE  due'[1] <= 0
  BY DEF LoopInv
<1>1. IInv'
  BY NextIInv
<1>2. job_queue'[1].time = due'[1]
  BY <1>1, EncodesFront DEF IInv, QueueInv
<1>3. ASSUME NEW c \in Cycles, EndInsn(c) PROVE job_queue'[1].time <= 0
  BY <1>3 DEF EndInsn
<1>4. CASE Return
  BY <1>2, <1>4 DEF Return
<1>5. CASE UNCHANGED vars
  BY <1>5 DEF vars, LoopInv
<1>6. CASE AddLink
  <2>1. frame.ret \in {"insn", "call"}
    BY DEF IInv, ControlInv, ControlType
  <2> QED BY <1>6, <2>1 DEF AddLink
<1>7. ASSUME NEW f \in Jobs, NEW t \in Delays, CallAdd(f, t) PROVE FALSE
  BY <1>7 DEF CallAdd, EnterAdd
<1>8. ASSUME NEW f \in Jobs, CallNextInsn(f) \/ FindRemove(f) PROVE FALSE
  BY <1>8 DEF CallNextInsn, FindRemove, Active
<1>9. ~(Reset \/ AddLoop \/ NextInsnLoop \/ NextInsnAdd \/ Pop)
  BY DEF Reset, Active, AddLoop, NextInsnLoop, NextInsnAdd, EnterAdd, Pop
<1>10. ~(Rearm(Guard, TIME_MAX) \/ Rearm(CheckInt, CHECK_INT_TIME))
  BY DEF Rearm, EnterAdd
<1> QED BY <1>2, <1>3, <1>4, <1>5, <1>6, <1>7, <1>8, <1>9, <1>10 DEF Next

(* For all times and all interleavings of callers: do_scheduler() calls a  *)
(* job only when it is due and before every later one, and returns to the  *)
(* main loop only when nothing is due.                                     *)
THEOREM DeadlinesKeptHolds == Spec => DeadlinesKept
<1> DEFINE Kept ==
      /\ (mode = "loop" /\ mode' = "call") =>
           due[1] <= 0 /\ \A i \in DOMAIN due : due[1] <= due[i]
      /\ (mode = "call" /\ mode' = "insn") =>
           \A i \in DOMAIN due' : due'[i] > 0
<1>1. Init => LoopInv
  BY DEF Init, LoopInv
<1>2. IInv => /\ \A i \in DOMAIN due : due[1] <= due[i] /\ due[i] \in Int
              /\ due[1] = job_queue[1].time /\ due[1] \in Int
  <2> SUFFICES ASSUME IInv
               PROVE  /\ \A i \in DOMAIN due :
                           due[1] <= due[i] /\ due[i] \in Int
                      /\ due[1] = job_queue[1].time /\ due[1] \in Int
    OBVIOUS
  <2>1. DueSorted /\ due \in Seq(Int)
    BY InvImplies DEF TypeOK
  <2>2. /\ Len(due) >= 1 /\ Len(due) \in Nat
        /\ due[1] = job_queue[1].time /\ due[1] \in Int
    BY EncodesFront DEF IInv, QueueInv
  <2>3. DOMAIN due = 1..Len(due)
    BY <2>1
  <2>4. \A i \in 1..Len(due) : due[i] \in Int
    BY <2>1
  <2>5. \A i \in 1..Len(due) : due[1] <= due[i]
    BY <2>1, <2>2 DEF DueSorted
  <2> QED BY <2>2, <2>3, <2>4, <2>5
<1>3. IInv /\ LoopInv /\ [Next]_vars => [Kept]_vars
  <2> SUFFICES ASSUME IInv, LoopInv, Next PROVE Kept
    OBVIOUS
  <2>1. ASSUME mode = "loop", mode' = "call"
        PROVE  due[1] <= 0 /\ \A i \in DOMAIN due : due[1] <= due[i]
    BY <1>2, <2>1 DEF LoopInv
  <2>2. ASSUME mode = "call", mode' = "insn"
        PROVE  \A i \in DOMAIN due' : due'[i] > 0
    <3>1. Return
      <4>1. ~(AddLoop \/ AddLink \/ NextInsnLoop \/ NextInsnAdd \/ Pop \/ Reset)
        BY <2>2 DEF AddLoop, AddLink, NextInsnLoop, NextInsnAdd, Pop, Reset
      <4>2. \A f \in Jobs : ~(FindRemove(f) \/ CallNextInsn(f))
        BY <2>2 DEF FindRemove, CallNextInsn
      <4>3. \A f \in Jobs, t \in Delays : ~CallAdd(f, t)
        BY <2>2 DEF CallAdd, EnterAdd
      <4>4. ~(Rearm(Guard, TIME_MAX) \/ Rearm(CheckInt, CHECK_INT_TIME))
        BY <2>2 DEF Rearm, EnterAdd
      <4>5. \A c \in Cycles : ~EndInsn(c)
        BY <2>2 DEF EndInsn
      <4> QED BY <4>1, <4>2, <4>3, <4>4, <4>5 DEF Next
    <3>2. due' = due /\ ~(job_queue[1].time <= 0)
      BY <2>2, <3>1 DEF Return
    <3>3. due[1] > 0
      BY <1>2, <3>2
    <3>4. \A i \in DOMAIN due : due[i] > 0
      BY <1>2, <3>3
    <3> QED BY <3>2, <3>4
  <2> QED BY <2>1, <2>2
<1>4. LoopInv /\ []IInv /\ [][Next]_vars => []LoopInv
  BY NextLoopInv, PTL
<1>5. []IInv /\ []LoopInv /\ [][Next]_vars => [][Kept]_vars
  BY <1>3, PTL
<1>6. [][Kept]_vars => DeadlinesKept
  BY DEF DeadlinesKept
<1> QED BY <1>1, <1>4, <1>5, <1>6, Invariance, PTL DEF Spec
-----------------------------------------------------------------------------
(***************************************************************************)
(* The refinement of AbsSched: the mapping of module Sched pairs each      *)
(* entry of the list with its absolute time.                               *)
(***************************************************************************)
(* The agenda a list q of differences stands for when its jobs are due at  *)
(* the times d.                                                            *)
AgendaOf(q, d) ==
  [i \in DOMAIN q |-> [func |-> q[i].func, due |-> d[i]]]

AbsJobs == [func : Funcs, due : Int]

(* The agenda of an encoded queue, entry by entry.                         *)
LEMMA AgendaProps ==
  ASSUME NEW q, NEW d, Encodes(q, d)
  PROVE  /\ AgendaOf(q, d) \in Seq(AbsJobs)
         /\ Len(AgendaOf(q, d)) = Len(q)
         /\ Len(q) \in Nat /\ Len(d) = Len(q)
         /\ \A i \in 1..Len(q) :
              /\ AgendaOf(q, d)[i].func = q[i].func
              /\ AgendaOf(q, d)[i].due = d[i]
              /\ q[i].func \in Funcs /\ d[i] \in Int
<1>1. /\ q \in Seq(Entries) /\ d \in Seq(Int) /\ Len(d) = Len(q)
      /\ Len(q) \in Nat /\ DOMAIN q = 1..Len(q)
  BY DEF Encodes
<1>2. \A i \in 1..Len(q) : q[i].func \in Funcs
  <2>1. \A i \in 1..Len(q) : q[i] \in Entries
    BY <1>1
  <2> QED BY <2>1 DEF Entries
<1>3. \A i \in 1..Len(q) : d[i] \in Int
  BY <1>1
<1>4. AgendaOf(q, d) = [i \in 1..Len(q) |-> [func |-> q[i].func, due |-> d[i]]]
  BY <1>1 DEF AgendaOf
<1>5. \A i \in 1..Len(q) : [func |-> q[i].func, due |-> d[i]] \in AbsJobs
  BY <1>2, <1>3 DEF AbsJobs
<1>6. AgendaOf(q, d) \in Seq(AbsJobs) /\ Len(AgendaOf(q, d)) = Len(q)
  BY <1>1, <1>4, <1>5
<1> QED BY <1>1, <1>2, <1>3, <1>4, <1>6

(* Two agendas with the same length, functions and times are the same.     *)
LEMMA AgendaEqual ==
  ASSUME NEW a \in Seq(AbsJobs), NEW b \in Seq(AbsJobs), Len(a) = Len(b),
         \A i \in 1..Len(a) : a[i].func = b[i].func /\ a[i].due = b[i].due
  PROVE  a = b
<1>1. ASSUME NEW i \in 1..Len(a) PROVE a[i] = b[i]
  <2>1. a[i] \in AbsJobs /\ b[i] \in AbsJobs
    OBVIOUS
  <2>2. \A x \in AbsJobs : x = [func |-> x.func, due |-> x.due]
    BY DEF AbsJobs
  <2>3. a[i].func = b[i].func /\ a[i].due = b[i].due
    OBVIOUS
  <2> QED BY <2>1, <2>2, <2>3
<1>2. DOMAIN a = 1..Len(a) /\ DOMAIN b = 1..Len(a)
  OBVIOUS
<1> QED BY <1>1, <1>2, SeqEqual

(* Linking an entry into the list adds the job to the agenda, in the same  *)
(* place.                                                                  *)
LEMMA LinkAgenda ==
  ASSUME NEW q, NEW d, NEW f \in Funcs, NEW t \in Int, NEW nt, NEW c,
         Encodes(q, d), Place(d, c, t), nt = Gap(d, c, t)
  PROVE  AgendaOf(Link(q, c, Entry(f, nt)), InsertAt(d, c, t))
           = InsertAt(AgendaOf(q, d), c, [func |-> f, due |-> t])
<1> DEFINE e == Entry(f, nt)
           r == [i \in DOMAIN q |->
                   IF i = c THEN Entry(q[i].func, q[i].time - e.time)
                   ELSE q[i]]
           q2 == Link(q, c, e)
           d2 == InsertAt(d, c, t)
           a == AgendaOf(q, d)
           j0 == [func |-> f, due |-> t]
           a2 == InsertAt(a, c, j0)
<1>1. /\ q \in Seq(Entries) /\ d \in Seq(Int) /\ Len(d) = Len(q)
      /\ Len(q) \in Nat /\ DOMAIN q = 1..Len(q)
      /\ \A i \in 1..Len(q) : q[i] \in Entries /\ d[i] \in Int
      /\ c \in 1..(Len(q) + 1)
  BY DEF Encodes, Place
<1>2. nt \in Int
  BY <1>1 DEF Gap
<1>3. e \in Entries /\ e.func = f /\ e.time = nt
  BY <1>2 DEF Entry, Entries
<1>4. q2 = InsertAt(r, c, e)
  BY DEF Link
<1>5. /\ r \in Seq(Entries) /\ Len(r) = Len(q)
      /\ \A i \in 1..Len(q) : r[i].func = q[i].func
  <2>1. r = [i \in 1..Len(q) |->
               IF i = c THEN Entry(q[i].func, q[i].time - nt) ELSE q[i]]
    BY <1>1, <1>3
  <2>2. \A i \in 1..Len(q) :
          IF i = c THEN Entry(q[i].func, q[i].time - nt) \in Entries
          ELSE q[i] \in Entries
    BY <1>1, <1>2 DEF Entry, Entries
  <2> HIDE DEF r, e
  <2>3. r \in Seq(Entries) /\ Len(r) = Len(q)
    BY <1>1, <2>1, <2>2
  <2>4. \A i \in 1..Len(q) : r[i].func = q[i].func
    BY <1>1, <1>2, <2>1 DEF Entry, Entries
  <2> QED BY <2>3, <2>4
<1>6. Encodes(q2, d2) /\ Len(q2) = Len(q) + 1
  BY LinkEncodes
<1>7. /\ a \in Seq(AbsJobs) /\ Len(a) = Len(q)
      /\ \A i \in 1..Len(q) : a[i].func = q[i].func /\ a[i].due = d[i]
      /\ j0 \in AbsJobs /\ j0.func = f /\ j0.due = t
  <2>1. j0 \in AbsJobs /\ j0.func = f /\ j0.due = t
    BY DEF AbsJobs
  <2> HIDE DEF a, j0
  <2>2. /\ a \in Seq(AbsJobs) /\ Len(a) = Len(q)
        /\ \A i \in 1..Len(q) : a[i].func = q[i].func /\ a[i].due = d[i]
    BY AgendaProps DEF a
  <2> QED BY <2>1, <2>2
<1> HIDE DEF r, e, q2, d2, a, j0, a2
<1>8. Inserted(q2, r, c, e)
  BY <1>1, <1>3, <1>4, <1>5, InsertAtProps
<1>9. Inserted(d2, d, c, t)
  BY <1>1, InsertAtProps DEF d2
<1>10. a2 \in Seq(AbsJobs) /\ Inserted(a2, a, c, j0)
  BY <1>1, <1>7, InsertAtProps DEF a2
<1>11. /\ AgendaOf(q2, d2) \in Seq(AbsJobs)
       /\ Len(AgendaOf(q2, d2)) = Len(q2)
       /\ \A i \in 1..Len(q2) : /\ AgendaOf(q2, d2)[i].func = q2[i].func
                                /\ AgendaOf(q2, d2)[i].due = d2[i]
  BY <1>6, AgendaProps
<1>12. Len(a2) = Len(q2)
  BY <1>6, <1>7, <1>10 DEF Inserted
<1>13. ASSUME NEW i \in 1..Len(q2)
       PROVE  q2[i].func = a2[i].func /\ d2[i] = a2[i].due
  <2>0. i \in 1..(Len(q) + 1)
    BY <1>6
  <2>1. /\ q2[i] = IF i < c THEN r[i] ELSE IF i = c THEN e ELSE r[i - 1]
        /\ d2[i] = IF i < c THEN d[i] ELSE IF i = c THEN t ELSE d[i - 1]
        /\ a2[i] = IF i < c THEN a[i] ELSE IF i = c THEN j0 ELSE a[i - 1]
    BY <1>1, <1>5, <1>7, <1>8, <1>9, <1>10, <2>0 DEF Inserted
  <2>2. CASE i < c
    <3>1. i \in 1..Len(q)
      BY <1>1, <2>0, <2>2
    <3> QED BY <1>5, <1>7, <2>1, <2>2, <3>1
  <2>3. CASE i = c
    BY <1>3, <1>7, <2>1, <2>3
  <2>4. CASE i > c
    <3>1. i - 1 \in 1..Len(q) /\ ~(i < c) /\ i # c
      BY <1>1, <2>0, <2>4
    <3> QED BY <1>5, <1>7, <2>1, <3>1
  <2>5. i < c \/ i = c \/ i > c
    BY <1>1, <2>0
  <2> QED BY <2>2, <2>3, <2>4, <2>5
<1>14. AgendaOf(q2, d2) = a2
  BY <1>10, <1>11, <1>12, <1>13, AgendaEqual
<1> QED BY <1>14 DEF q2, d2, a2, a, j0, e

(* Unlinking an entry takes its job off the agenda.                        *)
LEMMA UnlinkAgenda ==
  ASSUME NEW q, NEW d, NEW c, Encodes(q, d), c \in 1..Len(q)
  PROVE  AgendaOf(Unlink(q, c), RemoveAt(d, c)) = RemoveAt(AgendaOf(q, d), c)
<1> DEFINE r == [i \in DOMAIN q |->
                   IF i = c + 1 THEN Entry(q[i].func, q[i].time + q[c].time)
                   ELSE q[i]]
           q2 == Unlink(q, c)
           d2 == RemoveAt(d, c)
           a == AgendaOf(q, d)
           a2 == RemoveAt(a, c)
<1>1. /\ q \in Seq(Entries) /\ d \in Seq(Int) /\ Len(d) = Len(q)
      /\ Len(q) \in Nat /\ DOMAIN q = 1..Len(q)
      /\ \A i \in 1..Len(q) : q[i] \in Entries /\ d[i] \in Int
      /\ c \in 1..Len(q)
  BY DEF Encodes
<1>2. q2 = RemoveAt(r, c)
  BY DEF Unlink
<1>3. /\ r \in Seq(Entries) /\ Len(r) = Len(q)
      /\ \A i \in 1..Len(q) : r[i].func = q[i].func
  <2>1. \A i \in 1..Len(q) :
          q[i].time + q[c].time \in Int /\ q[i].func \in Funcs
    BY <1>1 DEF Entries
  <2>2. \A i \in 1..Len(q) :
          IF i = c + 1 THEN Entry(q[i].func, q[i].time + q[c].time) \in Entries
          ELSE q[i] \in Entries
    BY <1>1, <2>1 DEF Entry, Entries
  <2>3. r = [i \in 1..Len(q) |->
               IF i = c + 1 THEN Entry(q[i].func, q[i].time + q[c].time)
               ELSE q[i]]
    BY <1>1
  <2> HIDE DEF r
  <2>4. r \in Seq(Entries) /\ Len(r) = Len(q)
    BY <1>1, <2>2, <2>3
  <2>5. \A i \in 1..Len(q) : r[i].func = q[i].func
    BY <1>1, <2>1, <2>3 DEF Entry
  <2> QED BY <2>4, <2>5
<1>4. Encodes(q2, d2) /\ Len(q2) = Len(q) - 1
  BY UnlinkEncodes
<1>5. a \in Seq(AbsJobs) /\ Len(a) = Len(q)
      /\ \A i \in 1..Len(q) : a[i].func = q[i].func /\ a[i].due = d[i]
  BY AgendaProps
<1> HIDE DEF r, q2, d2, a, a2
<1>6. Removed(q2, r, c)
  BY <1>1, <1>2, <1>3, RemoveAtProps
<1>7. Removed(d2, d, c)
  BY <1>1, RemoveAtProps DEF d2
<1>8. a2 \in Seq(AbsJobs) /\ Removed(a2, a, c)
  BY <1>1, <1>5, RemoveAtProps DEF a2
<1>9. /\ AgendaOf(q2, d2) \in Seq(AbsJobs)
      /\ Len(AgendaOf(q2, d2)) = Len(q2)
      /\ \A i \in 1..Len(q2) : /\ AgendaOf(q2, d2)[i].func = q2[i].func
                               /\ AgendaOf(q2, d2)[i].due = d2[i]
  BY <1>4, AgendaProps
<1>10. Len(a2) = Len(q2)
  BY <1>4, <1>5, <1>8 DEF Removed
<1>11. ASSUME NEW i \in 1..Len(q2)
       PROVE  q2[i].func = a2[i].func /\ d2[i] = a2[i].due
  <2>0. i \in 1..(Len(q) - 1)
    BY <1>4
  <2>1. /\ q2[i] = IF i < c THEN r[i] ELSE r[i + 1]
        /\ d2[i] = IF i < c THEN d[i] ELSE d[i + 1]
        /\ a2[i] = IF i < c THEN a[i] ELSE a[i + 1]
    BY <1>1, <1>3, <1>5, <1>6, <1>7, <1>8, <2>0 DEF Removed
  <2>2. i \in 1..Len(q) /\ i + 1 \in 1..Len(q)
    BY <1>1, <2>0
  <2> QED BY <1>3, <1>5, <2>1, <2>2
<1>12. AgendaOf(q2, d2) = a2
  BY <1>8, <1>9, <1>10, <1>11, AgendaEqual
<1> QED BY <1>12 DEF q2, d2, a2, a

(* sched_add()'s position is the one the agenda's InsertPos chooses.       *)
LEMMA AddAgenda ==
  ASSUME NEW q, NEW d, NEW f \in Funcs, NEW t \in Int, NEW c,
         Encodes(q, d), t >= 0, Place(d, c, t),
         \A i \in 1..Len(d) : i < c => d[i] < t
  PROVE  Abs!AddJob(AgendaOf(q, d), f, t)
           = InsertAt(AgendaOf(q, d), c, [func |-> f, due |-> t])
<1> DEFINE a == AgendaOf(q, d)
           Fits(p) == /\ \A i \in 1..(p - 1) : a[i].due < t
                      /\ p <= Len(a) => a[p].due >= t
<1>1. /\ Len(a) = Len(q) /\ Len(q) \in Nat /\ Len(d) = Len(q)
      /\ \A i \in 1..Len(q) : a[i].due = d[i] /\ d[i] \in Int
  <2> HIDE DEF a
  <2> QED BY AgendaProps DEF a
<1>2. /\ c \in 1..(Len(q) + 1)
      /\ c <= Len(q) => d[c] >= t
  BY <1>1 DEF Place
<1> HIDE DEF a
<1>3. c \in 1..(Len(a) + 1) /\ Fits(c)
  <2>1. ASSUME NEW i \in 1..(c - 1) PROVE a[i].due < t
    <3>1. i \in 1..Len(q) /\ i < c
      BY <1>1, <1>2
    <3> QED BY <1>1, <3>1
  <2>2. c <= Len(a) => a[c].due >= t
    BY <1>1, <1>2
  <2> QED BY <1>1, <1>2, <2>1, <2>2
<1>4. ASSUME NEW p \in 1..(Len(a) + 1), Fits(p) PROVE p = c
  <2>1. CASE p < c
    <3>1. p \in 1..Len(q) /\ p <= Len(a)
      BY <1>1, <1>2, <2>1
    <3>2. a[p].due >= t /\ d[p] < t
      BY <1>1, <1>4, <2>1, <3>1
    <3> QED BY <1>1, <3>1, <3>2
  <2>2. CASE c < p
    <3>1. c \in 1..Len(q) /\ c \in 1..(p - 1)
      BY <1>1, <1>2, <2>2
    <3>2. a[c].due < t /\ d[c] >= t
      BY <1>1, <1>2, <1>4, <3>1
    <3> QED BY <1>1, <3>1, <3>2
  <2>3. p < c \/ c < p \/ p = c
    BY <1>1, <1>2
  <2> QED BY <2>1, <2>2, <2>3
<1>5. Abs!InsertPos(a, t) = CHOOSE p \in 1..(Len(a) + 1) : Fits(p)
  BY DEF Abs!InsertPos
<1> HIDE DEF Fits
<1>6. Abs!InsertPos(a, t) = c
  BY <1>3, <1>4, <1>5
<1>7. Abs!AddJob(a, f, t) = Abs!InsertAt(a, c, [func |-> f, due |-> t])
  BY <1>6 DEF Abs!AddJob, Abs!Job
<1>8. Abs!InsertAt(a, c, [func |-> f, due |-> t])
        = InsertAt(a, c, [func |-> f, due |-> t])
  BY DEF Abs!InsertAt, InsertAt
<1> QED BY <1>7, <1>8 DEF a

(* The first entry with the function is the job the agenda loses.          *)
LEMMA RemoveAgenda ==
  ASSUME NEW q, NEW d, NEW f, NEW c \in 1..Len(q), Encodes(q, d),
         q[c].func = f,
         \A j \in 1..Len(q) : q[j].func = f => c <= j
  PROVE  Abs!RemoveJob(AgendaOf(q, d), f) = RemoveAt(AgendaOf(q, d), c)
<1> DEFINE a == AgendaOf(q, d)
           W == Abs!Where(a, f)
<1>1. /\ a \in Seq(AbsJobs) /\ Len(a) = Len(q) /\ Len(q) \in Nat
      /\ \A i \in 1..Len(q) : a[i].func = q[i].func
  <2> HIDE DEF a
  <2> QED BY AgendaProps DEF a
<1> HIDE DEF a
<1>2. DOMAIN a = 1..Len(q)
  BY <1>1
<1>3. W = {i \in 1..Len(q) : q[i].func = f}
  BY <1>1, <1>2 DEF Abs!Where
<1>4. Abs!RemoveJob(a, f) =
        IF W = {} THEN a
        ELSE Abs!RemoveAt(a, CHOOSE i \in W : \A j \in W : i <= j)
  BY DEF Abs!RemoveJob
<1> HIDE DEF W
<1>5. c \in W /\ \A j \in W : c <= j
  BY <1>3
<1>6. ASSUME NEW i \in W, \A j \in W : i <= j PROVE i = c
  <2>1. i \in Nat /\ c \in Nat /\ i <= c /\ c <= i
    BY <1>1, <1>3, <1>5, <1>6
  <2> QED BY <2>1
<1>7. (CHOOSE i \in W : \A j \in W : i <= j) = c
  BY <1>5, <1>6
<1>8. Abs!RemoveJob(a, f) = Abs!RemoveAt(a, c)
  BY <1>4, <1>5, <1>7
<1>9. Abs!RemoveAt(a, c) = RemoveAt(a, c)
  BY DEF Abs!RemoveAt, RemoveAt
<1> QED BY <1>8, <1>9 DEF a

(* Where the call of sched_add() that is under way came from.              *)
Origin ==
  mode = "add" =>
    \/ /\ frame.func \in Jobs
       /\ \/ frame.time \in Delays
          \/ frame.time = IF due[1] < 0 THEN 1 - due[1] ELSE 1
    \/ frame.func = Guard /\ frame.time = TIME_MAX
    \/ frame.func = CheckInt /\ frame.time = CHECK_INT_TIME

(* Every step keeps it.                                                    *)
LEMMA OriginStep == IInv /\ Origin /\ [Next]_vars => Origin'
<1> SUFFICES ASSUME IInv, Origin, [Next]_vars, mode' = "add" PROVE Origin'
  BY DEF Origin
<1> USE DEF EnterAdd, Frame
<1>1. ASSUME NEW f \in Jobs, NEW t \in Delays, CallAdd(f, t) PROVE Origin'
  BY <1>1 DEF CallAdd, Origin
<1>2. ASSUME NEW f \in Jobs, CallNextInsn(f) \/ FindRemove(f) PROVE Origin'
  BY <1>2 DEF CallNextInsn, FindRemove, Active
<1>3. CASE AddLoop
  <2>1. /\ frame'.func = frame.func /\ frame'.time = frame.time
        /\ due' = due /\ mode = "add"
    BY <1>3 DEF AddLoop, IInv, ControlInv, ControlType
  <2> QED BY <2>1 DEF Origin
<1>4. CASE AddLink
  <2>1. frame.ret \in {"insn", "call"}
    BY DEF IInv, ControlInv, ControlType
  <2> QED BY <1>4, <2>1 DEF AddLink
<1>5. CASE NextInsnAdd
  <2>1. /\ mode = "next" /\ due' = due
        /\ frame'.func = frame.func /\ frame'.time = frame.alltime
        /\ ~(frame.cur <= Len(job_queue) /\ job_queue[frame.cur].time < 0)
    BY <1>5 DEF NextInsnAdd
  <2>2. /\ frame.func \in Jobs /\ frame.cur \in {1, 2}
        /\ frame.cur = 1 => frame.alltime = 1
        /\ frame.cur = 2 => due[1] < 0 /\ frame.alltime = 1 - due[1]
    BY <2>1 DEF IInv, ControlInv, NextInv
  <2>3. job_queue[1].time = due[1] /\ due[1] \in Int /\ 1 <= Len(job_queue)
        /\ Len(job_queue) \in Nat
    BY EncodesFront DEF IInv, QueueInv
  <2>4. frame.alltime = IF due[1] < 0 THEN 1 - due[1] ELSE 1
    BY <2>1, <2>2, <2>3
  <2> QED BY <2>1, <2>2, <2>4 DEF Origin
<1>6. CASE Rearm(Guard, TIME_MAX) \/ Rearm(CheckInt, CHECK_INT_TIME)
  BY <1>6 DEF Rearm, Origin
<1>7. CASE UNCHANGED vars
  BY <1>7 DEF vars, Origin
<1>8. ~(Reset \/ NextInsnLoop \/ Pop \/ Return)
  BY DEF Reset, Active, NextInsnLoop, Pop, Return
<1>9. \A c \in Cycles : ~EndInsn(c)
  BY DEF EndInsn
<1> QED BY <1>1, <1>2, <1>3, <1>4, <1>5, <1>6, <1>7, <1>8, <1>9 DEF Next

(* The queue sched_reset() and sim_reset() leave is the agenda with the    *)
(* guard and check_int.                                                    *)
LEMMA FreshAgenda ==
  AgendaOf(FreshQueue, <<1, TIME_MAX>>)
    = Abs!AddJob(<<Abs!Job(Guard, TIME_MAX)>>, CheckInt, 1)
<1> DEFINE g == <<Abs!Job(Guard, TIME_MAX)>>
<1>1. /\ Len(g) = 1 /\ g[1] = [func |-> Guard, due |-> TIME_MAX]
      /\ g[1].due = TIME_MAX
  BY DEF Abs!Job
<1>2. TIME_MAX \in Int /\ TIME_MAX >= 1
  BY ConstantsAssumption
<1>3. Abs!InsertPos(g, 1) = 1
  <2> DEFINE Fits(p) == /\ \A i \in 1..(p - 1) : g[i].due < 1
                        /\ p <= Len(g) => g[p].due >= 1
  <2>1. Abs!InsertPos(g, 1) = CHOOSE p \in 1..(Len(g) + 1) : Fits(p)
    BY DEF Abs!InsertPos
  <2>2. 1 \in 1..(Len(g) + 1) /\ Fits(1)
    BY <1>1, <1>2
  <2>3. ASSUME NEW p \in 1..(Len(g) + 1), Fits(p) PROVE p = 1
    <3> SUFFICES ASSUME p # 1 PROVE FALSE
      OBVIOUS
    <3>1. 1 \in 1..(p - 1)
      BY <1>1
    <3>2. g[1].due < 1
      BY <2>3, <3>1
    <3> QED BY <1>1, <1>2, <3>2
  <2> HIDE DEF Fits, g
  <2> QED BY <2>1, <2>2, <2>3
<1>4. Abs!AddJob(g, CheckInt, 1)
        = Abs!InsertAt(g, 1, [func |-> CheckInt, due |-> 1])
  <2> HIDE DEF g
  <2> QED BY <1>3 DEF Abs!AddJob, Abs!Job
<1>5. Abs!InsertAt(g, 1, [func |-> CheckInt, due |-> 1])
        = InsertAt(g, 1, [func |-> CheckInt, due |-> 1])
  <2> HIDE DEF g
  <2> QED BY DEF Abs!InsertAt, InsertAt
<1>6. g \in Seq(AbsJobs) /\ [func |-> CheckInt, due |-> 1] \in AbsJobs
  BY <1>2 DEF AbsJobs, Funcs, Abs!Job
<1> DEFINE x == [func |-> CheckInt, due |-> 1]
           a == AgendaOf(FreshQueue, <<1, TIME_MAX>>)
           b == InsertAt(g, 1, x)
<1>7. /\ a \in Seq(AbsJobs) /\ Len(a) = 2
      /\ a[1].func = CheckInt /\ a[1].due = 1
      /\ a[2].func = Guard /\ a[2].due = TIME_MAX
  <2> DEFINE d == <<1, TIME_MAX>>
  <2>1. d[1] = 1 /\ d[2] = TIME_MAX
    OBVIOUS
  <2>2. 1 \in 1..2 /\ 2 \in 1..2
    OBVIOUS
  <2>3. a = AgendaOf(FreshQueue, d) /\ Encodes(FreshQueue, d)
    BY FreshEncodes
  <2> HIDE DEF a, d
  <2> QED BY <2>1, <2>2, <2>3, FreshEncodes, AgendaProps
<1>8. x.func = CheckInt /\ x.due = 1 /\ g[1].func = Guard
  BY <1>1
<1> HIDE DEF a, b, x, g
<1>9. b \in Seq(AbsJobs) /\ Inserted(b, g, 1, x)
  BY <1>1, <1>6, InsertAtProps DEF b, x
<1>10. Len(b) = 2 /\ b[1] = x /\ b[2] = g[1]
  BY <1>1, <1>9 DEF Inserted
<1>11. ASSUME NEW i \in 1..2
       PROVE  a[i].func = b[i].func /\ a[i].due = b[i].due
  <2>1. i = 1 \/ i = 2
    OBVIOUS
  <2> QED BY <1>1, <1>7, <1>8, <1>10, <2>1
<1>12. a = b
  BY <1>7, <1>9, <1>10, <1>11, AgendaEqual
<1> QED BY <1>4, <1>5, <1>12 DEF a, b, g, x

(* The abstract state the refinement mapping gives.                        *)
AbsAgenda == AgendaOf(job_queue, due)
AbsMode == IF mode \in {"add", "next"} THEN frame.ret ELSE mode

(* The steps inside sched_add() and sched_next_insn() that link nothing do *)
(* not change the agenda.                                                  *)
LEMMA SilentSteps ==
  ASSUME IInv,
         \/ \E f \in Jobs, t \in Delays : CallAdd(f, t)
         \/ \E f \in Jobs : CallNextInsn(f)
         \/ AddLoop \/ NextInsnLoop \/ NextInsnAdd
         \/ Rearm(Guard, TIME_MAX) \/ Rearm(CheckInt, CHECK_INT_TIME)
  PROVE  UNCHANGED Abs!avars
<1>1. UNCHANGED <<job_queue, due, running>>
  BY DEF CallAdd, CallNextInsn, AddLoop, NextInsnLoop, NextInsnAdd, Rearm,
         EnterAdd
<1>2. AbsMode' = AbsMode
  <2>1. CASE AddLoop \/ NextInsnLoop
    <3>1. frame'.ret = frame.ret /\ mode' = mode
      BY <2>1 DEF AddLoop, NextInsnLoop, IInv, ControlInv, ControlType
    <3> QED BY <3>1 DEF AbsMode
  <2>2. CASE NextInsnAdd
    BY <2>2 DEF NextInsnAdd, EnterAdd, Frame, AbsMode
  <2>3. CASE \/ \E f \in Jobs, t \in Delays : CallAdd(f, t)
             \/ \E f \in Jobs : CallNextInsn(f)
             \/ Rearm(Guard, TIME_MAX) \/ Rearm(CheckInt, CHECK_INT_TIME)
    BY <2>3 DEF CallAdd, CallNextInsn, Rearm, Active, EnterAdd, Frame, AbsMode
  <2> QED BY <2>1, <2>2, <2>3
<1> QED BY <1>1, <1>2 DEF Abs!avars, AbsMode

(* The linking at the end of sched_add() is the whole call on the agenda:  *)
(* of SCHED_ADD, of sched_next_insn(), or of sched_guard() and check_int() *)
(* adding themselves again.                                                *)
LEMMA AddLinkSimulates == ASSUME IInv, Origin, AddLink PROVE Abs!Next
<1> DEFINE c == frame.cur
<1>A. frame.func \in Funcs /\ frame.time \in Int
  BY AddLinkPlace
<1>B. PICK f \in Funcs, t \in Int : f = frame.func /\ t = frame.time
  BY <1>A
<1>0. QueueInv /\ ControlInv
  BY DEF IInv
<1>1. Encodes(job_queue, due) /\ Len(job_queue) >= 1 /\ free \in Nat
      /\ free + Len(job_queue) = HEAP_SIZE
  BY <1>0 DEF QueueInv, EntriesConserved
<1>2. /\ Place(due, c, t) /\ NewTime = Gap(due, c, t)
      /\ t >= 0 /\ t \in Int /\ f \in Funcs
  BY <1>B, AddLinkPlace
<1>3. mode = "add" /\ frame.ret \in {"insn", "call"}
      /\ running' = frame.after
  BY <1>0 DEF AddLink, ControlInv, ControlType
<1>4. /\ Len(AbsAgenda) = Len(job_queue) /\ Len(job_queue) \in Nat
      /\ AbsAgenda[1].due = due[1] /\ due[1] \in Int
  BY <1>1, AgendaProps DEF AbsAgenda
<1>5. AbsMode = frame.ret
  BY <1>3 DEF AbsMode
<1>6. IF Len(AbsAgenda) < HEAP_SIZE
      THEN AbsAgenda' = Abs!AddJob(AbsAgenda, f, t) /\ AbsMode' = AbsMode
      ELSE AbsAgenda' = AbsAgenda /\ AbsMode' = "crash"
  <2>1. CASE free > 0
    <3>1. Len(AbsAgenda) < HEAP_SIZE
      BY <1>1, <1>4, <2>1
    <3>2. /\ job_queue' = Link(job_queue, c, Entry(f, NewTime))
          /\ due' = InsertAt(due, c, t)
          /\ mode' = frame.ret
      BY <1>2, <1>B, <2>1 DEF AddLink
    <3>3. AbsMode' = AbsMode
      BY <1>3, <1>5, <3>2 DEF AbsMode
    <3>4. \A i \in 1..Len(due) : i < c => due[i] < t
      BY <1>0, <1>3, <1>B DEF ControlInv, AddInv
    <3> HIDE DEF c
    <3>5. Abs!AddJob(AbsAgenda, f, t)
            = InsertAt(AbsAgenda, c, [func |-> f, due |-> t])
      BY <1>1, <1>2, <3>4, AddAgenda DEF AbsAgenda
    <3>6. AgendaOf(Link(job_queue, c, Entry(f, NewTime)), InsertAt(due, c, t))
            = InsertAt(AbsAgenda, c, [func |-> f, due |-> t])
      BY <1>1, <1>2, LinkAgenda DEF AbsAgenda
    <3>7. AbsAgenda' = AgendaOf(job_queue', due')
      BY DEF AbsAgenda
    <3>8. AbsAgenda' = Abs!AddJob(AbsAgenda, f, t)
      BY <3>2, <3>5, <3>6, <3>7
    <3> QED BY <3>1, <3>3, <3>8
  <2>2. CASE ~(free > 0)
    <3>1. ~(Len(AbsAgenda) < HEAP_SIZE)
      BY <1>1, <1>4, <2>2
    <3>2. UNCHANGED <<job_queue, due>> /\ mode' = "crash"
      BY <2>2 DEF AddLink
    <3>3. AbsAgenda' = AbsAgenda /\ AbsMode' = "crash"
      BY <3>2 DEF AbsAgenda, AbsMode, AgendaOf
    <3> QED BY <3>1, <3>3
  <2> QED BY <2>1, <2>2
<1>7. Abs!DoAdd(f, t)
  BY <1>6 DEF Abs!DoAdd, AbsAgenda, AbsMode, AgendaOf
<1>8. CASE f \in Jobs
  <2>1. frame.after = running /\ running # Guard
    BY <1>0, <1>3, <1>8, <1>B, ConstantsAssumption DEF ControlInv, RunningInv
  <2>2. Abs!Active /\ running' = running
    BY <1>3, <1>5, <2>1 DEF Abs!Active, AbsMode
  <2>3. CASE t \in Delays
    <3>1. Abs!Add(f, t)
      BY <1>7, <2>2 DEF Abs!Add
    <3>2. \E g \in Jobs, u \in Delays : Abs!Add(g, u)
      BY <1>8, <2>3, <3>1
    <3> QED BY <3>2 DEF Abs!Next
  <2>4. CASE t = IF due[1] < 0 THEN 1 - due[1] ELSE 1
    <3>1. t = Abs!NextInsnTime(AbsAgenda)
      BY <1>4, <2>4 DEF Abs!NextInsnTime
    <3>2. Abs!NextInsn(f)
      BY <1>6, <2>2, <3>1
         DEF Abs!NextInsn, Abs!DoAdd, AbsAgenda, AbsMode, AgendaOf
    <3>3. \E g \in Jobs : Abs!NextInsn(g)
      BY <1>8, <3>2
    <3> QED BY <3>3 DEF Abs!Next
  <2>5. f # Guard /\ f # CheckInt
    BY <1>8, ConstantsAssumption
  <2> QED BY <1>3, <1>B, <2>3, <2>4, <2>5 DEF Origin
<1>9. CASE f \in {Guard, CheckInt}
  <2>1. running = f /\ running' = None /\ frame.ret = "call"
    BY <1>0, <1>3, <1>9, <1>B, ConstantsAssumption DEF ControlInv, RunningInv, Funcs
  <2>2. \/ f = Guard /\ t = TIME_MAX
        \/ f = CheckInt /\ t = CHECK_INT_TIME
    BY <1>3, <1>9, <1>B, ConstantsAssumption DEF Origin
  <2>4. Abs!Rearm(Guard, TIME_MAX) \/ Abs!Rearm(CheckInt, CHECK_INT_TIME)
    <3>1. CASE f = Guard /\ t = TIME_MAX
      BY <1>3, <1>6, <2>1, <3>1
         DEF Abs!Rearm, Abs!DoAdd, AbsAgenda, AbsMode, AgendaOf
    <3>2. CASE f = CheckInt /\ t = CHECK_INT_TIME
      BY <1>3, <1>6, <2>1, <3>2
         DEF Abs!Rearm, Abs!DoAdd, AbsAgenda, AbsMode, AgendaOf
    <3> QED BY <2>2, <3>1, <3>2
  <2> QED BY <2>4 DEF Abs!Next
<1> QED BY <1>2, <1>8, <1>9 DEF Funcs

(* sched_find_remove() takes the first job with the function off the       *)
(* agenda.                                                                 *)
LEMMA FindRemoveSimulates ==
  ASSUME IInv, NEW f \in Jobs, FindRemove(f)
  PROVE  Abs!FindRemove(f)
<1> DEFINE match == {i \in DOMAIN job_queue : job_queue[i].func = f}
<1>1. /\ Encodes(job_queue, due)
      /\ mode \in {"insn", "call"} /\ running # Guard
      /\ UNCHANGED <<mode, running, frame>>
  BY DEF IInv, QueueInv, FindRemove, Active
<1>2. /\ DOMAIN job_queue = 1..Len(job_queue)
      /\ AbsAgenda \in Seq(AbsJobs) /\ Len(AbsAgenda) = Len(job_queue)
      /\ \A i \in 1..Len(job_queue) : AbsAgenda[i].func = job_queue[i].func
  BY <1>1, AgendaProps DEF AbsAgenda, Encodes
<1>3. AbsAgenda' = Abs!RemoveJob(AbsAgenda, f)
  <2>1. CASE match = {} /\ UNCHANGED <<job_queue, due>>
    <3>1. Abs!Where(AbsAgenda, f) = {}
      BY <1>2, <2>1 DEF Abs!Where
    <3>2. AbsAgenda' = AbsAgenda
      BY <2>1 DEF AbsAgenda, AgendaOf
    <3> QED BY <3>1, <3>2 DEF Abs!RemoveJob
  <2>2. CASE \E c \in match : /\ \A j \in match : c <= j
                              /\ job_queue' = Unlink(job_queue, c)
                              /\ due' = RemoveAt(due, c)
    <3>1. PICK c \in match : /\ \A j \in match : c <= j
                             /\ job_queue' = Unlink(job_queue, c)
                             /\ due' = RemoveAt(due, c)
      BY <2>2
    <3>2. /\ c \in 1..Len(job_queue) /\ job_queue[c].func = f
          /\ \A j \in 1..Len(job_queue) : job_queue[j].func = f => c <= j
      BY <1>2, <3>1
    <3>3. Abs!RemoveJob(AbsAgenda, f) = RemoveAt(AbsAgenda, c)
      BY <1>1, <3>2, RemoveAgenda DEF AbsAgenda
    <3>4. AgendaOf(Unlink(job_queue, c), RemoveAt(due, c))
            = RemoveAt(AbsAgenda, c)
      BY <1>1, <3>2, UnlinkAgenda DEF AbsAgenda
    <3>5. AbsAgenda' = AgendaOf(job_queue', due')
      BY DEF AbsAgenda
    <3> QED BY <3>1, <3>3, <3>4, <3>5
  <2> QED BY <2>1, <2>2 DEF FindRemove
<1>4. Abs!Active /\ AbsMode' = AbsMode
  BY <1>1 DEF Abs!Active, AbsMode
<1> QED BY <1>1, <1>3, <1>4 DEF Abs!FindRemove, AbsAgenda, AbsMode, AgendaOf

(* Writing only the front entry lets the same cycles pass for every job.   *)
LEMMA EndInsnSimulates ==
  ASSUME IInv, NEW c \in Cycles, EndInsn(c)
  PROVE  Abs!EndInsn(c)
<1>0. IInv'
  BY EndInsnInv
<1>1. Encodes(job_queue, due) /\ Encodes(job_queue', due')
      /\ Len(job_queue') >= 1
  BY <1>0 DEF IInv, QueueInv
<1>2. /\ mode = "insn" /\ UNCHANGED <<running, frame>>
      /\ job_queue' = [job_queue EXCEPT ![1].time = @ - c]
      /\ due' = [i \in DOMAIN due |-> due[i] - c]
      /\ mode' = IF job_queue'[1].time <= 0 THEN "loop" ELSE "insn"
  BY DEF EndInsn
<1>3. /\ job_queue \in Seq(Entries) /\ due \in Seq(Int)
      /\ DOMAIN job_queue = 1..Len(job_queue) /\ DOMAIN due = 1..Len(job_queue)
      /\ DOMAIN job_queue' = 1..Len(job_queue)
  BY <1>1, <1>2 DEF Encodes
<1>4. \A i \in 1..Len(job_queue) : job_queue'[i].func = job_queue[i].func
  <2>1. \A i \in 1..Len(job_queue) : job_queue[i] \in Entries
    BY <1>3
  <2> QED BY <1>2, <1>3, <2>1 DEF Entries
<1>5. \A i \in 1..Len(job_queue) : due'[i] = due[i] - c
  BY <1>2, <1>3
<1>6. /\ \A i \in 1..Len(job_queue) : /\ AbsAgenda[i].func = job_queue[i].func
                                      /\ AbsAgenda[i].due = due[i]
      /\ DOMAIN AbsAgenda = 1..Len(job_queue)
  BY <1>1, <1>3, AgendaProps DEF AbsAgenda
<1>7. AbsAgenda' = [i \in 1..Len(job_queue) |->
                      [func |-> job_queue[i].func, due |-> due[i] - c]]
  BY <1>3, <1>4, <1>5 DEF AbsAgenda, AgendaOf
<1>8. AbsAgenda' = Abs!Elapse(AbsAgenda, c)
  BY <1>6, <1>7 DEF Abs!Elapse, Abs!Job
<1>9. job_queue'[1].time = AbsAgenda'[1].due
  <2>1. /\ job_queue'[1].time = due'[1] /\ 1 \in 1..Len(job_queue')
        /\ AbsAgenda' = AgendaOf(job_queue', due')
    BY <1>1, EncodesFront DEF AbsAgenda
  <2> QED BY <1>1, <2>1, AgendaProps
<1>10. AbsMode' = IF Abs!Expired(AbsAgenda') THEN "loop" ELSE "insn"
  BY <1>2, <1>9 DEF AbsMode, Abs!Expired
<1> QED BY <1>2, <1>8, <1>10 DEF Abs!EndInsn, AbsAgenda, AbsMode, AgendaOf

(* do_scheduler() unlinking the front entry is the agenda losing its head. *)
LEMMA PopSimulates == ASSUME IInv, Pop PROVE Abs!Pop
<1>1. Encodes(job_queue, due) /\ Len(job_queue) >= 2
  BY InvImplies DEF IInv, QueueInv, Pop, QueueNeverEmpties
<1>2. /\ Len(job_queue) \in Nat /\ Len(AbsAgenda) = Len(job_queue)
      /\ AbsAgenda \in Seq(AbsJobs)
      /\ \A i \in 1..Len(job_queue) : AbsAgenda[i].func = job_queue[i].func
  BY <1>1, AgendaProps DEF AbsAgenda
<1>3. /\ mode = "loop" /\ mode' = "call"
      /\ running' = job_queue[1].func
      /\ job_queue' = Unlink(job_queue, 1) /\ due' = RemoveAt(due, 1)
  BY <1>1, <1>2 DEF Pop
<1>4. 1 \in 1..Len(job_queue)
  BY <1>1, <1>2
<1>5. AbsAgenda' = RemoveAt(AbsAgenda, 1)
  <2>1. AgendaOf(Unlink(job_queue, 1), RemoveAt(due, 1))
          = RemoveAt(AbsAgenda, 1)
    BY <1>1, <1>4, UnlinkAgenda DEF AbsAgenda
  <2>2. AbsAgenda' = AgendaOf(job_queue', due')
    BY DEF AbsAgenda
  <2> QED BY <1>3, <2>1, <2>2
<1>6. RemoveAt(AbsAgenda, 1) = Tail(AbsAgenda)
  <2> DEFINE a == AbsAgenda
             r == RemoveAt(a, 1)
             u == Tail(a)
  <2>1. a # <<>> /\ a \in Seq(AbsJobs) /\ 1 \in 1..Len(a)
    BY <1>1, <1>2
  <2> HIDE DEF a
  <2>2. r \in Seq(AbsJobs) /\ Removed(r, a, 1)
    BY <2>1, RemoveAtProps
  <2>3. u \in Seq(AbsJobs) /\ Removed(u, a, 1)
    BY <2>1, TailRemoves
  <2> HIDE DEF r, u
  <2>4. Len(r) = Len(u) /\ \A i \in 1..Len(r) : r[i] = u[i]
    BY <2>2, <2>3 DEF Removed
  <2>5. r = u
    BY <2>2, <2>3, <2>4, AgendaEqual
  <2> QED BY <2>5 DEF r, u, a
<1>7. AbsMode = "loop" /\ AbsMode' = "call"
  BY <1>3 DEF AbsMode
<1>8. running' = AbsAgenda[1].func /\ Len(AbsAgenda) > 1
  BY <1>1, <1>2, <1>3, <1>4
<1> QED BY <1>5, <1>6, <1>7, <1>8 DEF Abs!Pop, AbsAgenda, AbsMode, AgendaOf

(* sched_reset() and sim_reset() leave the fresh agenda.                   *)
LEMMA ResetSimulates == ASSUME IInv, Reset PROVE Abs!Reset
<1>1. /\ mode \in {"insn", "call"} /\ running # Guard
      /\ UNCHANGED <<mode, running, frame>>
      /\ job_queue' = FreshQueue /\ due' = <<1, TIME_MAX>>
  BY DEF Reset, Active
<1>2. AbsAgenda' = AgendaOf(job_queue', due')
  BY DEF AbsAgenda
<1>3. AbsAgenda' = Abs!AddJob(<<Abs!Job(Guard, TIME_MAX)>>, CheckInt, 1)
  BY <1>1, <1>2, FreshAgenda
<1> QED BY <1>1, <1>3 DEF Abs!Reset, Abs!Active, AbsAgenda, AgendaOf

(* do_scheduler() goes on exactly while the front of the agenda is due.    *)
LEMMA ReturnSimulates == ASSUME IInv, Return PROVE Abs!Return
<1>1. /\ mode = "call" /\ running \notin {Guard, CheckInt} /\ running' = None
      /\ UNCHANGED <<job_queue, frame, due>>
      /\ mode' = IF job_queue[1].time <= 0 THEN "loop" ELSE "insn"
  BY DEF Return
<1>2. job_queue[1].time = AbsAgenda[1].due
  <2>1. /\ job_queue[1].time = due[1] /\ 1 \in 1..Len(job_queue)
        /\ Encodes(job_queue, due)
    BY EncodesFront DEF IInv, QueueInv
  <2> QED BY <2>1, AgendaProps DEF AbsAgenda
<1>3. AbsMode' = IF Abs!Expired(AbsAgenda) THEN "loop" ELSE "insn"
  BY <1>1, <1>2 DEF AbsMode, Abs!Expired
<1> QED BY <1>1, <1>3 DEF Abs!Return, AbsAgenda, AbsMode, AgendaOf

(* Every step of support/sched.c is a step of the agenda, or leaves it     *)
(* alone.                                                                  *)
LEMMA StepSimulates ==
  IInv /\ Origin /\ [Next]_vars => [Abs!Next]_(Abs!avars)
<1> SUFFICES ASSUME IInv, Origin, [Next]_vars
             PROVE  Abs!Next \/ UNCHANGED Abs!avars
  OBVIOUS
<1>1. CASE \/ \E f \in Jobs, t \in Delays : CallAdd(f, t)
           \/ \E f \in Jobs : CallNextInsn(f)
           \/ AddLoop \/ NextInsnLoop \/ NextInsnAdd
           \/ Rearm(Guard, TIME_MAX) \/ Rearm(CheckInt, CHECK_INT_TIME)
  BY <1>1, SilentSteps
<1>2. CASE AddLink
  BY <1>2, AddLinkSimulates
<1>3. ASSUME NEW f \in Jobs, FindRemove(f) PROVE Abs!Next
  <2>1. Abs!FindRemove(f)
    BY <1>3, FindRemoveSimulates
  <2> QED BY <2>1 DEF Abs!Next
<1>4. ASSUME NEW c \in Cycles, EndInsn(c) PROVE Abs!Next
  <2>1. Abs!EndInsn(c)
    BY <1>4, EndInsnSimulates
  <2> QED BY <2>1 DEF Abs!Next
<1>5. CASE Pop
  BY <1>5, PopSimulates DEF Abs!Next
<1>6. CASE Reset
  BY <1>6, ResetSimulates DEF Abs!Next
<1>7. CASE Return
  BY <1>7, ReturnSimulates DEF Abs!Next
<1>8. CASE UNCHANGED vars
  BY <1>8 DEF vars, Abs!avars
<1> QED BY <1>1, <1>2, <1>3, <1>4, <1>5, <1>6, <1>7, <1>8 DEF Next

(* For every heap size, every set of jobs and all times: the list of       *)
(* differences of support/sched.c, with its searches one entry at a time,  *)
(* implements the agenda of absolute times that the rest of the simulator  *)
(* relies on.                                                              *)
THEOREM SchedImplementsAgenda == Spec => ImplementsAbs
<1>1. Init => Abs!Init
  <2> SUFFICES ASSUME Init PROVE Abs!Init
    OBVIOUS
  <2>1. AbsAgenda = Abs!AddJob(<<Abs!Job(Guard, TIME_MAX)>>, CheckInt, 1)
    BY FreshAgenda DEF Init, AbsAgenda
  <2> QED BY <2>1 DEF Init, Abs!Init, AbsAgenda, AgendaOf
<1>2. Init => Origin
  BY DEF Init, Origin
<1>3. Origin /\ []IInv /\ [][Next]_vars => []Origin
  BY OriginStep, PTL
<1>4. []IInv /\ []Origin /\ [][Next]_vars => [][Abs!Next]_(Abs!avars)
  BY StepSimulates, PTL
<1>5. Spec => Abs!Init /\ [][Abs!Next]_(Abs!avars)
  BY <1>1, <1>2, <1>3, <1>4, Invariance, PTL DEF Spec
<1> QED BY <1>5 DEF ImplementsAbs, Abs!Spec
=============================================================================
