---------------------------- MODULE UartProofs ----------------------------
(***************************************************************************)
(* Proofs about peripheral/16450.c (module Uart), for every FIFO length,   *)
(* every configuration and every use of the registers and of the           *)
(* verification API.                                                       *)
(***************************************************************************)
EXTENDS Uart, DataLemmas, FiniteSetTheorems, TLAPS

-----------------------------------------------------------------------------
(***************************************************************************)
(* Jobs in the list of ready jobs.                                         *)
(***************************************************************************)
Has(q, f) == \E i \in 1..Len(q) : q[i] = f

AtMostOne(q, F) ==
  \A i, j \in 1..Len(q) : q[i] \in F /\ q[j] \in F => i = j

TxJobs == {"char_clock", "send_break", "tx_send"}

Fields ==
  {"use", "ier", "iir", "ints", "irq", "txsere", "txbufe", "rdrdy", "err",
   "fifo_len", "trigger", "tx", "txser", "wire", "rx", "rxser", "loopback",
   "receiveing", "recv_break", "mcr", "msr", "delta", "sbc", "dlab", "dll",
   "dlh", "clks", "vclks", "ready", "timed", "jobs", "buf", "calls", "dead"}

RxEntries == [ch : Chars \cup {Nothing, Break}, err : BOOLEAN]

Commands ==
  [op : {"data"}, c : Chars, clks : BOOLEAN, err : BOOLEAN]
    \cup [op : {"start", "stop", "start_later", "stop_later"}]

(* The types of the parts of struct dev_16450 that the properties are      *)
(* about.                                                                  *)
Typed(s) ==
  /\ DOMAIN s = Fields
  /\ s.use \in DOMAIN Uses
  /\ s.fifo_len \in {1, FIFO} /\ s.fifo_len \in Nat \ {0}
  /\ s.tx \in Seq(Chars)
  /\ s.txser \in Chars \cup {Nothing} /\ s.loopback \in Chars \cup {Nothing}
  /\ s.rx \in Seq(RxEntries) /\ s.rxser \in RxEntries
  /\ s.buf \in Seq(Commands)
  /\ s.ready \in Seq(JobFuncs) /\ s.timed \in [JobFuncs -> Nat]

(* IIR names an interrupt exactly while the line is raised, and it names   *)
(* one whenever an enabled one is pending.                                 *)
LineOK(s) ==
  /\ s.ints \subseteq Ints /\ s.iir \in {"none"} \cup Ints
  /\ s.iir # "none" => s.irq = TRUE
  /\ s.iir = "none" => s.irq = FALSE

IntsOK(s) == LineOK(s) /\ (Enabled(s) # {} => s.iir # "none")

FifosOK(s) ==
  /\ Len(s.tx) <= s.fifo_len /\ Len(s.rx) <= s.fifo_len
  /\ s.rx # <<>> => s.rdrdy = TRUE
  /\ s.rx = <<>> => s.rdrdy = FALSE
  /\ s.tx # <<>> => s.txbufe = FALSE
  /\ s.tx = <<>> => s.txbufe = TRUE

(* No job of the transmitter is scheduled.                                 *)
TxQuiet(s) ==
  /\ \A f \in TxJobs : ~Has(s.ready, f)
  /\ s.timed["char_clock"] = 0
  /\ s.timed["send_break"] = 0 /\ s.timed["tx_send"] = 0

(* The transmitter has exactly the job its state calls for: the end of a   *)
(* character or of a break while it shifts, the start of a character when  *)
(* it is idle and the FIFO is not.                                         *)
TxOK(s) ==
  /\ AtMostOne(s.ready, TxJobs)
  /\ s.timed["send_break"] = 0 /\ s.timed["tx_send"] = 0
  /\ s.timed["char_clock"] \in {0, 1}
  /\ s.timed["char_clock"] = 1 => \A f \in TxJobs : ~Has(s.ready, f)
  /\ s.txsere \in BOOLEAN
  /\ s.txsere = TRUE =>
       /\ s.timed["char_clock"] = 0
       /\ ~Has(s.ready, "char_clock") /\ ~Has(s.ready, "send_break")
       /\ s.tx # <<>> => Has(s.ready, "tx_send")
       /\ s.tx = <<>> => ~Has(s.ready, "tx_send")
  /\ s.txsere = FALSE =>
       /\ ~Has(s.ready, "tx_send")
       /\ s.sbc = TRUE => Has(s.ready, "send_break")
       /\ s.sbc # TRUE =>
            Has(s.ready, "char_clock") \/ s.timed["char_clock"] = 1

(* No character timeout is scheduled; at most one is.                      *)
CtiQuiet(s) == ~Has(s.ready, "int_cti") /\ s.timed["int_cti"] = 0

CtiSingle(s) ==
  /\ AtMostOne(s.ready, {"int_cti"})
  /\ s.timed["int_cti"] \in {0, 1}
  /\ s.timed["int_cti"] = 1 => ~Has(s.ready, "int_cti")

CtiOK(s) ==
  /\ CtiSingle(s)
  /\ s.rx # <<>> => \/ "cti" \in s.ints
                    \/ Has(s.ready, "int_cti")
                    \/ s.timed["int_cti"] = 1

UInv(s) == Typed(s) /\ IntsOK(s) /\ FifosOK(s) /\ TxOK(s) /\ CtiOK(s)

IInv == UInv(u)
-----------------------------------------------------------------------------
(* Adding a job that is to run at once puts it in front.                   *)
LEMMA ConsJob ==
  ASSUME NEW q \in Seq(JobFuncs), NEW f \in JobFuncs, NEW r,
         r = <<f>> \o q
  PROVE  /\ r \in Seq(JobFuncs) /\ r # <<>>
         /\ \A g : Has(r, g) <=> g = f \/ Has(q, g)
         /\ \A F : f \notin F /\ AtMostOne(q, F) => AtMostOne(r, F)
         /\ \A F : (\A g \in F : ~Has(q, g)) => AtMostOne(r, F)
<1>1. /\ r \in Seq(JobFuncs) /\ Len(r) = Len(q) + 1 /\ Len(q) \in Nat
      /\ r[1] = f /\ \A i \in 1..Len(q) : r[i + 1] = q[i]
  OBVIOUS
<1>2. r # <<>>
  BY <1>1
<1>3. \A j \in 1..Len(r) : j = 1 \/ (j - 1 \in 1..Len(q) /\ r[j] = q[j - 1])
  <2> SUFFICES ASSUME NEW j \in 1..Len(r), j # 1
               PROVE  j - 1 \in 1..Len(q) /\ r[j] = q[j - 1]
    OBVIOUS
  <2>1. j - 1 \in 1..Len(q) /\ (j - 1) + 1 = j
    BY <1>1
  <2> QED BY <1>1, <2>1
<1>4. ASSUME NEW g PROVE Has(r, g) <=> g = f \/ Has(q, g)
  <2>1. ASSUME Has(r, g) PROVE g = f \/ Has(q, g)
    BY <1>1, <1>3, <2>1 DEF Has
  <2>2. g = f => Has(r, g)
    <3>1. 1 \in 1..Len(r)
      BY <1>1
    <3> QED BY <1>1, <3>1 DEF Has
  <2>3. ASSUME Has(q, g) PROVE Has(r, g)
    <3>1. PICK i \in 1..Len(q) : q[i] = g
      BY <2>3 DEF Has
    <3>2. i + 1 \in 1..Len(r) /\ r[i + 1] = g
      BY <1>1, <3>1
    <3> QED BY <3>2 DEF Has
  <2> QED BY <2>1, <2>2, <2>3
<1>5. ASSUME NEW F, f \notin F, AtMostOne(q, F) PROVE AtMostOne(r, F)
  <2> SUFFICES ASSUME NEW i \in 1..Len(r), NEW j \in 1..Len(r),
                      r[i] \in F, r[j] \in F
               PROVE  i = j
    BY DEF AtMostOne
  <2>1. i # 1 /\ j # 1
    BY <1>1, <1>5
  <2>2. i - 1 = j - 1
    BY <1>3, <1>5, <2>1 DEF AtMostOne
  <2> QED BY <2>2
<1>6. ASSUME NEW F, \A g \in F : ~Has(q, g) PROVE AtMostOne(r, F)
  <2>1. \A i \in 1..Len(q) : q[i] \notin F
    BY <1>6 DEF Has
  <2>2. \A j \in 1..Len(r) : j = 1 \/ r[j] \notin F
    BY <1>3, <2>1
  <2> QED BY <2>2 DEF AtMostOne
<1> QED BY <1>1, <1>2, <1>4, <1>5, <1>6

(* do_scheduler() takes the job at the front.                              *)
LEMMA TailJob ==
  ASSUME NEW q \in Seq(JobFuncs), q # <<>>
  PROVE  /\ Tail(q) \in Seq(JobFuncs) /\ Head(q) \in JobFuncs
         /\ \A g : Has(q, g) <=> g = Head(q) \/ Has(Tail(q), g)
         /\ \A F : AtMostOne(q, F) => AtMostOne(Tail(q), F)
         /\ \A F : AtMostOne(q, F) /\ Head(q) \in F =>
                     \A g \in F : ~Has(Tail(q), g)
<1> DEFINE r == Tail(q)
<1>1. /\ r \in Seq(JobFuncs) /\ Len(q) = Len(r) + 1 /\ Len(r) \in Nat
      /\ q[1] = Head(q) /\ Head(q) \in JobFuncs
      /\ \A i \in 1..Len(r) : q[i + 1] = r[i]
  OBVIOUS
<1>2. 1 \in 1..Len(q) /\ \A i \in 1..Len(r) : i + 1 \in 1..Len(q)
  BY <1>1
<1>3. \A j \in 1..Len(q) : j = 1 \/ (j - 1 \in 1..Len(r) /\ q[j] = r[j - 1])
  <2> SUFFICES ASSUME NEW j \in 1..Len(q), j # 1
               PROVE  j - 1 \in 1..Len(r) /\ q[j] = r[j - 1]
    OBVIOUS
  <2>1. j - 1 \in 1..Len(r) /\ (j - 1) + 1 = j
    BY <1>1
  <2> QED BY <1>1, <2>1
<1> HIDE DEF r
<1>4. ASSUME NEW g PROVE Has(q, g) <=> g = Head(q) \/ Has(r, g)
  <2>1. ASSUME Has(q, g) PROVE g = Head(q) \/ Has(r, g)
    BY <1>1, <1>3, <2>1 DEF Has
  <2>2. g = Head(q) => Has(q, g)
    BY <1>1, <1>2 DEF Has
  <2>3. Has(r, g) => Has(q, g)
    BY <1>1, <1>2 DEF Has
  <2> QED BY <2>1, <2>2, <2>3
<1>5. ASSUME NEW F, AtMostOne(q, F) PROVE AtMostOne(r, F)
  <2> SUFFICES ASSUME NEW i \in 1..Len(r), NEW j \in 1..Len(r),
                      r[i] \in F, r[j] \in F
               PROVE  i = j
    BY DEF AtMostOne
  <2>1. i + 1 = j + 1
    BY <1>1, <1>2, <1>5 DEF AtMostOne
  <2> QED BY <1>1, <2>1
<1>6. ASSUME NEW F, AtMostOne(q, F), Head(q) \in F, NEW g \in F, Has(r, g)
      PROVE  FALSE
  <2>1. PICK i \in 1..Len(r) : r[i] = g
    BY <1>6 DEF Has
  <2>2. i + 1 = 1
    BY <1>1, <1>2, <1>6, <2>1 DEF AtMostOne
  <2> QED BY <1>1, <2>1, <2>2
<1> QED BY <1>1, <1>4, <1>5, <1>6 DEF r

(* SCHED_FIND_REMOVE of a ready job.                                       *)
LEMMA RemoveFirstJob ==
  ASSUME NEW q \in Seq(JobFuncs), NEW f, Has(q, f)
  PROVE  /\ RemoveFirst(q, f) \in Seq(JobFuncs)
         /\ \A g : g # f => (Has(RemoveFirst(q, f), g) <=> Has(q, g))
         /\ \A F : AtMostOne(q, F) => AtMostOne(RemoveFirst(q, f), F)
         /\ AtMostOne(q, {f}) => ~Has(RemoveFirst(q, f), f)
<1> DEFINE I == {i \in 1..Len(q) : q[i] = f}
           p == Min(I)
           r == RemoveFirst(q, f)
<1>1. I # {} /\ I \subseteq Nat /\ Len(q) \in Nat
  BY DEF Has
<1>2. p \in I /\ \A k \in I : p <= k
  <2>1. PICK m \in I : \A k \in I : m <= k
    BY <1>1, LeastNat
  <2> HIDE DEF I
  <2> QED BY <1>1, <2>1 DEF Min
<1>3. r = RemoveAt(q, p)
  BY <1>1 DEF RemoveFirst, SelectInSeq, Has
<1>4. p \in 1..Len(q) /\ q[p] = f
  BY <1>2
<1> HIDE DEF I, p, r
<1>5. r \in Seq(JobFuncs) /\ Removed(r, q, p)
  BY <1>3, <1>4, RemoveAtProps
<1>6. /\ Len(r) = Len(q) - 1
      /\ \A j \in 1..(Len(q) - 1) : r[j] = IF j < p THEN q[j] ELSE q[j + 1]
  BY <1>5 DEF Removed
<1> DEFINE at(j) == IF j < p THEN j ELSE j + 1
<1>7. \A j \in 1..Len(r) : /\ at(j) \in 1..Len(q) /\ at(j) # p
                           /\ r[j] = q[at(j)]
  BY <1>1, <1>4, <1>6
<1>8. \A i, j \in 1..Len(r) : at(i) = at(j) => i = j
  BY <1>1, <1>4, <1>6
<1>9. \A i \in 1..Len(q) : i # p => \E j \in 1..Len(r) : at(j) = i
  <2> SUFFICES ASSUME NEW i \in 1..Len(q), i # p
               PROVE  \E j \in 1..Len(r) : at(j) = i
    OBVIOUS
  <2>1. CASE i < p
    BY <1>1, <1>4, <1>6, <2>1
  <2>2. CASE i > p
    <3>1. i - 1 \in 1..Len(r) /\ at(i - 1) = i
      BY <1>1, <1>4, <1>6, <2>2
    <3> QED BY <3>1
  <2> QED BY <1>4, <2>1, <2>2
<1> HIDE DEF at
<1>10. ASSUME NEW g, g # f PROVE Has(r, g) <=> Has(q, g)
  <2>1. Has(r, g) => Has(q, g)
    BY <1>7 DEF Has
  <2>2. ASSUME Has(q, g) PROVE Has(r, g)
    <3>1. PICK i \in 1..Len(q) : q[i] = g
      BY <2>2 DEF Has
    <3>2. i # p
      BY <1>4, <1>10, <3>1
    <3>3. PICK j \in 1..Len(r) : at(j) = i
      BY <1>9, <3>2
    <3> QED BY <1>7, <3>1, <3>3 DEF Has
  <2> QED BY <2>1, <2>2
<1>11. ASSUME NEW F, AtMostOne(q, F) PROVE AtMostOne(r, F)
  <2> SUFFICES ASSUME NEW i \in 1..Len(r), NEW j \in 1..Len(r),
                      r[i] \in F, r[j] \in F
               PROVE  i = j
    BY DEF AtMostOne
  <2>1. at(i) = at(j)
    BY <1>7, <1>11 DEF AtMostOne
  <2> QED BY <1>8, <2>1
<1>12. ASSUME AtMostOne(q, {f}), Has(r, f) PROVE FALSE
  <2>1. PICK j \in 1..Len(r) : r[j] = f
    BY <1>12 DEF Has
  <2>2. at(j) = p
    BY <1>4, <1>7, <1>12, <2>1 DEF AtMostOne
  <2> QED BY <1>7, <2>2
<1> QED BY <1>5, <1>10, <1>11, <1>12 DEF r
-----------------------------------------------------------------------------
(***************************************************************************)
(* What the functions of the C file change.                                *)
(***************************************************************************)
(* Only the fields G differ.                                               *)
Same(s, t, G) == DOMAIN t = Fields /\ \A x \in Fields \ G : t[x] = s[x]

(* The jobs F are scheduled as before.                                     *)
JobsSame(s, t, F) ==
  /\ \A g \in F : /\ Has(t.ready, g) <=> Has(s.ready, g)
                  /\ t.timed[g] = s.timed[g]
  /\ AtMostOne(s.ready, F) => AtMostOne(t.ready, F)

Queues(s) == s.ready \in Seq(JobFuncs) /\ s.timed \in [JobFuncs -> Nat]

Quiet(s, f) == ~Has(s.ready, f) /\ s.timed[f] = 0

Single(s, f) ==
  /\ AtMostOne(s.ready, {f})
  /\ s.timed[f] \in {0, 1}
  /\ s.timed[f] = 1 => ~Has(s.ready, f)

Scheduled1(s, f) == Has(s.ready, f) \/ s.timed[f] = 1

AddedNow(s, t, f) ==
  /\ Same(s, t, {"ready", "timed"}) /\ Queues(t)
  /\ t.timed = s.timed
  /\ \A g : Has(t.ready, g) <=> g = f \/ Has(s.ready, g)
  /\ \A F : f \notin F /\ AtMostOne(s.ready, F) => AtMostOne(t.ready, F)
  /\ \A F : (\A g \in F : ~Has(s.ready, g)) => AtMostOne(t.ready, F)

AddedTimed(s, t, f) ==
  /\ Same(s, t, {"ready", "timed"}) /\ Queues(t)
  /\ t.ready = s.ready
  /\ t.timed = [s.timed EXCEPT ![f] = @ + 1]

Lost(s, t, f) ==
  /\ Same(s, t, {"ready", "timed"}) /\ Queues(t)
  /\ \A F : f \notin F => JobsSame(s, t, F)
  /\ \A F : AtMostOne(s.ready, F) => AtMostOne(t.ready, F)
  /\ Single(s, f) => Quiet(t, f)

(* SCHED_ADD with 0 cycles.                                                *)
LEMMA AddNowProps ==
  ASSUME NEW s, DOMAIN s = Fields, Queues(s), NEW f \in JobFuncs
  PROVE  AddedNow(s, AddNow(s, f), f)
<1> DEFINE t == AddNow(s, f)
           r == <<f>> \o s.ready
<1>1. /\ DOMAIN t = Fields /\ t.ready = r
      /\ \A x \in Fields \ {"ready"} : t[x] = s[x]
  BY DEF AddNow, Fields
<1>2. t.timed = s.timed
  BY <1>1 DEF Fields
<1> HIDE DEF t
<1>3. s.ready \in Seq(JobFuncs) /\ r = <<f>> \o s.ready
  BY DEF Queues
<1> HIDE DEF r
<1>4. /\ r \in Seq(JobFuncs)
      /\ \A g : Has(r, g) <=> g = f \/ Has(s.ready, g)
      /\ \A F : f \notin F /\ AtMostOne(s.ready, F) => AtMostOne(r, F)
      /\ \A F : (\A g \in F : ~Has(s.ready, g)) => AtMostOne(r, F)
  <2> DEFINE q == s.ready
  <2>1. q \in Seq(JobFuncs) /\ r = <<f>> \o q
    BY <1>3
  <2> HIDE DEF q
  <2>2. /\ r \in Seq(JobFuncs)
        /\ \A g : Has(r, g) <=> g = f \/ Has(q, g)
        /\ \A F : f \notin F /\ AtMostOne(q, F) => AtMostOne(r, F)
        /\ \A F : (\A g \in F : ~Has(q, g)) => AtMostOne(r, F)
    BY ONLY <2>1, f \in JobFuncs, ConsJob, Zenon
  <2> QED BY <2>2 DEF q
<1>5. Same(s, t, {"ready", "timed"}) /\ Queues(t)
  BY <1>1, <1>2, <1>4 DEF Same, Queues
<1>6. AddedNow(s, t, f)
  BY <1>1, <1>2, <1>4, <1>5 DEF AddedNow
<1> QED BY <1>6 DEF t

(* SCHED_ADD with some cycles.                                             *)
LEMMA AddTimedProps ==
  ASSUME NEW s, DOMAIN s = Fields, Queues(s), NEW f \in JobFuncs
  PROVE  AddedTimed(s, AddTimed(s, f), f)
<1> DEFINE t == AddTimed(s, f)
<1>1. /\ DOMAIN t = Fields /\ t.timed = [s.timed EXCEPT ![f] = @ + 1]
      /\ \A x \in Fields \ {"timed"} : t[x] = s[x]
  BY DEF AddTimed, Fields
<1>2. t.ready = s.ready
  BY <1>1 DEF Fields
<1> HIDE DEF t
<1>3. s.timed[f] + 1 \in Nat
  BY DEF Queues
<1>4. Same(s, t, {"ready", "timed"}) /\ Queues(t)
  BY <1>1, <1>2, <1>3 DEF Same, Queues
<1>5. AddedTimed(s, t, f)
  BY <1>1, <1>2, <1>4 DEF AddedTimed
<1> QED BY <1>5 DEF t

(* Other jobs than the one that is added stay as they were.                *)
LEMMA OthersSame ==
  ASSUME NEW s, NEW t, NEW f \in JobFuncs, Queues(s),
         AddedNow(s, t, f) \/ AddedTimed(s, t, f),
         NEW F \in SUBSET JobFuncs, f \notin F
  PROVE  JobsSame(s, t, F)
  BY DEF AddedNow, AddedTimed, JobsSame, Queues

(* A job that was not scheduled is scheduled once after it is added.       *)
LEMMA AddedSingle ==
  ASSUME NEW s, NEW t, NEW f \in JobFuncs, Queues(s), Quiet(s, f),
         AddedNow(s, t, f) \/ AddedTimed(s, t, f)
  PROVE  Single(t, f) /\ Scheduled1(t, f)
<1>1. CASE AddedNow(s, t, f)
  <2>1. AtMostOne(t.ready, {f})
    BY <1>1 DEF AddedNow, Quiet
  <2> QED BY <1>1, <2>1 DEF AddedNow, Quiet, Single, Scheduled1
<1>2. CASE AddedTimed(s, t, f)
  <2>1. AtMostOne(t.ready, {f}) /\ ~Has(t.ready, f)
    BY <1>2 DEF AddedTimed, Quiet, AtMostOne, Has
  <2>2. t.timed[f] = 1
    BY <1>2 DEF AddedTimed, Quiet, Queues
  <2> QED BY <2>1, <2>2 DEF Single, Scheduled1
<1> QED BY <1>1, <1>2

(* SCHED_FIND_REMOVE.                                                      *)
LEMMA UnschedProps ==
  ASSUME NEW s, DOMAIN s = Fields, Queues(s), NEW f \in JobFuncs
  PROVE  Lost(s, Unsched(s, f), f)
<1> DEFINE t == Unsched(s, f)
<1>0. s.ready \in Seq(JobFuncs) /\ s.timed \in [JobFuncs -> Nat]
      /\ DOMAIN s.ready = 1..Len(s.ready)
  BY DEF Queues
<1>1. CASE Has(s.ready, f)
  <2> DEFINE r == RemoveFirst(s.ready, f)
  <2>1. t = [s EXCEPT !.ready = r]
    BY <1>0, <1>1 DEF Unsched, Has
  <2> HIDE DEF t, r
  <2>2. /\ DOMAIN t = Fields /\ t.ready = r
        /\ \A x \in Fields \ {"ready"} : t[x] = s[x]
    BY <2>1 DEF Fields
  <2>3. t.timed = s.timed
    BY <2>2 DEF Fields
  <2>4. /\ r \in Seq(JobFuncs)
        /\ \A g : g # f => (Has(r, g) <=> Has(s.ready, g))
        /\ \A F : AtMostOne(s.ready, F) => AtMostOne(r, F)
        /\ AtMostOne(s.ready, {f}) => ~Has(r, f)
    BY <1>0, <1>1, RemoveFirstJob DEF r
  <2>5. Same(s, t, {"ready", "timed"}) /\ Queues(t)
    BY <1>0, <2>2, <2>3, <2>4 DEF Same, Queues
  <2>6. \A F : f \notin F => JobsSame(s, t, F)
    BY <2>2, <2>3, <2>4 DEF JobsSame
  <2>7. Single(s, f) => Quiet(t, f)
    BY <1>1, <2>2, <2>3, <2>4 DEF Single, Quiet
  <2> QED BY <2>2, <2>4, <2>5, <2>6, <2>7 DEF Lost, t
<1>2. CASE ~Has(s.ready, f)
  <2> DEFINE n == IF s.timed[f] > 0 THEN s.timed[f] - 1 ELSE 0
  <2>1. t = [s EXCEPT !.timed[f] = n]
    BY <1>0, <1>2 DEF Unsched, Has
  <2>2. n \in Nat /\ (s.timed[f] \in {0, 1} => n = 0)
    BY <1>0
  <2> HIDE DEF t, n
  <2>3. /\ DOMAIN t = Fields /\ t.timed = [s.timed EXCEPT ![f] = n]
        /\ \A x \in Fields \ {"timed"} : t[x] = s[x]
    BY <2>1 DEF Fields
  <2>4. t.ready = s.ready
    BY <2>3 DEF Fields
  <2>5. Same(s, t, {"ready", "timed"}) /\ Queues(t)
    BY <1>0, <2>2, <2>3, <2>4 DEF Same, Queues
  <2>6. \A g : g # f => t.timed[g] = s.timed[g]
    BY <1>0, <2>3
  <2>7. \A F : f \notin F => JobsSame(s, t, F)
    BY <2>4, <2>6 DEF JobsSame
  <2>8. Single(s, f) => Quiet(t, f)
    BY <1>0, <1>2, <2>2, <2>3, <2>4 DEF Single, Quiet
  <2> QED BY <2>4, <2>5, <2>7, <2>8 DEF Lost, t
<1> QED BY <1>1, <1>2

(* uart_int_<i>(): the flag is set, and the line follows.                  *)
LEMMA RaiseProps ==
  ASSUME NEW s, DOMAIN s = Fields, NEW i \in Ints
  PROVE  /\ Same(s, Raise(s, i), {"ints", "iir", "irq"})
         /\ Raise(s, i).ints = s.ints \cup {i}
         /\ LineOK(s) => LineOK(Raise(s, i))
         /\ IntsOK(s) => IntsOK(Raise(s, i))
         /\ LineOK(s) /\ EnableBit(i) \in s.ier => Raise(s, i).iir # "none"
<1> DEFINE t == Raise(s, i)
<1>1. /\ Same(s, t, {"ints", "iir", "irq"})
      /\ t.ints = s.ints \cup {i} /\ t.ier = s.ier
  BY DEF Raise, Same, Fields
<1>2. "none" \in Yields(i) /\ i # "none"
  BY DEF Yields, Ints
<1>3. \/ EnableBit(i) \in s.ier /\ t.iir = i /\ t.irq = TRUE
      \/ /\ EnableBit(i) \in s.ier => s.iir # "none"
         /\ t.iir = s.iir /\ t.irq = s.irq
  BY <1>2 DEF Raise, Fields
<1> HIDE DEF t
<1>4. LineOK(s) => LineOK(t)
  BY <1>1, <1>2, <1>3 DEF LineOK
<1>5. IntsOK(s) => IntsOK(t)
  BY <1>1, <1>2, <1>3, <1>4 DEF IntsOK, Enabled
<1>6. LineOK(s) /\ EnableBit(i) \in s.ier => t.iir # "none"
  BY <1>2, <1>3
<1> QED BY <1>1, <1>4, <1>5, <1>6 DEF t

(* uart_next_int() looks for an interrupt that is pending and enabled.     *)
LEMMA NextIntProps ==
  ASSUME NEW s, DOMAIN s = Fields, LineOK(s)
  PROVE  /\ Same(s, uart_next_int(s), {"ints", "iir", "irq"})
         /\ uart_next_int(s).ints = s.ints
         /\ IntsOK(uart_next_int(s))
<1> DEFINE t == uart_next_int(s)
<1>1. ASSUME NEW i \in Enabled(s), t = Raise(s, i)
      PROVE  /\ Same(s, t, {"ints", "iir", "irq"})
             /\ t.ints = s.ints /\ IntsOK(t)
  <2> HIDE DEF t
  <2>1. i \in Ints /\ i \in s.ints /\ EnableBit(i) \in s.ier
    BY DEF Enabled, LineOK
  <2>2. /\ Same(s, t, {"ints", "iir", "irq"})
        /\ t.ints = s.ints /\ LineOK(t) /\ t.iir # "none"
    <3> DEFINE v == Raise(s, i)
    <3>1. /\ Same(s, v, {"ints", "iir", "irq"})
          /\ v.ints = s.ints \cup {i} /\ LineOK(v) /\ v.iir # "none"
      BY <2>1, RaiseProps
    <3> HIDE DEF v
    <3> QED BY <1>1, <2>1, <3>1 DEF v
  <2> QED BY <2>2 DEF IntsOK
<1>2. ASSUME Enabled(s) = {}, t = [s EXCEPT !.irq = FALSE, !.iir = "none"]
      PROVE  /\ Same(s, t, {"ints", "iir", "irq"})
             /\ t.ints = s.ints /\ IntsOK(t)
  <2> HIDE DEF t
  <2>1. /\ Same(s, t, {"ints", "iir", "irq"}) /\ t.ints = s.ints
        /\ t.ier = s.ier /\ t.irq = FALSE /\ t.iir = "none"
    BY <1>2 DEF Same, Fields
  <2>2. Enabled(t) = {}
    BY <1>2, <2>1 DEF Enabled
  <2> QED BY <2>1, <2>2 DEF IntsOK, LineOK
<1>3. Enabled(s) \subseteq Ints
  BY DEF Enabled, LineOK
<1>4. \/ \E i \in Enabled(s) : t = Raise(s, i)
      \/ Enabled(s) = {} /\ t = [s EXCEPT !.irq = FALSE, !.iir = "none"]
  <2> DEFINE E == Enabled(s)
  <2> HIDE DEF E
  <2>1. t = IF "rlsi" \in E THEN Raise(s, "rlsi")
            ELSE IF "rdi" \in E THEN Raise(s, "rdi")
            ELSE IF "cti" \in E THEN Raise(s, "cti")
            ELSE IF "thri" \in E THEN Raise(s, "thri")
            ELSE IF "msi" \in E THEN Raise(s, "msi")
            ELSE [s EXCEPT !.irq = FALSE, !.iir = "none"]
    BY DEF uart_next_int, E
  <2>2. E \subseteq {"rlsi", "rdi", "cti", "thri", "msi"}
    BY <1>3 DEF Ints, E
  <2> HIDE DEF t
  <2>3. CASE E = {}
    BY <2>1, <2>3 DEF E
  <2>4. CASE E # {}
    <3>1. \E i \in E : t = Raise(s, i)
      BY <2>1, <2>2, <2>4
    <3> QED BY <3>1 DEF E
  <2> QED BY <2>3, <2>4
<1> QED BY <1>1, <1>2, <1>4 DEF t

(* uart_clear_int(): the flag goes, with a character timeout that is still *)
(* scheduled, and the next interrupt is reported.                          *)
LEMMA ClearIntProps ==
  ASSUME NEW s, DOMAIN s = Fields, Queues(s), LineOK(s), NEW i \in Ints
  PROVE  LET t == uart_clear_int(s, i) IN
         /\ Same(s, t, {"ints", "iir", "irq", "ready", "timed"})
         /\ Queues(t)
         /\ t.ints = s.ints \ {i}
         /\ IntsOK(s) => IntsOK(t)
         /\ LineOK(t)
         /\ i # "cti" => t.ready = s.ready /\ t.timed = s.timed
         /\ \A F : "int_cti" \notin F => JobsSame(s, t, F)
         /\ i = "cti" /\ Single(s, "int_cti") => Quiet(t, "int_cti")
<1> DEFINE a == [s EXCEPT !.ints = @ \ {i}]
           r == IF i = "cti" THEN Unsched(a, "int_cti") ELSE a
           t == uart_clear_int(s, i)
<1>1. /\ Same(s, a, {"ints"}) /\ a.ints = s.ints \ {i}
      /\ a.ready = s.ready /\ a.timed = s.timed
      /\ a.iir = s.iir /\ a.irq = s.irq /\ a.ier = s.ier
  BY DEF Same, Fields
<1>2. t = IF i = s.iir THEN uart_next_int(r) ELSE r
  BY DEF uart_clear_int
<1> HIDE DEF a, t
<1>3. DOMAIN a = Fields /\ Queues(a)
  BY <1>1 DEF Same, Queues
<1>4. /\ Same(a, r, {"ready", "timed"}) /\ Queues(r)
      /\ i # "cti" => r.ready = a.ready /\ r.timed = a.timed
      /\ \A F : "int_cti" \notin F => JobsSame(a, r, F)
      /\ i = "cti" /\ Single(a, "int_cti") => Quiet(r, "int_cti")
  <2>1. CASE i = "cti"
    <3>1. Lost(a, r, "int_cti")
      BY <1>3, <2>1, UnschedProps DEF JobFuncs
    <3> QED BY <2>1, <3>1 DEF Lost
  <2>2. CASE i # "cti"
    <3>1. r = a
      BY <2>2
    <3> HIDE DEF r
    <3> QED BY <1>3, <2>2, <3>1 DEF Same, JobsSame
  <2> QED BY <2>1, <2>2
<1> HIDE DEF r
<1>5. /\ r.ints = s.ints \ {i} /\ r.iir = s.iir /\ r.irq = s.irq
      /\ r.ier = s.ier /\ DOMAIN r = Fields
      /\ Same(s, r, {"ints", "ready", "timed"})
  BY <1>1, <1>4 DEF Same, Fields
<1>6. LineOK(r)
  BY <1>5 DEF LineOK
<1>7. /\ Same(r, t, {"ints", "iir", "irq"}) /\ t.ints = r.ints /\ LineOK(t)
      /\ IntsOK(s) => IntsOK(t)
  <2>1. CASE i = s.iir
    <3>1. t = uart_next_int(r)
      BY <1>2, <2>1
    <3> QED BY <1>5, <1>6, <3>1, NextIntProps DEF IntsOK
  <2>2. CASE i # s.iir
    <3>1. t = r
      BY <1>2, <2>2
    <3>2. IntsOK(s) => IntsOK(t)
      BY <1>5, <1>6, <3>1 DEF IntsOK, Enabled
    <3> QED BY <1>5, <1>6, <3>1, <3>2 DEF Same
  <2> QED BY <2>1, <2>2
<1>8. t.ready = r.ready /\ t.timed = r.timed
  BY <1>7 DEF Same, Fields
<1>9. /\ Queues(t)
      /\ Same(s, t, {"ints", "iir", "irq", "ready", "timed"})
  BY <1>4, <1>5, <1>7, <1>8 DEF Same, Queues
<1>10. \A F : "int_cti" \notin F => JobsSame(s, t, F)
  BY <1>1, <1>4, <1>8 DEF JobsSame
<1>11. i = "cti" /\ Single(s, "int_cti") => Quiet(t, "int_cti")
  BY <1>1, <1>4, <1>8 DEF Single, Quiet
<1> QED BY <1>1, <1>4, <1>5, <1>7, <1>8, <1>9, <1>10, <1>11 DEF t
-----------------------------------------------------------------------------
(***************************************************************************)
(* How the parts of the invariant survive a change.                        *)
(***************************************************************************)
(* The fields that the parts about types, FIFOs and transmitter are about. *)
Core == {"use", "fifo_len", "tx", "txser", "loopback", "rx", "rxser", "buf",
         "rdrdy", "txbufe", "txsere", "sbc"}

(* A change of other fields keeps the types and the FIFOs, and it keeps    *)
(* what is said about jobs that stay scheduled as they were.               *)
LEMMA Kept ==
  ASSUME NEW s, NEW t, NEW G, Same(s, t, G), G \cap Core = {},
         Typed(s), Queues(t)
  PROVE  /\ Typed(t)
         /\ FifosOK(s) => FifosOK(t)
         /\ JobsSame(s, t, TxJobs) /\ TxOK(s) => TxOK(t)
         /\ JobsSame(s, t, TxJobs) /\ TxQuiet(s) => TxQuiet(t)
         /\ JobsSame(s, t, {"int_cti"}) /\ CtiOK(s)
              /\ ("cti" \in s.ints => "cti" \in t.ints) => CtiOK(t)
         /\ JobsSame(s, t, {"int_cti"}) /\ CtiQuiet(s) => CtiQuiet(t)
<1>1. /\ t.use = s.use /\ t.fifo_len = s.fifo_len /\ t.tx = s.tx
      /\ t.txser = s.txser /\ t.loopback = s.loopback /\ t.rx = s.rx
      /\ t.rxser = s.rxser /\ t.buf = s.buf /\ t.rdrdy = s.rdrdy
      /\ t.txbufe = s.txbufe /\ t.txsere = s.txsere /\ t.sbc = s.sbc
  <2>1. \A x \in Core : x \in Fields \ G
    BY DEF Core, Fields
  <2>2. \A x \in Core : t[x] = s[x]
    BY <2>1 DEF Same
  <2> QED BY <2>2 DEF Core
<1>2. Typed(t)
  BY <1>1 DEF Typed, Queues, Same
<1>3. FifosOK(s) => FifosOK(t)
  BY <1>1 DEF FifosOK
<1>4. ASSUME JobsSame(s, t, TxJobs)
      PROVE  (TxOK(s) => TxOK(t)) /\ (TxQuiet(s) => TxQuiet(t))
  <2>1. /\ \A f \in TxJobs : Has(t.ready, f) <=> Has(s.ready, f)
        /\ \A f \in TxJobs : t.timed[f] = s.timed[f]
        /\ AtMostOne(s.ready, TxJobs) => AtMostOne(t.ready, TxJobs)
    BY <1>4 DEF JobsSame
  <2>2. "char_clock" \in TxJobs /\ "send_break" \in TxJobs
        /\ "tx_send" \in TxJobs
    BY DEF TxJobs
  <2>3. TxQuiet(s) => TxQuiet(t)
    BY <2>1, <2>2 DEF TxQuiet
  <2>4. TxOK(s) => TxOK(t)
    BY <1>1, <2>1, <2>2 DEF TxOK
  <2> QED BY <2>3, <2>4
<1>5. ASSUME JobsSame(s, t, {"int_cti"})
      PROVE  /\ CtiOK(s) /\ ("cti" \in s.ints => "cti" \in t.ints) => CtiOK(t)
             /\ CtiQuiet(s) => CtiQuiet(t)
  BY <1>1, <1>5 DEF JobsSame, CtiOK, CtiSingle, CtiQuiet
<1> QED BY <1>2, <1>3, <1>4, <1>5

(* The interrupt part depends on four fields.                              *)
LEMMA IntsKept ==
  ASSUME NEW s, NEW t, t.ints = s.ints, t.ier = s.ier, t.iir = s.iir,
         t.irq = s.irq
  PROVE  /\ LineOK(s) => LineOK(t)
         /\ IntsOK(s) => IntsOK(t)
  BY DEF LineOK, IntsOK, Enabled

(* An assignment to fields that no part is about.                          *)
LEMMA OtherFields ==
  ASSUME NEW s, NEW t, NEW G, Same(s, t, G), UInv(s),
         G \cap (Core \cup {"ints", "ier", "iir", "irq", "ready", "timed"}) = {}
  PROVE  UInv(t)
<1>1. \A x \in {"ints", "ier", "iir", "irq", "ready", "timed"} :
        x \in Fields \ G
  BY DEF Fields
<1>2. /\ t.ints = s.ints /\ t.ier = s.ier /\ t.iir = s.iir /\ t.irq = s.irq
      /\ t.ready = s.ready /\ t.timed = s.timed
  BY <1>1 DEF Same
<1>3. IntsOK(t)
  BY <1>2, IntsKept DEF UInv
<1>4. Queues(t) /\ JobsSame(s, t, TxJobs) /\ JobsSame(s, t, {"int_cti"})
  BY <1>2 DEF UInv, Typed, Queues, JobsSame
<1>5. G \cap Core = {}
  OBVIOUS
<1> QED BY <1>2, <1>3, <1>4, <1>5, Kept DEF UInv

(* Raising an interrupt keeps the invariant.                               *)
LEMMA RaiseInv ==
  ASSUME NEW s, UInv(s), NEW i \in Ints
  PROVE  UInv(Raise(s, i))
<1> DEFINE t == Raise(s, i)
           G == {"ints", "iir", "irq"}
<1>1. DOMAIN s = Fields /\ Typed(s)
  BY DEF UInv, Typed
<1>2. Same(s, t, G) /\ t.ints = s.ints \cup {i} /\ IntsOK(t)
  BY <1>1, RaiseProps DEF UInv
<1> HIDE DEF t
<1>3. t.ready = s.ready /\ t.timed = s.timed
  BY <1>2 DEF Same, Fields
<1>4. Queues(t) /\ JobsSame(s, t, TxJobs) /\ JobsSame(s, t, {"int_cti"})
  BY <1>1, <1>3 DEF Typed, Queues, JobsSame
<1>5. G \cap Core = {}
  BY DEF Core
<1> HIDE DEF G
<1>6. UInv(t)
  BY <1>1, <1>2, <1>4, <1>5, Kept DEF UInv
<1> QED BY <1>6 DEF t

(* uart_check_rlsi() and uart_check_rdi().                                 *)
LEMMA ChecksInv ==
  ASSUME NEW s, UInv(s)
  PROVE  UInv(uart_check_rlsi(s)) /\ UInv(uart_check_rdi(s))
<1>1. "rlsi" \in Ints /\ "rdi" \in Ints
  BY DEF Ints
<1>2. UInv(Raise(s, "rlsi")) /\ UInv(Raise(s, "rdi"))
  BY <1>1, RaiseInv
<1> QED BY <1>2 DEF uart_check_rlsi, uart_check_rdi

(* What is left of the invariant after uart_clear_int(): everything, but   *)
(* for the character timeout when that is what is cleared.                 *)
LEMMA ClearIntInv ==
  ASSUME NEW s, Typed(s), LineOK(s), NEW i \in Ints
  PROVE  LET t == uart_clear_int(s, i) IN
         /\ Same(s, t, {"ints", "iir", "irq", "ready", "timed"})
         /\ Typed(t)
         /\ IntsOK(s) => IntsOK(t)
         /\ FifosOK(s) => FifosOK(t)
         /\ TxOK(s) => TxOK(t)
         /\ i # "cti" => (CtiOK(s) => CtiOK(t)) /\ t.ready = s.ready
                         /\ t.timed = s.timed
         /\ i = "cti" /\ CtiSingle(s) => CtiQuiet(t)
<1> DEFINE t == uart_clear_int(s, i)
           G == {"ints", "iir", "irq", "ready", "timed"}
<1>1. DOMAIN s = Fields /\ Queues(s)
  BY DEF Typed, Queues
<1>2. /\ Same(s, t, G) /\ Queues(t) /\ t.ints = s.ints \ {i}
      /\ IntsOK(s) => IntsOK(t)
      /\ i # "cti" => t.ready = s.ready /\ t.timed = s.timed
      /\ \A F : "int_cti" \notin F => JobsSame(s, t, F)
      /\ i = "cti" /\ Single(s, "int_cti") => Quiet(t, "int_cti")
  BY <1>1, ClearIntProps
<1> HIDE DEF t
<1>3. JobsSame(s, t, TxJobs)
  BY <1>2 DEF TxJobs
<1>4. i # "cti" => JobsSame(s, t, {"int_cti"})
  BY <1>2 DEF JobsSame
<1>5. i = "cti" /\ CtiSingle(s) => CtiQuiet(t)
  BY <1>2 DEF CtiSingle, CtiQuiet, Single, Quiet
<1>6. G \cap Core = {}
  BY DEF Core
<1>7. /\ Typed(t)
      /\ FifosOK(s) => FifosOK(t)
      /\ TxOK(s) => TxOK(t)
      /\ i # "cti" => (CtiOK(s) => CtiOK(t))
  <2> HIDE DEF G
  <2> QED BY <1>2, <1>3, <1>4, <1>6, Kept
<1> QED BY <1>2, <1>5, <1>7 DEF t

(* Adding a job that neither the transmitter nor the character timeout is  *)
(* about.                                                                  *)
LEMMA AddOther ==
  ASSUME NEW s, NEW t, UInv(s), NEW f \in JobFuncs,
         f \notin TxJobs, f # "int_cti",
         AddedNow(s, t, f) \/ AddedTimed(s, t, f)
  PROVE  UInv(t)
<1> DEFINE G == {"ready", "timed"}
<1>1. Typed(s) /\ Queues(s)
  BY DEF UInv, Typed, Queues
<1>2. TxJobs \subseteq JobFuncs /\ {"int_cti"} \subseteq JobFuncs
  BY DEF TxJobs, JobFuncs
<1>3. JobsSame(s, t, TxJobs) /\ JobsSame(s, t, {"int_cti"})
  BY <1>1, <1>2, OthersSame
<1>4. Same(s, t, G) /\ Queues(t)
  BY DEF AddedNow, AddedTimed
<1>5. t.ints = s.ints /\ t.ier = s.ier /\ t.iir = s.iir /\ t.irq = s.irq
  BY <1>4 DEF Same, Fields
<1>6. IntsOK(t)
  BY <1>5, IntsKept DEF UInv
<1>7. G \cap Core = {}
  BY DEF Core
<1> HIDE DEF G
<1> QED BY <1>1, <1>3, <1>4, <1>5, <1>6, <1>7, Kept DEF UInv

(* Taking such a job out of the schedule.                                  *)
LEMMA LoseOther ==
  ASSUME NEW s, NEW t, UInv(s), NEW f \in JobFuncs,
         f \notin TxJobs, f # "int_cti", Lost(s, t, f)
  PROVE  UInv(t)
<1> DEFINE G == {"ready", "timed"}
<1>1. Typed(s)
  BY DEF UInv
<1>3. JobsSame(s, t, TxJobs) /\ JobsSame(s, t, {"int_cti"})
  BY DEF Lost
<1>4. Same(s, t, G) /\ Queues(t)
  BY DEF Lost
<1>5. t.ints = s.ints /\ t.ier = s.ier /\ t.iir = s.iir /\ t.irq = s.irq
  BY <1>4 DEF Same, Fields
<1>6. IntsOK(t)
  BY <1>5, IntsKept DEF UInv
<1>7. G \cap Core = {}
  BY DEF Core
<1> HIDE DEF G
<1> QED BY <1>1, <1>3, <1>4, <1>5, <1>6, <1>7, Kept DEF UInv

(* SCHED_ADD with a multiple of char_clks or of vapi.char_clks.            *)
LEMMA AddClksProps ==
  ASSUME NEW s, DOMAIN s = Fields, Queues(s), NEW f \in JobFuncs
  PROVE  /\ \/ AddedNow(s, AddClks(s, f), f)
            \/ AddedTimed(s, AddClks(s, f), f)
         /\ \/ AddedNow(s, AddVapiClks(s, f), f)
            \/ AddedTimed(s, AddVapiClks(s, f), f)
<1>1. AddedNow(s, AddNow(s, f), f) /\ AddedTimed(s, AddTimed(s, f), f)
  BY AddNowProps, AddTimedProps
<1>2. AddClks(s, f) \in {AddNow(s, f), AddTimed(s, f)}
  BY DEF AddClks
<1>3. AddVapiClks(s, f) \in {AddNow(s, f), AddTimed(s, f)}
  BY DEF AddVapiClks
<1> QED BY <1>1, <1>2, <1>3
-----------------------------------------------------------------------------
(***************************************************************************)
(* The transmitter.                                                        *)
(***************************************************************************)
(* A state in which the job of the transmitter has just been taken.        *)
TxTaken(s) ==
  /\ Typed(s) /\ IntsOK(s) /\ FifosOK(s) /\ CtiOK(s) /\ TxQuiet(s)

(* uart_tx_send(): a character leaves the FIFO and its end is scheduled.   *)
LEMMA TxSendInv ==
  ASSUME NEW s, TxTaken(s), s.tx # <<>>
  PROVE  UInv(uart_tx_send(s))
<1> DEFINE a == [s EXCEPT !.txser = Head(s.tx), !.tx = Tail(@),
                          !.txsere = FALSE]
           r == IF s.sbc THEN AddNow(a, "send_break")
                ELSE AddClks(a, "char_clock")
           v == [r EXCEPT !.txbufe = TRUE]
           GA == {"txser", "tx", "txsere"}
           GR == {"ready", "timed"}
<1>0. /\ DOMAIN s = Fields /\ Queues(s) /\ s.tx \in Seq(Chars)
      /\ Head(s.tx) \in Chars /\ Tail(s.tx) \in Seq(Chars)
      /\ Len(Tail(s.tx)) = Len(s.tx) - 1 /\ Len(s.tx) \in Nat
      /\ s.fifo_len \in Nat \ {0}
  BY DEF TxTaken, Typed, Queues
<1>1. /\ Same(s, a, GA) /\ a.txser = Head(s.tx) /\ a.tx = Tail(s.tx)
      /\ a.txsere = FALSE
  BY <1>0 DEF Same, Fields
<1>2. /\ a.use = s.use /\ a.fifo_len = s.fifo_len
      /\ a.loopback = s.loopback /\ a.rx = s.rx /\ a.rxser = s.rxser
      /\ a.buf = s.buf /\ a.ready = s.ready /\ a.timed = s.timed
      /\ a.rdrdy = s.rdrdy /\ a.txbufe = s.txbufe /\ a.sbc = s.sbc
      /\ a.ints = s.ints /\ a.iir = s.iir /\ a.irq = s.irq /\ a.ier = s.ier
      /\ DOMAIN a = Fields
  BY <1>1 DEF Same, Fields
<1> HIDE DEF a
<1>3. Typed(a) /\ Queues(a)
  BY <1>0, <1>1, <1>2 DEF TxTaken, Typed, Queues
<1>4. IntsOK(a)
  BY <1>2, IntsKept DEF TxTaken
<1>5. CtiOK(a) /\ TxQuiet(a)
  BY <1>2 DEF TxTaken, CtiOK, CtiSingle, TxQuiet
<1>6. /\ s.sbc => AddedNow(a, r, "send_break")
      /\ ~s.sbc => \/ AddedNow(a, r, "char_clock")
                   \/ AddedTimed(a, r, "char_clock")
  <2>1. "send_break" \in JobFuncs /\ "char_clock" \in JobFuncs
    BY DEF JobFuncs
  <2>2. /\ AddedNow(a, AddNow(a, "send_break"), "send_break")
        /\ \/ AddedNow(a, AddClks(a, "char_clock"), "char_clock")
           \/ AddedTimed(a, AddClks(a, "char_clock"), "char_clock")
    BY <1>2, <1>3, <2>1, AddNowProps, AddClksProps
  <2> QED BY <2>2
<1> HIDE DEF r
<1>7. Same(a, r, GR) /\ Queues(r)
  BY <1>6 DEF AddedNow, AddedTimed
<1>8. /\ r.ints = a.ints /\ r.iir = a.iir /\ r.irq = a.irq /\ r.ier = a.ier
      /\ r.tx = a.tx /\ r.rx = a.rx /\ r.fifo_len = a.fifo_len
      /\ r.rdrdy = a.rdrdy /\ r.txbufe = a.txbufe /\ r.txsere = FALSE
      /\ r.sbc = s.sbc /\ DOMAIN r = Fields
  BY <1>1, <1>2, <1>7 DEF Same, Fields
<1>9. IntsOK(r)
  BY <1>4, <1>8, IntsKept
<1>10. Typed(r) /\ CtiOK(r)
  <2>1. JobsSame(a, r, {"int_cti"})
    <3>1. "int_cti" \notin {"send_break", "char_clock"}
          /\ {"int_cti"} \in SUBSET JobFuncs
          /\ "send_break" \in JobFuncs /\ "char_clock" \in JobFuncs
      BY DEF JobFuncs
    <3> QED BY <1>3, <1>6, <3>1, OthersSame
  <2>2. GR \cap Core = {}
    BY DEF Core
  <2> HIDE DEF GR
  <2> QED BY <1>3, <1>5, <1>7, <1>8, <2>1, <2>2, Kept
<1>11. TxOK(r)
  <2>1. CASE s.sbc
    <3>1. /\ r.timed = a.timed
          /\ \A g : Has(r.ready, g) <=> g = "send_break" \/ Has(a.ready, g)
          /\ AtMostOne(r.ready, TxJobs)
      BY <1>5, <1>6, <2>1 DEF AddedNow, TxQuiet
    <3>2. \A g \in TxJobs : ~Has(a.ready, g)
      BY <1>5 DEF TxQuiet
    <3>3. /\ Has(r.ready, "send_break") /\ ~Has(r.ready, "char_clock")
          /\ ~Has(r.ready, "tx_send")
      BY <3>1, <3>2 DEF TxJobs
    <3>4. /\ r.timed["char_clock"] = 0 /\ r.timed["send_break"] = 0
          /\ r.timed["tx_send"] = 0
      BY <1>5, <3>1 DEF TxQuiet
    <3>5. AtMostOne(r.ready, TxJobs)
      BY <3>1
    <3>6. r.sbc
      BY <1>8, <2>1
    <3>7. r.txsere = FALSE
      BY <1>8
    <3>8. r.txsere \in BOOLEAN /\ r.txsere # TRUE
      BY <3>7
    <3>9. /\ r.timed["char_clock"] \in {0, 1}
          /\ r.timed["char_clock"] = 1 => \A f \in TxJobs : ~Has(r.ready, f)
      BY <3>4
    <3>10. /\ r.sbc # TRUE => Has(r.ready, "char_clock")
           /\ r.sbc = TRUE => Has(r.ready, "send_break")
      BY <3>3, <3>6
    <3> QED BY ONLY <3>3, <3>4, <3>5, <3>8, <3>9, <3>10 DEF TxOK
  <2>2. CASE ~s.sbc /\ AddedNow(a, r, "char_clock")
    <3>1. /\ r.timed = a.timed
          /\ \A g : Has(r.ready, g) <=> g = "char_clock" \/ Has(a.ready, g)
          /\ AtMostOne(r.ready, TxJobs)
      BY <1>5, <2>2 DEF AddedNow, TxQuiet
    <3>2. \A g \in TxJobs : ~Has(a.ready, g)
      BY <1>5 DEF TxQuiet
    <3>3. /\ Has(r.ready, "char_clock") /\ ~Has(r.ready, "send_break")
          /\ ~Has(r.ready, "tx_send")
      BY <3>1, <3>2 DEF TxJobs
    <3>4. /\ r.timed["char_clock"] = 0 /\ r.timed["send_break"] = 0
          /\ r.timed["tx_send"] = 0
      BY <1>5, <3>1 DEF TxQuiet
    <3>5. AtMostOne(r.ready, TxJobs)
      BY <3>1
    <3>6. ~r.sbc
      BY <1>8, <2>2
    <3>7. r.txsere = FALSE
      BY <1>8
    <3>8. r.txsere \in BOOLEAN /\ r.txsere # TRUE
      BY <3>7
    <3>9. /\ r.timed["char_clock"] \in {0, 1}
          /\ r.timed["char_clock"] = 1 => \A f \in TxJobs : ~Has(r.ready, f)
      BY <3>4
    <3>10. /\ r.sbc # TRUE => Has(r.ready, "char_clock")
           /\ r.sbc = TRUE => Has(r.ready, "send_break")
      BY <3>3, <3>6
    <3> QED BY ONLY <3>3, <3>4, <3>5, <3>8, <3>9, <3>10 DEF TxOK
  <2>3. CASE ~s.sbc /\ AddedTimed(a, r, "char_clock")
    <3>1. r.ready = a.ready /\ r.timed = [a.timed EXCEPT !["char_clock"] = @ + 1]
      BY <2>3 DEF AddedTimed
    <3>2. /\ r.timed["char_clock"] = 1
          /\ r.timed["send_break"] = 0 /\ r.timed["tx_send"] = 0
      BY <1>3, <1>5, <3>1 DEF TxQuiet, Queues, JobFuncs
    <3>3. \A g \in TxJobs : ~Has(r.ready, g)
      BY <1>5, <3>1 DEF TxQuiet
    <3>4. AtMostOne(r.ready, TxJobs)
      BY <3>3 DEF AtMostOne, Has
    <3> QED BY <1>8, <2>3, <3>2, <3>3, <3>4 DEF TxOK, TxJobs
  <2> QED BY <1>6, <2>1, <2>2, <2>3
<1>12. uart_tx_send(s) = IF a.tx = <<>> THEN Raise(v, "thri") ELSE r
  BY DEF uart_tx_send, a, r
<1>13. CASE a.tx = <<>>
  <2>1. /\ Same(r, v, {"txbufe"}) /\ v.txbufe = TRUE
        /\ DOMAIN v = Fields
    BY <1>8 DEF Same, Fields
  <2>2. /\ v.use = r.use /\ v.fifo_len = r.fifo_len /\ v.tx = r.tx
        /\ v.txser = r.txser /\ v.loopback = r.loopback /\ v.rx = r.rx
        /\ v.rxser = r.rxser /\ v.buf = r.buf /\ v.rdrdy = r.rdrdy
        /\ v.txsere = r.txsere /\ v.sbc = r.sbc
        /\ v.ready = r.ready /\ v.timed = r.timed
        /\ v.ints = r.ints /\ v.iir = r.iir /\ v.irq = r.irq /\ v.ier = r.ier
    BY <2>1 DEF Same, Fields
  <2> HIDE DEF v
  <2>3. Typed(v) /\ CtiOK(v) /\ TxOK(v)
    BY <1>10, <1>11, <2>1, <2>2 DEF Typed, CtiOK, CtiSingle, TxOK
  <2>4. FifosOK(v)
    <3>1. v.tx = <<>> /\ Len(v.tx) <= v.fifo_len
      BY <1>0, <1>2, <1>8, <1>13, <2>2
    <3>2. v.rx = s.rx /\ v.rdrdy = s.rdrdy /\ v.fifo_len = s.fifo_len
      BY <1>2, <1>8, <2>2
    <3>3. FifosOK(s)
      BY DEF TxTaken
    <3> QED BY <2>1, <3>1, <3>2, <3>3 DEF FifosOK
  <2>5. IntsOK(v)
    BY <1>9, <2>2, IntsKept
  <2>6. UInv(Raise(v, "thri"))
    BY <2>3, <2>4, <2>5, RaiseInv DEF UInv, Ints
  <2> QED BY <1>12, <1>13, <2>6
<1>14. CASE a.tx # <<>>
  <2>1. FifosOK(r)
    BY <1>0, <1>1, <1>2, <1>8, <1>14 DEF FifosOK, TxTaken
  <2> QED BY <1>9, <1>10, <1>11, <1>12, <1>14, <2>1 DEF UInv
<1> QED BY <1>13, <1>14

(* The end of a character or of a break.                                   *)
LEMMA TxNextInv ==
  ASSUME NEW s, TxTaken(s)
  PROVE  UInv(TxNext(s))
<1>1. CASE s.tx # <<>>
  BY <1>1, TxSendInv DEF TxNext
<1>2. CASE s.tx = <<>>
  <2> DEFINE t == [s EXCEPT !.txsere = TRUE]
  <2>0. DOMAIN s = Fields
    BY DEF TxTaken, Typed
  <2>1. Same(s, t, {"txsere"}) /\ t.txsere = TRUE /\ DOMAIN t = Fields
    BY <2>0 DEF Same, Fields
  <2>2. /\ t.use = s.use /\ t.fifo_len = s.fifo_len /\ t.tx = s.tx
        /\ t.txser = s.txser /\ t.loopback = s.loopback /\ t.rx = s.rx
        /\ t.rxser = s.rxser /\ t.buf = s.buf /\ t.rdrdy = s.rdrdy
        /\ t.txbufe = s.txbufe /\ t.sbc = s.sbc
        /\ t.ready = s.ready /\ t.timed = s.timed
        /\ t.ints = s.ints /\ t.iir = s.iir /\ t.irq = s.irq /\ t.ier = s.ier
    BY <2>1 DEF Same, Fields
  <2>3. TxNext(s) = t
    BY <1>2 DEF TxNext
  <2> HIDE DEF t
  <2>4. Typed(t) /\ CtiOK(t) /\ FifosOK(t)
    BY <2>1, <2>2 DEF TxTaken, Typed, CtiOK, CtiSingle, FifosOK
  <2>5. TxOK(t)
    <3>1. AtMostOne(t.ready, TxJobs)
      BY <2>2 DEF TxTaken, TxQuiet, AtMostOne, Has
    <3> QED BY <1>2, <2>1, <2>2, <3>1 DEF TxTaken, TxOK, TxQuiet, TxJobs
  <2>6. IntsOK(t)
    BY <2>2, IntsKept DEF TxTaken
  <2> QED BY <2>3, <2>4, <2>5, <2>6 DEF UInv
<1> QED BY <1>1, <1>2

(* uart_char_clock() and uart_send_break().                                *)
LEMMA TxEndInv ==
  ASSUME NEW s, TxTaken(s)
  PROVE  UInv(uart_char_clock(s)) /\ UInv(uart_send_break(s))
<1> DEFINE a == send_char(s)
           b == [s EXCEPT !.wire = Break]
<1>0. DOMAIN s = Fields
  BY DEF TxTaken, Typed
<1>1. ASSUME NEW t, Same(s, t, {"wire", "loopback"}),
             t.loopback \in {s.loopback, s.txser}
      PROVE  TxTaken(t)
  <2>1. /\ t.use = s.use /\ t.fifo_len = s.fifo_len /\ t.tx = s.tx
        /\ t.txser = s.txser /\ t.rx = s.rx
        /\ t.rxser = s.rxser /\ t.buf = s.buf /\ t.rdrdy = s.rdrdy
        /\ t.txbufe = s.txbufe
        /\ t.ready = s.ready /\ t.timed = s.timed
        /\ t.ints = s.ints /\ t.iir = s.iir /\ t.irq = s.irq /\ t.ier = s.ier
        /\ DOMAIN t = Fields
    BY <1>1 DEF Same, Fields
  <2>2. IntsOK(t)
    BY <2>1, IntsKept DEF TxTaken
  <2>3. Typed(t)
    BY <1>1, <2>1 DEF TxTaken, Typed
  <2> QED BY <2>1, <2>2, <2>3 DEF TxTaken, CtiOK, CtiSingle, FifosOK, TxQuiet
<1>2. Same(s, a, {"wire", "loopback"}) /\ a.loopback \in {s.loopback, s.txser}
  BY <1>0 DEF send_char, Same, Fields
<1>3. Same(s, b, {"wire", "loopback"}) /\ b.loopback \in {s.loopback, s.txser}
  BY <1>0 DEF Same, Fields
<1> HIDE DEF a, b
<1>4. TxTaken(a) /\ TxTaken(b)
  BY <1>1, <1>2, <1>3
<1>5. UInv(TxNext(a)) /\ UInv(TxNext(b))
  BY <1>4, TxNextInv
<1> QED BY <1>5 DEF uart_char_clock, uart_send_break, a, b
-----------------------------------------------------------------------------
(***************************************************************************)
(* The receiver.                                                           *)
(***************************************************************************)
(* What uart_clear_int(s, UART_IIR_CTI) and SCHED_ADD of the character     *)
(* timeout leave, when rdrdy and the error bit may have changed before.    *)
LEMMA RestartTimeout ==
  ASSUME NEW s, Typed(s), IntsOK(s), TxOK(s), CtiQuiet(s), s.rx # <<>>,
         FifosOK(s)
  PROVE  UInv(AddClks(s, "int_cti"))
<1> DEFINE t == AddClks(s, "int_cti")
           G == {"ready", "timed"}
<1>0. DOMAIN s = Fields /\ Queues(s) /\ "int_cti" \in JobFuncs
      /\ TxJobs \in SUBSET JobFuncs /\ "int_cti" \notin TxJobs
  BY DEF Typed, Queues, JobFuncs, TxJobs
<1>1. AddedNow(s, t, "int_cti") \/ AddedTimed(s, t, "int_cti")
  BY <1>0, AddClksProps
<1> HIDE DEF t
<1>2. Same(s, t, G) /\ Queues(t)
  BY <1>1 DEF AddedNow, AddedTimed
<1>3. JobsSame(s, t, TxJobs)
  BY <1>0, <1>1, OthersSame
<1>4. Single(t, "int_cti") /\ Scheduled1(t, "int_cti")
  BY <1>0, <1>1, AddedSingle DEF CtiQuiet, Quiet
<1>5. CtiOK(t)
  BY <1>4 DEF CtiOK, CtiSingle, Single, Scheduled1
<1>6. t.ints = s.ints /\ t.ier = s.ier /\ t.iir = s.iir /\ t.irq = s.irq
  BY <1>2 DEF Same, Fields
<1>7. IntsOK(t)
  BY <1>6, IntsKept
<1>8. G \cap Core = {}
  BY DEF Core
<1> HIDE DEF G
<1>9. Typed(t) /\ FifosOK(t) /\ TxOK(t)
  BY <1>2, <1>3, <1>8, Kept
<1> QED BY <1>5, <1>7, <1>9 DEF UInv, t

(* uart_add_char(): the character joins the FIFO or is an overrun; either  *)
(* way the character timeout starts again.                                 *)
LEMMA AddCharInv ==
  ASSUME NEW s, UInv(s), NEW c \in RxEntries
  PROVE  UInv(uart_add_char(s, c))
<1> DEFINE a == [s EXCEPT !.rdrdy = TRUE]
           b == uart_clear_int(a, "cti")
           t == AddClks(b, "int_cti")
           full == Len(t.rx) + 1 > t.fifo_len
           o == [t EXCEPT !.err = TRUE]
           v == [t EXCEPT !.rx = Append(@, c)]
           w == [v EXCEPT !.err = @ \/ c.err]
           r == IF full THEN Raise(o, "rlsi")
                ELSE IF t.rx = <<>> THEN uart_check_rlsi(w) ELSE v
<1>0. /\ DOMAIN s = Fields /\ Queues(s) /\ s.rx \in Seq(RxEntries)
      /\ Len(s.rx) \in Nat /\ s.fifo_len \in Nat \ {0}
  BY DEF UInv, Typed, Queues
<1>1. uart_add_char(s, c) = uart_check_rdi(r)
  BY DEF uart_add_char
<1>2. Same(s, a, {"rdrdy"}) /\ a.rdrdy = TRUE
  BY <1>0 DEF Same, Fields
<1> HIDE DEF a
<1>3. /\ a.use = s.use /\ a.fifo_len = s.fifo_len /\ a.tx = s.tx
      /\ a.txser = s.txser /\ a.loopback = s.loopback /\ a.rx = s.rx
      /\ a.rxser = s.rxser /\ a.buf = s.buf /\ a.txbufe = s.txbufe
      /\ a.txsere = s.txsere /\ a.sbc = s.sbc /\ DOMAIN a = Fields
      /\ a.ready = s.ready /\ a.timed = s.timed
      /\ a.ints = s.ints /\ a.iir = s.iir /\ a.irq = s.irq /\ a.ier = s.ier
  BY <1>2 DEF Same, Fields
<1>4. Typed(a) /\ TxOK(a) /\ CtiSingle(a)
  BY <1>3 DEF UInv, Typed, TxOK, CtiOK, CtiSingle
<1>5. IntsOK(a) /\ LineOK(a)
  BY <1>3, IntsKept DEF UInv, IntsOK
<1>6. /\ Same(a, b, {"ints", "iir", "irq", "ready", "timed"})
      /\ Typed(b) /\ IntsOK(b) /\ TxOK(b) /\ CtiQuiet(b)
  BY <1>4, <1>5, ClearIntInv DEF Ints
<1> HIDE DEF b
<1>7. /\ b.rx = s.rx /\ b.tx = s.tx /\ b.fifo_len = s.fifo_len
      /\ b.rdrdy = TRUE /\ b.txbufe = s.txbufe
  BY <1>2, <1>3, <1>6 DEF Same, Fields
<1>8. CASE s.rx # <<>>
  <2>1. FifosOK(b)
    BY <1>7, <1>8 DEF UInv, FifosOK
  <2>2. UInv(t)
    BY <1>6, <1>7, <1>8, <2>1, RestartTimeout
  <2> HIDE DEF t
  <2>3. UInv(Raise(o, "rlsi"))
    <3>1. Same(t, o, {"err"})
      BY <2>2 DEF UInv, Typed, Same, Fields
    <3> HIDE DEF o
    <3>2. {"err"} \cap (Core \cup {"ints", "ier", "iir", "irq", "ready", "timed"})
            = {}
      BY DEF Core
    <3>3. UInv(o)
      BY <2>2, <3>1, <3>2, OtherFields
    <3> QED BY <3>3, RaiseInv DEF Ints
  <2>4. ASSUME ~full, t.rx # <<>> PROVE UInv(v)
    <3>1. DOMAIN t = Fields /\ t.rx \in Seq(RxEntries) /\ Len(t.rx) \in Nat
          /\ t.fifo_len \in Nat
      BY <2>2 DEF UInv, Typed
    <3>2. Same(t, v, {"rx"}) /\ v.rx = Append(t.rx, c)
      BY <3>1 DEF Same, Fields
    <3> HIDE DEF v
    <3>3. /\ v.rx \in Seq(RxEntries) /\ v.rx # <<>>
          /\ Len(v.rx) <= t.fifo_len
      <4> DEFINE q == t.rx
      <4>1. /\ Append(q, c) \in Seq(RxEntries) /\ Append(q, c) # <<>>
            /\ Len(Append(q, c)) = Len(q) + 1
        <5>1. q \in Seq(RxEntries)
          BY <3>1
        <5> HIDE DEF q
        <5>2. /\ Append(q, c) \in Seq(RxEntries)
              /\ Len(Append(q, c)) = Len(q) + 1
          BY <5>1, AppendProperties
        <5>3. Len(q) \in Nat
          BY <5>1
        <5>4. Append(q, c) # <<>>
          BY <5>2, <5>3, EmptySeq
        <5> QED BY <5>2, <5>4
      <4>2. Len(t.rx) + 1 <= t.fifo_len
        BY <2>4, <3>1
      <4> QED BY <3>2, <4>1, <4>2
    <3>4. /\ v.use = t.use /\ v.fifo_len = t.fifo_len /\ v.tx = t.tx
          /\ v.txser = t.txser /\ v.loopback = t.loopback
          /\ v.rxser = t.rxser /\ v.buf = t.buf /\ v.rdrdy = t.rdrdy
          /\ v.txbufe = t.txbufe /\ v.txsere = t.txsere /\ v.sbc = t.sbc
          /\ v.ready = t.ready /\ v.timed = t.timed /\ DOMAIN v = Fields
          /\ v.ints = t.ints /\ v.iir = t.iir /\ v.irq = t.irq
          /\ v.ier = t.ier
      BY <3>2 DEF Same, Fields
    <3>5. Typed(v) /\ TxOK(v) /\ CtiOK(v) /\ FifosOK(v)
      BY <2>2, <2>4, <3>3, <3>4, ZenonT(60)
         DEF UInv, Typed, TxOK, CtiOK, CtiSingle, FifosOK
    <3>6. IntsOK(v)
      BY <2>2, <3>4, IntsKept DEF UInv
    <3> QED BY <3>5, <3>6 DEF UInv
  <2>5. t.rx # <<>>
    <3>1. Same(b, t, {"ready", "timed"})
      <4>1. DOMAIN b = Fields /\ Queues(b) /\ "int_cti" \in JobFuncs
        BY <1>6 DEF Typed, Queues, JobFuncs
      <4> QED BY <4>1, AddClksProps DEF AddedNow, AddedTimed, t
    <3>2. t.rx = b.rx
      BY <3>1 DEF Same, Fields
    <3> QED BY <1>7, <1>8, <3>2
  <2>6. UInv(r)
    BY <2>3, <2>4, <2>5
  <2> QED BY <1>1, <2>6, ChecksInv
<1>9. CASE s.rx = <<>>
  <2>1. /\ AddedNow(b, t, "int_cti") \/ AddedTimed(b, t, "int_cti")
        /\ DOMAIN b = Fields /\ Queues(b)
    <3>1. DOMAIN b = Fields /\ Queues(b) /\ "int_cti" \in JobFuncs
      BY <1>6 DEF Typed, Queues, JobFuncs
    <3> QED BY <3>1, AddClksProps
  <2> HIDE DEF t
  <2>2. Same(b, t, {"ready", "timed"}) /\ Queues(t) /\ DOMAIN t = Fields
    BY <2>1 DEF AddedNow, AddedTimed, Same
  <2>3. /\ t.use = b.use /\ t.fifo_len = b.fifo_len /\ t.tx = b.tx
        /\ t.txser = b.txser /\ t.loopback = b.loopback /\ t.rx = b.rx
        /\ t.rxser = b.rxser /\ t.buf = b.buf /\ t.rdrdy = b.rdrdy
        /\ t.txbufe = b.txbufe /\ t.txsere = b.txsere /\ t.sbc = b.sbc
        /\ t.ints = b.ints /\ t.iir = b.iir /\ t.irq = b.irq /\ t.ier = b.ier
    BY <2>2 DEF Same, Fields
  <2>4. ~full
    BY <1>0, <1>7, <1>9, <2>3
  <2>5. /\ Same(t, w, {"rx", "err"}) /\ w.rx = <<c>>
    <3>1. t.rx = <<>>
      BY <1>7, <1>9, <2>3
    <3>2. Append(t.rx, c) = <<c>>
      BY <3>1
    <3> QED BY <2>2, <3>2 DEF Same, Fields
  <2>6. r = uart_check_rlsi(w)
    BY <1>7, <1>9, <2>3, <2>4
  <2> HIDE DEF w
  <2>7. /\ w.use = t.use /\ w.fifo_len = t.fifo_len /\ w.tx = t.tx
        /\ w.txser = t.txser /\ w.loopback = t.loopback
        /\ w.rxser = t.rxser /\ w.buf = t.buf /\ w.rdrdy = TRUE
        /\ w.txbufe = s.txbufe /\ w.txsere = t.txsere /\ w.sbc = t.sbc
        /\ w.ready = t.ready /\ w.timed = t.timed /\ DOMAIN w = Fields
        /\ w.ints = t.ints /\ w.iir = t.iir /\ w.irq = t.irq /\ w.ier = t.ier
    BY <1>7, <2>3, <2>5 DEF Same, Fields
  <2>8. Typed(t) /\ TxOK(t)
    <3>1. JobsSame(b, t, TxJobs)
      <4>1. TxJobs \in SUBSET JobFuncs /\ "int_cti" \notin TxJobs
            /\ "int_cti" \in JobFuncs
        BY DEF TxJobs, JobFuncs
      <4> QED BY <2>1, <4>1, OthersSame
    <3>2. {"ready", "timed"} \cap Core = {}
      BY DEF Core
    <3> QED BY <1>6, <2>2, <3>1, <3>2, Kept
  <2>9. Typed(w) /\ TxOK(w)
    <3>1. w.rx \in Seq(RxEntries)
      BY <2>5
    <3> QED BY <2>7, <2>8, <3>1 DEF Typed, TxOK
  <2>10. FifosOK(w)
    <3>1. Len(w.rx) = 1 /\ w.rx # <<>>
      BY <2>5
    <3>2. w.tx = s.tx /\ w.fifo_len = s.fifo_len
      BY <1>7, <2>3, <2>7
    <3> QED BY <1>0, <2>7, <3>1, <3>2 DEF UInv, FifosOK
  <2>11. CtiOK(w)
    <3>1. Single(t, "int_cti") /\ Scheduled1(t, "int_cti")
      BY <1>6, <2>1, AddedSingle DEF CtiQuiet, Quiet, JobFuncs
    <3> QED BY <2>7, <3>1 DEF CtiOK, CtiSingle, Single, Scheduled1
  <2>12. IntsOK(w)
    <3>1. w.ints = b.ints /\ w.ier = b.ier /\ w.iir = b.iir /\ w.irq = b.irq
      BY <2>3, <2>7
    <3> QED BY <1>6, <3>1, IntsKept
  <2>13. UInv(w)
    BY <2>9, <2>10, <2>11, <2>12 DEF UInv
  <2>14. UInv(r)
    BY <2>6, <2>13, ChecksInv
  <2> QED BY <1>1, <2>14, ChecksInv
<1> QED BY <1>8, <1>9

(* uart_recv_char(): the next character is asked for, then the one that    *)
(* has arrived joins the FIFO.                                             *)
LEMMA RecvCharInv ==
  ASSUME NEW s, UInv(s)
  PROVE  UInv(uart_recv_char(s))
<1> DEFINE a == [s EXCEPT !.rxser = Rx(s.loopback, FALSE), !.receiveing = TRUE]
           b == [s EXCEPT !.receiveing = FALSE]
           v == uart_sched_recv_check(b)
           w == IF Use(v).vapi /\ v.buf # <<>> THEN AddNow(v, "vapi_cmd")
                ELSE v
           t == IF "loop" \in s.mcr THEN AddClks(a, "recv_char") ELSE w
<1>0. DOMAIN s = Fields /\ s.rxser \in RxEntries
      /\ s.loopback \in Chars \cup {Nothing}
  BY DEF UInv, Typed
<1>1. uart_recv_char(s) = uart_add_char(t, s.rxser)
  BY DEF uart_recv_char
<1>2. UInv(a)
  <2>1. Same(s, a, {"rxser", "receiveing"}) /\ a.rxser \in RxEntries
    BY <1>0 DEF Same, Fields, Rx, RxEntries
  <2> HIDE DEF a
  <2>2. /\ a.use = s.use /\ a.fifo_len = s.fifo_len /\ a.tx = s.tx
        /\ a.txser = s.txser /\ a.loopback = s.loopback /\ a.rx = s.rx
        /\ a.buf = s.buf /\ a.rdrdy = s.rdrdy
        /\ a.txbufe = s.txbufe /\ a.txsere = s.txsere /\ a.sbc = s.sbc
        /\ a.ready = s.ready /\ a.timed = s.timed /\ DOMAIN a = Fields
        /\ a.ints = s.ints /\ a.iir = s.iir /\ a.irq = s.irq /\ a.ier = s.ier
    BY <2>1 DEF Same, Fields
  <2>3. Typed(a) /\ TxOK(a) /\ CtiOK(a) /\ FifosOK(a)
    BY <2>1, <2>2, ZenonT(60) DEF UInv, Typed, TxOK, CtiOK, CtiSingle, FifosOK
  <2>4. IntsOK(a)
    BY <2>2, IntsKept DEF UInv
  <2> QED BY <2>3, <2>4 DEF UInv
<1>3. UInv(b)
  <2>1. Same(s, b, {"receiveing"})
    BY <1>0 DEF Same, Fields
  <2> HIDE DEF b
  <2>2. {"receiveing"} \cap
          (Core \cup {"ints", "ier", "iir", "irq", "ready", "timed"}) = {}
    BY DEF Core
  <2> QED BY <2>1, <2>2, OtherFields
<1> HIDE DEF a, b
<1>4. "recv_char" \in JobFuncs /\ "check_char" \in JobFuncs
      /\ "vapi_cmd" \in JobFuncs
      /\ {"recv_char", "check_char", "vapi_cmd"} \cap TxJobs = {}
  BY DEF JobFuncs, TxJobs
<1>5. ASSUME NEW x, UInv(x) PROVE DOMAIN x = Fields /\ Queues(x)
  BY <1>5 DEF UInv, Typed, Queues
<1>6. UInv(AddClks(a, "recv_char"))
  <2>1. \/ AddedNow(a, AddClks(a, "recv_char"), "recv_char")
        \/ AddedTimed(a, AddClks(a, "recv_char"), "recv_char")
    BY <1>2, <1>4, <1>5, AddClksProps
  <2> QED BY <1>2, <1>4, <2>1, AddOther
<1>7. UInv(v)
  <2>1. AddedTimed(b, AddTimed(b, "check_char"), "check_char")
    BY <1>3, <1>4, <1>5, AddTimedProps
  <2>2. UInv(AddTimed(b, "check_char"))
    BY <1>3, <1>4, <2>1, AddOther
  <2> QED BY <1>3, <2>2 DEF uart_sched_recv_check
<1> HIDE DEF v
<1>8. UInv(w)
  <2>1. AddedNow(v, AddNow(v, "vapi_cmd"), "vapi_cmd")
    BY <1>4, <1>5, <1>7, AddNowProps
  <2>2. UInv(AddNow(v, "vapi_cmd"))
    BY <1>4, <1>7, <2>1, AddOther
  <2> QED BY <1>7, <2>2
<1> HIDE DEF w
<1>9. UInv(t)
  BY <1>6, <1>8
<1> HIDE DEF t
<1>10. UInv(uart_add_char(t, s.rxser))
  BY <1>0, <1>9, AddCharInv
<1> QED BY <1>1, <1>10

(* Adding one of the jobs of the receiver.                                 *)
LEMMA ReceiverJobs ==
  ASSUME NEW s, UInv(s),
         NEW f \in {"recv_char", "recv_break", "recv_break_start",
                    "recv_break_stop", "check_char", "vapi_cmd"}
  PROVE  /\ UInv(AddNow(s, f)) /\ UInv(AddTimed(s, f))
         /\ UInv(AddClks(s, f)) /\ UInv(AddVapiClks(s, f))
         /\ UInv(Unsched(s, f))
<1>1. DOMAIN s = Fields /\ Queues(s)
  BY DEF UInv, Typed, Queues
<1>2. f \in JobFuncs /\ f \notin TxJobs /\ f # "int_cti"
  BY DEF JobFuncs, TxJobs
<1>3. UInv(AddNow(s, f)) /\ UInv(AddTimed(s, f))
  <2>1. AddedNow(s, AddNow(s, f), f) /\ AddedTimed(s, AddTimed(s, f), f)
    BY <1>1, <1>2, AddNowProps, AddTimedProps
  <2> QED BY <1>2, <2>1, AddOther
<1>4. UInv(Unsched(s, f))
  <2>1. Lost(s, Unsched(s, f), f)
    BY <1>1, <1>2, UnschedProps
  <2> QED BY <1>2, <2>1, LoseOther
<1> QED BY <1>3, <1>4 DEF AddClks, AddVapiClks

(* Assignments to the fields of the receiver, of VAPI and of the line      *)
(* control that no part of the invariant is about.                         *)
LEMMA Assigned ==
  ASSUME NEW s, UInv(s), NEW t, NEW G, Same(s, t, G),
         G \subseteq {"err", "trigger", "wire", "receiveing", "recv_break",
                      "mcr", "msr", "delta", "dlab", "dll", "dlh", "clks",
                      "vclks", "jobs", "calls", "dead"}
  PROVE  UInv(t)
<1>1. G \cap (Core \cup {"ints", "ier", "iir", "irq", "ready", "timed"}) = {}
  BY DEF Core
<1> QED BY <1>1, OtherFields

(* The commands left in the VAPI buffer and the character in the shift     *)
(* register may change too.                                                *)
LEMMA BufferAssigned ==
  ASSUME NEW s, UInv(s), NEW t, Same(s, t, {"buf", "rxser", "jobs", "vclks"}),
         t.buf \in Seq(Commands), t.rxser \in RxEntries
  PROVE  UInv(t)
<1>1. /\ t.use = s.use /\ t.fifo_len = s.fifo_len /\ t.tx = s.tx
      /\ t.txser = s.txser /\ t.loopback = s.loopback /\ t.rx = s.rx
      /\ t.rdrdy = s.rdrdy
      /\ t.txbufe = s.txbufe /\ t.txsere = s.txsere /\ t.sbc = s.sbc
      /\ t.ready = s.ready /\ t.timed = s.timed /\ DOMAIN t = Fields
      /\ t.ints = s.ints /\ t.iir = s.iir /\ t.irq = s.irq /\ t.ier = s.ier
  BY DEF Same, Fields
<1>2. Typed(t) /\ TxOK(t) /\ CtiOK(t) /\ FifosOK(t)
  BY <1>1, ZenonT(60) DEF UInv, Typed, TxOK, CtiOK, CtiSingle, FifosOK
<1>3. IntsOK(t)
  BY <1>1, IntsKept DEF UInv
<1> QED BY <1>2, <1>3 DEF UInv
-----------------------------------------------------------------------------
(***************************************************************************)
(* The accesses of uart_write_byte() and uart_read_byte().                 *)
(***************************************************************************)
(* Between two rounds of do_scheduler() no job is ready.                   *)
LEMMA NoneReady ==
  ASSUME NEW s, UInv(s), s.ready = <<>>
  PROVE  /\ \A f : ~Has(s.ready, f)
         /\ s.txsere = TRUE => s.tx = <<>> /\ TxQuiet(s)
         /\ s.txsere = FALSE => s.sbc # TRUE /\ s.timed["char_clock"] = 1
         /\ s.timed["send_break"] = 0
<1>1. \A f : ~Has(s.ready, f)
  BY DEF Has
<1>2. TxOK(s)
  BY DEF UInv
<1>3. s.timed["send_break"] = 0 /\ s.timed["tx_send"] = 0
  BY <1>2 DEF TxOK
<1>4. ASSUME s.txsere = TRUE PROVE s.tx = <<>> /\ TxQuiet(s)
  <2>1. s.timed["char_clock"] = 0 /\ (s.tx # <<>> => Has(s.ready, "tx_send"))
    BY <1>2, <1>4 DEF TxOK
  <2> QED BY <1>1, <1>3, <2>1 DEF TxQuiet
<1>5. ASSUME s.txsere = FALSE
      PROVE  s.sbc # TRUE /\ s.timed["char_clock"] = 1
  <2>1. /\ s.sbc = TRUE => Has(s.ready, "send_break")
        /\ s.sbc # TRUE =>
             Has(s.ready, "char_clock") \/ s.timed["char_clock"] = 1
    BY <1>2, <1>5 DEF TxOK
  <2> QED BY <1>1, <2>1
<1> QED BY <1>1, <1>3, <1>4, <1>5

(* Writing the divisor latch.                                              *)
LEMMA WriteDivisorInv ==
  ASSUME IInv, NEW z, WriteDll(z) \/ WriteDlh(z)
  PROVE  IInv'
<1>0. DOMAIN u = Fields
  BY DEF IInv, UInv, Typed
<1>1. CASE WriteDll(z)
  <2>1. Same(u, u', {"dll", "clks"})
    BY <1>0, <1>1 DEF WriteDll, Same, Fields
  <2> QED BY <2>1, Assigned DEF IInv
<1>2. CASE WriteDlh(z)
  <2>1. Same(u, u', {"dlh"})
    BY <1>0, <1>2 DEF WriteDlh, Same, Fields
  <2> QED BY <2>1, Assigned DEF IInv
<1> QED BY <1>1, <1>2

(* Writing IER: the interrupts that are pending now are looked at again.   *)
LEMMA WriteIerInv == ASSUME IInv, NEW v, WriteIer(v) PROVE IInv'
<1> DEFINE a == [u EXCEPT !.ier = v]
           G == {"ier", "ints", "iir", "irq"}
<1>0. DOMAIN u = Fields /\ Typed(u) /\ UInv(u)
  BY DEF IInv, UInv, Typed
<1>1. Same(u, a, {"ier"}) /\ u' = uart_next_int(a)
  BY <1>0 DEF WriteIer, Same, Fields
<1> HIDE DEF a
<1>2. a.ints = u.ints /\ a.iir = u.iir /\ a.irq = u.irq /\ DOMAIN a = Fields
      /\ LineOK(u)
  BY <1>0, <1>1 DEF Same, Fields, UInv, IntsOK
<1>3. LineOK(a)
  BY <1>2 DEF LineOK
<1>4. /\ Same(a, u', {"ints", "iir", "irq"}) /\ u'.ints = a.ints
      /\ IntsOK(u')
  BY <1>1, <1>2, <1>3, NextIntProps
<1>5. /\ Same(u, u', G) /\ u'.ready = u.ready /\ u'.timed = u.timed
      /\ u'.ints = u.ints
  BY <1>1, <1>2, <1>4 DEF Same, Fields
<1>6. /\ Queues(u') /\ JobsSame(u, u', TxJobs)
      /\ JobsSame(u, u', {"int_cti"})
  BY <1>0, <1>5 DEF Typed, Queues, JobsSame
<1>7. G \cap Core = {}
  BY DEF Core
<1> HIDE DEF G
<1>8. Typed(u') /\ FifosOK(u') /\ TxOK(u') /\ CtiOK(u')
  BY <1>0, <1>5, <1>6, <1>7, Kept DEF UInv
<1> QED BY <1>4, <1>8 DEF IInv, UInv

(* The loopback of the modem lines, and the accesses of MCR and MSR.       *)
LEMMA LoopbackInv ==
  ASSUME NEW s, UInv(s)
  PROVE  UInv(uart_loopback(s))
<1> DEFINE changed == {l \in ModemLines \ {"aux1"} :
                         (l \in s.mcr) # (l \in s.msr)}
                      \cup ({"aux1"} \cap (s.msr \ s.mcr))
           t == [s EXCEPT !.delta = @ \cup changed, !.msr = s.mcr \ {"loop"}]
<1>1. Same(s, t, {"delta", "msr"})
  BY DEF UInv, Typed, Same, Fields
<1>2. uart_loopback(s) = IF "loop" \notin s.mcr THEN s
                         ELSE IF t.delta # {} THEN Raise(t, "msi") ELSE t
  BY DEF uart_loopback
<1> HIDE DEF t
<1>3. UInv(t)
  BY <1>1, Assigned
<1>4. UInv(Raise(t, "msi"))
  BY <1>3, RaiseInv DEF Ints
<1> QED BY <1>2, <1>3, <1>4

(* Clearing any interrupt but the character timeout.                       *)
LEMMA ClearOtherInv ==
  ASSUME NEW s, UInv(s), NEW i \in Ints, i # "cti"
  PROVE  UInv(uart_clear_int(s, i))
<1>1. Typed(s) /\ LineOK(s)
  BY DEF UInv, IntsOK
<1> QED BY <1>1, ClearIntInv DEF UInv

(* Reading IIR, LSR and MSR and writing MCR.                               *)
LEMMA ReadStatusInv ==
  ASSUME IInv, ReadIir \/ ReadLsr \/ ReadMsr \/ (\E v : WriteMcr(v))
  PROVE  IInv'
<1>0. UInv(u) /\ DOMAIN u = Fields
  BY DEF IInv, UInv, Typed
<1>1. CASE ReadIir
  <2>1. UInv(uart_clear_int(u, "thri"))
    BY <1>0, ClearOtherInv DEF Ints
  <2> QED BY <1>0, <1>1, <2>1 DEF ReadIir, IInv
<1>2. CASE ReadLsr
  <2> DEFINE a == [u EXCEPT !.err = FALSE]
  <2>1. Same(u, a, {"err"})
    BY <1>0 DEF Same, Fields
  <2>2. u' = uart_clear_int(a, "rlsi")
    BY <1>2 DEF ReadLsr
  <2> HIDE DEF a
  <2>3. UInv(a)
    BY <1>0, <2>1, Assigned
  <2> QED BY <2>2, <2>3, ClearOtherInv DEF Ints, IInv
<1>3. CASE ReadMsr
  <2> DEFINE a == [u EXCEPT !.msr = {}, !.delta = {}]
  <2>1. Same(u, a, {"msr", "delta"})
    BY <1>0 DEF Same, Fields
  <2>2. u' = uart_loopback(uart_clear_int(a, "msi"))
    BY <1>3 DEF ReadMsr
  <2> HIDE DEF a
  <2>3. UInv(a)
    BY <1>0, <2>1, Assigned
  <2>4. UInv(uart_clear_int(a, "msi"))
    BY <2>3, ClearOtherInv DEF Ints
  <2> QED BY <2>2, <2>4, LoopbackInv DEF IInv
<1>4. ASSUME NEW v, WriteMcr(v) PROVE IInv'
  <2> DEFINE a == [u EXCEPT !.mcr = v]
  <2>1. Same(u, a, {"mcr"})
    BY <1>0 DEF Same, Fields
  <2>2. u' = uart_loopback(a)
    BY <1>4 DEF WriteMcr
  <2> HIDE DEF a
  <2>3. UInv(a)
    BY <1>0, <2>1, Assigned
  <2> QED BY <2>2, <2>3, LoopbackInv DEF IInv
<1> QED BY <1>1, <1>2, <1>3, <1>4

(* Writing TXBUF: the first character starts the transmitter, a character  *)
(* too many overwrites the oldest.                                         *)
LEMMA WriteTxbufInv ==
  ASSUME IInv, NEW c \in Chars, WriteTxbuf(c)
  PROVE  IInv'
<1> DEFINE t == [u EXCEPT !.txbufe = FALSE]
           v == [t EXCEPT !.tx = Append(@, c)]
           w == [t EXCEPT !.tx[1] = c]
           r == IF Len(u.tx) < u.fifo_len
                THEN IF u.tx = <<>> /\ u.txsere THEN AddNow(v, "tx_send")
                     ELSE v
                ELSE w
<1>0. /\ UInv(u) /\ DOMAIN u = Fields /\ Queues(u) /\ u.ready = <<>>
      /\ u.tx \in Seq(Chars) /\ Len(u.tx) \in Nat /\ u.fifo_len \in Nat \ {0}
      /\ u.txsere \in BOOLEAN
  <2>1. UInv(u) /\ Typed(u) /\ u.ready = <<>>
    BY DEF IInv, UInv, WriteTxbuf, Cpu
  <2>2. u.txsere \in BOOLEAN
    BY <2>1 DEF UInv, TxOK
  <2>3. /\ DOMAIN u = Fields /\ Queues(u)
        /\ u.tx \in Seq(Chars) /\ Len(u.tx) \in Nat
        /\ u.fifo_len \in Nat \ {0}
    BY <2>1 DEF Typed, Queues
  <2> QED BY <2>1, <2>2, <2>3
<1>1. u' = uart_clear_int(r, "thri")
  BY DEF WriteTxbuf
<1>2. Same(u, t, {"txbufe"}) /\ t.txbufe = FALSE /\ DOMAIN t = Fields
      /\ t.tx = u.tx
  BY <1>0 DEF Same, Fields
<1>3. /\ Same(u, v, {"txbufe", "tx"}) /\ v.txbufe = FALSE
      /\ v.tx = Append(u.tx, c)
  BY <1>2 DEF Same, Fields
<1>4. /\ Same(u, w, {"txbufe", "tx"}) /\ w.txbufe = FALSE
      /\ w.tx = [u.tx EXCEPT ![1] = c]
  BY <1>2 DEF Same, Fields
<1> HIDE DEF t, v, w
<1>5. ASSUME NEW x, Same(u, x, {"txbufe", "tx"}), x.txbufe = FALSE,
             x.tx \in Seq(Chars), x.tx # <<>>, Len(x.tx) <= u.fifo_len
      PROVE  /\ Typed(x) /\ IntsOK(x) /\ FifosOK(x) /\ CtiOK(x)
             /\ u.tx # <<>> \/ u.txsere = FALSE => TxOK(x)
             /\ x.ready = u.ready /\ x.timed = u.timed /\ x.txsere = u.txsere
             /\ x.sbc = u.sbc
  <2>1. /\ x.use = u.use /\ x.fifo_len = u.fifo_len
        /\ x.txser = u.txser /\ x.loopback = u.loopback /\ x.rx = u.rx
        /\ x.rxser = u.rxser /\ x.buf = u.buf /\ x.rdrdy = u.rdrdy
        /\ x.txsere = u.txsere /\ x.sbc = u.sbc
        /\ x.ready = u.ready /\ x.timed = u.timed /\ DOMAIN x = Fields
        /\ x.ints = u.ints /\ x.iir = u.iir /\ x.irq = u.irq /\ x.ier = u.ier
    BY <1>5 DEF Same, Fields
  <2>2. Typed(x) /\ FifosOK(x) /\ CtiOK(x)
    BY <1>0, <1>5, <2>1 DEF UInv, Typed, FifosOK, CtiOK, CtiSingle
  <2>3. IntsOK(x)
    BY <1>0, <2>1, IntsKept DEF UInv
  <2>4. ASSUME u.tx # <<>> \/ u.txsere = FALSE PROVE TxOK(x)
    <3>1. u.txsere = FALSE
      BY <1>0, <2>4, NoneReady
    <3> QED BY <1>0, <2>1, <3>1 DEF UInv, TxOK
  <2> QED BY <2>1, <2>2, <2>3, <2>4
<1>6. CASE Len(u.tx) < u.fifo_len
  <2>1. /\ v.tx \in Seq(Chars) /\ v.tx # <<>> /\ Len(v.tx) <= u.fifo_len
    <3> DEFINE q == u.tx
    <3>0. q \in Seq(Chars) /\ Len(q) \in Nat
      BY <1>0
    <3> HIDE DEF q
    <3>1. /\ Append(q, c) \in Seq(Chars) /\ Len(Append(q, c)) = Len(q) + 1
      BY <3>0, AppendProperties
    <3>2. Append(q, c) # <<>>
      BY <3>0, <3>1, EmptySeq
    <3> QED BY <1>0, <1>3, <1>6, <3>1, <3>2 DEF q
  <2>2. /\ Typed(v) /\ IntsOK(v) /\ FifosOK(v) /\ CtiOK(v)
        /\ u.tx # <<>> \/ u.txsere = FALSE => TxOK(v)
        /\ v.ready = u.ready /\ v.timed = u.timed /\ v.txsere = u.txsere
        /\ v.sbc = u.sbc
    BY <1>3, <1>5, <2>1
  <2>3. CASE u.tx = <<>> /\ u.txsere
    <3> DEFINE a == AddNow(v, "tx_send")
    <3>1. r = a
      BY <1>6, <2>3
    <3>2. DOMAIN v = Fields /\ Queues(v) /\ "tx_send" \in JobFuncs
      BY <2>2 DEF Typed, Queues, JobFuncs
    <3>3. AddedNow(v, a, "tx_send")
      BY <3>2, AddNowProps
    <3> HIDE DEF a
    <3>4. /\ Same(v, a, {"ready", "timed"}) /\ Queues(a) /\ a.timed = v.timed
          /\ \A g : Has(a.ready, g) <=> g = "tx_send" \/ Has(v.ready, g)
          /\ \A F : (\A g \in F : ~Has(v.ready, g)) => AtMostOne(a.ready, F)
      BY <3>3 DEF AddedNow
    <3>5. /\ a.tx = v.tx /\ a.txsere = v.txsere /\ a.sbc = v.sbc
          /\ a.ints = v.ints /\ a.iir = v.iir /\ a.irq = v.irq
          /\ a.ier = v.ier
      BY <3>4 DEF Same, Fields
    <3>6. IntsOK(a)
      BY <2>2, <3>5, IntsKept
    <3>7. Typed(a) /\ FifosOK(a) /\ CtiOK(a)
      <4>1. JobsSame(v, a, {"int_cti"})
        <5>1. {"int_cti"} \in SUBSET JobFuncs /\ "tx_send" \notin {"int_cti"}
          BY DEF JobFuncs
        <5> QED BY <3>2, <3>3, <5>1, OthersSame
      <4>2. {"ready", "timed"} \cap Core = {}
        BY DEF Core
      <4> QED BY <2>2, <3>4, <3>5, <4>1, <4>2, Kept
    <3>8. TxOK(a)
      <4>1. /\ \A g : ~Has(u.ready, g)
            /\ u.timed["char_clock"] = 0 /\ u.timed["send_break"] = 0
            /\ u.timed["tx_send"] = 0
        BY <1>0, <2>3, NoneReady DEF TxQuiet
      <4>2. /\ AtMostOne(a.ready, TxJobs) /\ Has(a.ready, "tx_send")
            /\ ~Has(a.ready, "char_clock") /\ ~Has(a.ready, "send_break")
        BY <2>2, <3>4, <4>1
      <4>3. /\ a.timed["char_clock"] = 0 /\ a.timed["send_break"] = 0
            /\ a.timed["tx_send"] = 0
        BY <2>2, <3>4, <4>1
      <4>4. a.timed["char_clock"] \in {0, 1} /\ a.timed["char_clock"] # 1
        BY <4>3
      <4>5. a.txsere = TRUE /\ a.txsere # FALSE /\ a.txsere \in BOOLEAN
        BY <2>2, <2>3, <3>5
      <4>6. a.tx # <<>>
        BY <2>1, <3>5
      <4> QED BY ONLY <4>2, <4>3, <4>4, <4>5, <4>6 DEF TxOK
    <3>9. UInv(a)
      BY <3>6, <3>7, <3>8 DEF UInv
    <3> QED BY <1>1, <3>1, <3>9, ClearOtherInv DEF Ints, IInv
  <2>4. CASE ~(u.tx = <<>> /\ u.txsere)
    <3>1. r = v /\ (u.tx # <<>> \/ u.txsere = FALSE)
      BY <1>0, <1>6, <2>4
    <3>2. UInv(v)
      BY <2>2, <3>1 DEF UInv
    <3> QED BY <1>1, <3>1, <3>2, ClearOtherInv DEF Ints, IInv
  <2> QED BY <2>3, <2>4
<1>7. CASE ~(Len(u.tx) < u.fifo_len)
  <2>1. u.tx # <<>> /\ 1 \in 1..Len(u.tx)
    BY <1>0, <1>7
  <2>2. w.tx \in Seq(Chars) /\ Len(w.tx) = Len(u.tx)
    BY <1>0, <1>4, <2>1
  <2>3. w.tx # <<>> /\ Len(w.tx) <= u.fifo_len
    <3>1. Len(u.tx) <= u.fifo_len
      BY <1>0 DEF UInv, FifosOK
    <3> QED BY <1>0, <1>7, <2>2, <3>1
  <2>4. UInv(w)
    BY <1>4, <1>5, <2>1, <2>2, <2>3 DEF UInv
  <2>5. r = w
    BY <1>7
  <2> QED BY <1>1, <2>4, <2>5, ClearOtherInv DEF Ints, IInv
<1> QED BY <1>6, <1>7

(* Reading RXBUF: the character timeout starts again for what is left.     *)
LEMMA ReadRxbufInv == ASSUME IInv, ReadRxbuf PROVE IInv'
<1> DEFINE t == IF u.rx = <<>> THEN u ELSE [u EXCEPT !.rx = Tail(@)]
           b == uart_clear_int(t, "rdi")
           r == uart_clear_int(b, "cti")
           more == [r EXCEPT !.rdrdy = TRUE, !.err = @ \/ r.rx[1].err]
           none == [r EXCEPT !.rdrdy = FALSE]
<1>0. /\ UInv(u) /\ DOMAIN u = Fields /\ Queues(u)
      /\ u.rx \in Seq(RxEntries) /\ Len(u.rx) \in Nat
      /\ u.fifo_len \in Nat \ {0}
  BY DEF IInv, UInv, Typed, Queues
<1>1. u' = IF r.rx = <<>> THEN none
           ELSE uart_check_rdi(uart_check_rlsi(AddClks(more, "int_cti")))
  BY DEF ReadRxbuf
<1>2. /\ Same(u, t, {"rx"}) /\ t.rx \in Seq(RxEntries)
      /\ Len(t.rx) <= u.fifo_len
  <2>1. CASE u.rx = <<>>
    <3>1. t = u
      BY <2>1
    <3> HIDE DEF t
    <3> QED BY <1>0, <2>1, <3>1 DEF Same, UInv, FifosOK
  <2>2. CASE u.rx # <<>>
    <3>1. Same(u, t, {"rx"}) /\ t.rx = Tail(u.rx)
      BY <1>0, <2>2 DEF Same, Fields
    <3> HIDE DEF t
    <3> DEFINE q == u.rx
    <3>2. q \in Seq(RxEntries) /\ q # <<>> /\ Len(q) <= u.fifo_len
          /\ t.rx = Tail(q)
      BY <1>0, <2>2, <3>1 DEF UInv, FifosOK
    <3> HIDE DEF q
    <3>3. Tail(q) \in Seq(RxEntries) /\ Len(Tail(q)) = Len(q) - 1
          /\ Len(q) \in Nat
      BY <3>2
    <3>4. Len(t.rx) = Len(q) - 1 /\ t.rx \in Seq(RxEntries)
      BY <3>2, <3>3
    <3>5. Len(t.rx) <= u.fifo_len
      <4>1. \A m, n, k : m \in Nat /\ n \in Nat /\ m <= n /\ k = m - 1
                         => k <= n
        OBVIOUS
      <4>2. u.fifo_len \in Nat
        BY <1>0
      <4> QED BY <3>2, <3>3, <3>4, <4>1, <4>2
    <3> QED BY <3>1, <3>4, <3>5
  <2> QED BY <2>1, <2>2
<1> HIDE DEF t
<1>3. /\ t.use = u.use /\ t.fifo_len = u.fifo_len /\ t.tx = u.tx
      /\ t.txser = u.txser /\ t.loopback = u.loopback
      /\ t.rxser = u.rxser /\ t.buf = u.buf
      /\ t.txbufe = u.txbufe /\ t.txsere = u.txsere /\ t.sbc = u.sbc
      /\ t.ready = u.ready /\ t.timed = u.timed /\ DOMAIN t = Fields
      /\ t.ints = u.ints /\ t.iir = u.iir /\ t.irq = u.irq /\ t.ier = u.ier
  BY <1>2 DEF Same, Fields
<1>4. Typed(t) /\ TxOK(t) /\ CtiSingle(t)
  BY <1>0, <1>2, <1>3 DEF UInv, Typed, TxOK, CtiOK, CtiSingle
<1>5. IntsOK(t) /\ LineOK(t)
  BY <1>0, <1>3, IntsKept DEF UInv, IntsOK
<1>6. /\ Same(t, b, {"ints", "iir", "irq", "ready", "timed"})
      /\ Typed(b) /\ IntsOK(b) /\ TxOK(b)
      /\ b.ready = t.ready /\ b.timed = t.timed
  BY <1>4, <1>5, ClearIntInv DEF Ints
<1> HIDE DEF b
<1>7. CtiSingle(b) /\ LineOK(b)
  BY <1>4, <1>6 DEF CtiSingle, IntsOK
<1>8. /\ Same(b, r, {"ints", "iir", "irq", "ready", "timed"})
      /\ Typed(r) /\ IntsOK(r) /\ TxOK(r) /\ CtiQuiet(r)
  BY <1>6, <1>7, ClearIntInv DEF Ints
<1> HIDE DEF r
<1>9. /\ r.rx = t.rx /\ r.tx = u.tx /\ r.fifo_len = u.fifo_len
      /\ r.txbufe = u.txbufe
  BY <1>3, <1>6, <1>8 DEF Same, Fields
<1>10. ASSUME NEW x, Same(r, x, {"rdrdy", "err"})
       PROVE  /\ Typed(x) /\ IntsOK(x) /\ TxOK(x) /\ CtiQuiet(x)
              /\ x.rx = r.rx
              /\ x.rx = <<>> /\ x.rdrdy = FALSE => FifosOK(x)
              /\ x.rx # <<>> /\ x.rdrdy = TRUE => FifosOK(x)
  <2>1. /\ x.use = r.use /\ x.fifo_len = r.fifo_len /\ x.tx = r.tx
        /\ x.txser = r.txser /\ x.loopback = r.loopback /\ x.rx = r.rx
        /\ x.rxser = r.rxser /\ x.buf = r.buf
        /\ x.txbufe = r.txbufe /\ x.txsere = r.txsere /\ x.sbc = r.sbc
        /\ x.ready = r.ready /\ x.timed = r.timed /\ DOMAIN x = Fields
        /\ x.ints = r.ints /\ x.iir = r.iir /\ x.irq = r.irq /\ x.ier = r.ier
    BY <1>10 DEF Same, Fields
  <2>2. Typed(x) /\ TxOK(x) /\ CtiQuiet(x)
    BY <1>8, <2>1 DEF Typed, TxOK, CtiQuiet
  <2>3. IntsOK(x)
    BY <1>8, <2>1, IntsKept
  <2>4. /\ Len(x.tx) <= x.fifo_len /\ Len(x.rx) <= x.fifo_len
        /\ x.tx # <<>> => x.txbufe = FALSE
        /\ x.tx = <<>> => x.txbufe = TRUE
    BY <1>0, <1>2, <1>9, <2>1 DEF UInv, FifosOK
  <2> QED BY <2>1, <2>2, <2>3, <2>4 DEF FifosOK
<1>11. CASE r.rx = <<>>
  <2>1. Same(r, none, {"rdrdy", "err"}) /\ none.rdrdy = FALSE
    BY <1>8 DEF Typed, Same, Fields
  <2> HIDE DEF none
  <2>2. /\ Typed(none) /\ IntsOK(none) /\ TxOK(none) /\ CtiQuiet(none)
        /\ FifosOK(none) /\ none.rx = <<>>
    BY <1>10, <1>11, <2>1
  <2>3. CtiOK(none)
    <3>1. AtMostOne(none.ready, {"int_cti"})
      BY <2>2 DEF CtiQuiet, Has, AtMostOne
    <3> QED BY <2>2, <3>1 DEF CtiQuiet, CtiOK, CtiSingle
  <2> QED BY <1>1, <1>11, <2>2, <2>3 DEF IInv, UInv
<1>12. CASE r.rx # <<>>
  <2>1. Same(r, more, {"rdrdy", "err"}) /\ more.rdrdy = TRUE
    BY <1>8 DEF Typed, Same, Fields
  <2> HIDE DEF more
  <2>2. /\ Typed(more) /\ IntsOK(more) /\ TxOK(more) /\ CtiQuiet(more)
        /\ FifosOK(more) /\ more.rx # <<>>
    BY <1>10, <1>12, <2>1
  <2>3. UInv(AddClks(more, "int_cti"))
    BY <2>2, RestartTimeout
  <2>4. UInv(uart_check_rdi(uart_check_rlsi(AddClks(more, "int_cti"))))
    BY <2>3, ChecksInv
  <2> QED BY <1>1, <1>12, <2>4 DEF IInv
<1> QED BY <1>11, <1>12

(* Writing FCR: the FIFOs are emptied on request and whenever the mode     *)
(* changes.                                                                *)
LEMMA WriteFcrInv ==
  ASSUME IInv, NEW fie \in BOOLEAN, NEW rrx \in BOOLEAN, NEW rtx \in BOOLEAN,
         NEW level, WriteFcr(fie, rrx, rtx, level)
  PROVE  IInv'
<1> DEFINE change == fie # (u.fifo_len # 1)
           n == IF fie THEN FIFO ELSE 1
           t == [u EXCEPT !.trigger = level, !.fifo_len = n]
           e == [t EXCEPT !.tx = <<>>, !.txbufe = TRUE]
           x == IF fie THEN Raise(e, "thri") ELSE e
           r == IF rtx \/ change THEN Unsched(x, "tx_send") ELSE t
           d == [r EXCEPT !.rx = <<>>, !.rdrdy = FALSE]
           f1 == uart_clear_int(d, "rdi")
           f2 == uart_clear_int(f1, "cti")
<1>0. /\ UInv(u) /\ Typed(u) /\ DOMAIN u = Fields /\ Queues(u)
      /\ u.ready = <<>> /\ u.fifo_len \in Nat \ {0}
      /\ n \in Nat \ {0}
  BY UartAssumption DEF IInv, UInv, Typed, Queues, WriteFcr, Cpu
<1>1. u' = IF rrx \/ change THEN f2 ELSE r
  BY DEF WriteFcr
<1>2. /\ Same(u, t, {"trigger", "fifo_len"}) /\ t.fifo_len = n
  BY <1>0 DEF Same, Fields
<1>3. ~change => n = u.fifo_len
  <2>1. u.fifo_len \in {1, FIFO} /\ FIFO # 1 /\ FIFO \in Nat
    BY <1>0, UartAssumption DEF Typed
  <2> QED BY <2>1
<1>4. n \in {1, FIFO}
  OBVIOUS
<1> HIDE DEF t, n, change
<1>5. /\ t.tx = u.tx /\ t.txbufe = u.txbufe /\ DOMAIN t = Fields
      /\ t.ints = u.ints /\ t.iir = u.iir /\ t.irq = u.irq /\ t.ier = u.ier
      /\ t.timed = u.timed /\ t.ready = u.ready
  BY <1>2 DEF Same, Fields
<1>6. IntsOK(t)
  BY <1>0, <1>5, IntsKept DEF UInv
<1> DEFINE GR == {"trigger", "fifo_len", "tx", "txbufe", "ints", "iir", "irq",
                  "timed"}
<1>7. /\ Same(u, r, GR) /\ r.fifo_len = n /\ r.timed = u.timed
      /\ IntsOK(r) /\ ("cti" \in u.ints => "cti" \in r.ints)
      /\ \/ r.tx = <<>> /\ r.txbufe = TRUE
         \/ r.tx = u.tx /\ r.txbufe = u.txbufe /\ ~change
  <2>1. CASE ~(rtx \/ change)
    <3>1. r = t
      BY <2>1
    <3> HIDE DEF r
    <3> QED BY <1>2, <1>5, <1>6, <2>1, <3>1 DEF Same
  <2>2. CASE rtx \/ change
    <3>1. /\ Same(t, e, {"tx", "txbufe"}) /\ e.tx = <<>> /\ e.txbufe = TRUE
      BY <1>5 DEF Same, Fields
    <3> HIDE DEF e
    <3>2. /\ e.ints = t.ints /\ e.iir = t.iir /\ e.irq = t.irq
          /\ e.ier = t.ier /\ DOMAIN e = Fields
          /\ e.timed = u.timed /\ e.ready = u.ready /\ e.fifo_len = n
      BY <1>2, <1>5, <3>1 DEF Same, Fields
    <3>3. IntsOK(e)
      BY <1>6, <3>2, IntsKept
    <3>4. /\ Same(e, x, {"ints", "iir", "irq"}) /\ IntsOK(x)
          /\ "cti" \in e.ints => "cti" \in x.ints
      <4>1. CASE fie
        <5>1. x = Raise(e, "thri")
          BY <4>1
        <5>2. "thri" \in Ints
          BY DEF Ints
        <5> HIDE DEF x
        <5>3. /\ Same(e, x, {"ints", "iir", "irq"}) /\ IntsOK(x)
              /\ x.ints = e.ints \cup {"thri"}
          BY <3>2, <3>3, <5>1, <5>2, RaiseProps
        <5> QED BY <5>3
      <4>2. CASE ~fie
        <5>1. x = e
          BY <4>2
        <5> HIDE DEF x
        <5> QED BY <3>2, <3>3, <5>1 DEF Same
      <4> QED BY <4>1, <4>2
    <3> HIDE DEF x
    <3>5. /\ x.timed = u.timed /\ x.ready = u.ready /\ x.tx = <<>>
          /\ x.txbufe = TRUE /\ x.fifo_len = n /\ DOMAIN x = Fields
      BY <3>1, <3>2, <3>4 DEF Same, Fields
    <3>6. r = [x EXCEPT !.timed["tx_send"] = 0]
      <4>1. x.timed["tx_send"] = 0
        BY <1>0, <3>5 DEF UInv, TxOK
      <4>2. ~\E i \in DOMAIN x.ready : x.ready[i] = "tx_send"
        BY <1>0, <3>5
      <4>3. r = Unsched(x, "tx_send")
        BY <2>2
      <4> HIDE DEF r
      <4> QED BY <4>1, <4>2, <4>3 DEF Unsched
    <3> HIDE DEF r
    <3>7. r.timed = [u.timed EXCEPT !["tx_send"] = 0] /\ Same(x, r, {"timed"})
      BY <3>5, <3>6 DEF Same, Fields
    <3>8. r.timed = u.timed
      <4>1. u.timed["tx_send"] = 0 /\ u.timed \in [JobFuncs -> Nat]
        BY <1>0 DEF UInv, TxOK, Typed
      <4> QED BY <3>7, <4>1
    <3>9. Same(u, r, GR)
      BY <1>2, <3>1, <3>4, <3>7 DEF Same
    <3>10. /\ r.tx = <<>> /\ r.txbufe = TRUE /\ r.fifo_len = n
           /\ r.ints = x.ints /\ r.iir = x.iir /\ r.irq = x.irq
           /\ r.ier = x.ier
      BY <3>5, <3>7 DEF Same, Fields
    <3>11. IntsOK(r)
      BY <3>4, <3>10, IntsKept
    <3>12. "cti" \in u.ints => "cti" \in r.ints
      BY <1>5, <3>2, <3>4, <3>10
    <3> QED BY <3>8, <3>9, <3>10, <3>11, <3>12
  <2> QED BY <2>1, <2>2
<1> HIDE DEF r
<1>8. /\ r.use = u.use /\ r.txser = u.txser /\ r.loopback = u.loopback
      /\ r.rx = u.rx /\ r.rxser = u.rxser /\ r.buf = u.buf
      /\ r.rdrdy = u.rdrdy /\ r.txsere = u.txsere /\ r.sbc = u.sbc
      /\ r.ready = u.ready /\ DOMAIN r = Fields
  BY <1>7 DEF Same, Fields
<1>9. /\ r.tx \in Seq(Chars) /\ (u.tx = <<>> => r.tx = <<>>)
      /\ Len(r.tx) <= n
      /\ r.tx # <<>> => r.txbufe = FALSE
      /\ r.tx = <<>> => r.txbufe = TRUE
  <2>1. CASE r.tx = <<>> /\ r.txbufe = TRUE
    BY <1>0, <2>1
  <2>2. CASE r.tx = u.tx /\ r.txbufe = u.txbufe /\ ~change
    BY <1>0, <1>3, <2>2 DEF UInv, Typed, FifosOK
  <2> QED BY <1>7, <2>1, <2>2
<1>10. Typed(r)
  BY <1>0, <1>4, <1>7, <1>8, <1>9 DEF Typed
<1>11. CtiOK(r)
  BY <1>0, <1>7, <1>8 DEF UInv, CtiOK, CtiSingle
<1>12. TxOK(r)
  <2>1. TxOK(u) /\ \A g : ~Has(u.ready, g)
    BY <1>0, NoneReady DEF UInv
  <2>2. u.txsere = TRUE => u.tx = <<>>
    BY <1>0, NoneReady
  <2> QED BY <1>7, <1>8, <1>9, <2>1, <2>2 DEF TxOK
<1>13. CASE ~(rrx \/ change)
  <2>1. FifosOK(r)
    BY <1>0, <1>3, <1>7, <1>8, <1>9, <1>13 DEF UInv, FifosOK
  <2>2. UInv(r)
    BY <1>7, <1>10, <1>11, <1>12, <2>1 DEF UInv
  <2> QED BY <1>1, <1>13, <2>2 DEF IInv
<1>14. CASE rrx \/ change
  <2>1. Same(r, d, {"rx", "rdrdy"}) /\ d.rx = <<>> /\ d.rdrdy = FALSE
    BY <1>8 DEF Same, Fields
  <2> HIDE DEF d
  <2>2. /\ d.use = r.use /\ d.fifo_len = r.fifo_len /\ d.tx = r.tx
        /\ d.txser = r.txser /\ d.loopback = r.loopback
        /\ d.rxser = r.rxser /\ d.buf = r.buf
        /\ d.txbufe = r.txbufe /\ d.txsere = r.txsere /\ d.sbc = r.sbc
        /\ d.ready = r.ready /\ d.timed = r.timed /\ DOMAIN d = Fields
        /\ d.ints = r.ints /\ d.iir = r.iir /\ d.irq = r.irq /\ d.ier = r.ier
    BY <2>1 DEF Same, Fields
  <2>3. IntsOK(d)
    BY <1>7, <2>2, IntsKept
  <2>4. Typed(d) /\ TxOK(d)
    <3>1. d.rx \in Seq(RxEntries)
      BY <2>1
    <3> QED BY <1>10, <1>12, <2>2, <3>1 DEF Typed, TxOK
  <2>5. CtiOK(d)
    BY <1>11, <2>1, <2>2 DEF CtiOK, CtiSingle
  <2>6. FifosOK(d)
    <3>1. Len(d.rx) = 0 /\ d.fifo_len \in Nat
      BY <1>0, <1>7, <2>1, <2>2
    <3> QED BY <1>7, <1>9, <2>1, <2>2, <3>1 DEF FifosOK
  <2>7. UInv(d)
    BY <2>3, <2>4, <2>5, <2>6 DEF UInv
  <2>8. UInv(f1)
    BY <2>7, ClearOtherInv DEF Ints
  <2>9. f1.rx = <<>>
    <3>1. Same(d, f1, {"ints", "iir", "irq", "ready", "timed"})
      BY <2>4, <2>7, ClearIntInv DEF Ints, UInv, IntsOK
    <3> HIDE DEF f1
    <3> QED BY <2>1, <3>1 DEF Same, Fields
  <2> HIDE DEF f1
  <2>10. /\ Same(f1, f2, {"ints", "iir", "irq", "ready", "timed"})
         /\ Typed(f2) /\ IntsOK(f2) /\ FifosOK(f2) /\ TxOK(f2) /\ CtiQuiet(f2)
    <3>1. Typed(f1) /\ LineOK(f1) /\ CtiSingle(f1) /\ IntsOK(f1)
          /\ FifosOK(f1) /\ TxOK(f1)
      BY <2>8 DEF UInv, IntsOK, CtiOK
    <3> QED BY <3>1, ClearIntInv DEF Ints
  <2> HIDE DEF f2
  <2>11. f2.rx = <<>>
    BY <2>9, <2>10 DEF Same, Fields
  <2>12. CtiOK(f2)
    <3>1. AtMostOne(f2.ready, {"int_cti"})
      BY <2>10 DEF CtiQuiet, Has, AtMostOne
    <3> QED BY <2>10, <2>11, <3>1 DEF CtiQuiet, CtiOK, CtiSingle
  <2> QED BY <1>1, <1>14, <2>10, <2>12 DEF IInv, UInv
<1> QED BY <1>13, <1>14

(* Writing LCR: a break that starts takes the place of the character that  *)
(* is being sent.                                                          *)
LEMMA WriteLcrInv ==
  ASSUME IInv, NEW sbc, NEW dlab, WriteLcr(sbc, dlab)
  PROVE  IInv'
<1> DEFINE a == Unsched(u, "char_clock")
           b == AddNow(a, "send_break")
           start == sbc /\ ~u.sbc /\ ~u.txsere
           stop == ~sbc /\ u.sbc /\ ~u.txsere
           t == IF start THEN b
                ELSE IF stop THEN Unsched(AddNow(u, "tx_send"), "char_clock")
                ELSE u
           GL == {"sbc", "dlab", "clks"}
<1>0. /\ UInv(u) /\ Typed(u) /\ DOMAIN u = Fields /\ Queues(u)
      /\ u.ready = <<>> /\ TxOK(u)
  BY DEF IInv, UInv, Typed, Queues, WriteLcr, Cpu
<1>1. u' = [t EXCEPT !.sbc = sbc, !.dlab = dlab, !.clks = u.dll \/ u.dlh]
  BY DEF WriteLcr
<1>2. u.txsere \in BOOLEAN
  BY <1>0 DEF TxOK
<1>3. /\ \A f : ~Has(u.ready, f)
      /\ u.txsere = TRUE => u.tx = <<>> /\ TxQuiet(u)
      /\ u.txsere = FALSE => u.sbc # TRUE /\ u.timed["char_clock"] = 1
      /\ u.timed["send_break"] = 0 /\ u.timed["tx_send"] = 0
  BY <1>0, NoneReady DEF TxOK
<1>4. "char_clock" \in JobFuncs /\ "send_break" \in JobFuncs
      /\ "tx_send" \in JobFuncs
  BY DEF JobFuncs
<1>5. CASE start
  <2>1. t = b /\ u.txsere = FALSE
    BY <1>2, <1>5
  <2>2. Lost(u, a, "char_clock")
    BY <1>0, <1>4, UnschedProps
  <2>3. DOMAIN a = Fields /\ Queues(a) /\ Same(u, a, {"ready", "timed"})
    BY <2>2 DEF Lost, Same
  <2>4. AddedNow(a, b, "send_break")
    BY <1>4, <2>3, AddNowProps
  <2> HIDE DEF a, b
  <2>5. Quiet(a, "char_clock")
    <3>1. Single(u, "char_clock")
      <4>1. AtMostOne(u.ready, {"char_clock"})
        BY <1>3 DEF AtMostOne, Has
      <4> QED BY <1>3, <2>1, <4>1 DEF Single
    <3> QED BY <2>2, <3>1 DEF Lost
  <2>6. Quiet(a, "send_break") /\ Quiet(a, "tx_send")
    <3>1. JobsSame(u, a, {"send_break", "tx_send"})
      BY <2>2 DEF Lost
    <3> QED BY <1>3, <3>1 DEF JobsSame, Quiet
  <2>7. /\ b.timed["char_clock"] = 0 /\ b.timed["send_break"] = 0
        /\ b.timed["tx_send"] = 0
        /\ Has(b.ready, "send_break") /\ ~Has(b.ready, "char_clock")
        /\ ~Has(b.ready, "tx_send")
    BY <2>4, <2>5, <2>6 DEF AddedNow, Quiet
  <2>8. AtMostOne(b.ready, TxJobs)
    BY <2>4, <2>5, <2>6 DEF AddedNow, Quiet, TxJobs
  <2>9. Same(a, b, {"ready", "timed"}) /\ Queues(b) /\ DOMAIN b = Fields
    BY <2>4 DEF AddedNow, Same
  <2>10. Same(b, u', GL) /\ u'.sbc = sbc
    BY <1>1, <2>1, <2>9 DEF Same, Fields
  <2>11. /\ u'.ready = b.ready /\ u'.timed = b.timed /\ u'.tx = u.tx
         /\ u'.txsere = FALSE /\ Same(u, u', GL \cup {"ready", "timed"})
    BY <2>1, <2>3, <2>9, <2>10 DEF Same, Fields
  <2>12. TxOK(u')
    <3>1. u'.txsere # TRUE /\ u'.txsere \in BOOLEAN
      BY <2>11
    <3>2. /\ u'.sbc # TRUE => Has(u'.ready, "char_clock")
          /\ u'.sbc = TRUE => Has(u'.ready, "send_break")
      BY <1>5, <2>7, <2>10, <2>11
    <3>3. /\ u'.timed["char_clock"] = 0 /\ u'.timed["send_break"] = 0
          /\ u'.timed["tx_send"] = 0 /\ ~Has(u'.ready, "tx_send")
          /\ AtMostOne(u'.ready, TxJobs)
      BY <2>7, <2>8, <2>11
    <3>4. u'.timed["char_clock"] # 1 /\ u'.timed["char_clock"] \in {0, 1}
      BY <3>3
    <3> QED BY ONLY <3>1, <3>2, <3>3, <3>4 DEF TxOK
  <2>13. JobsSame(u, u', {"int_cti"})
    <3>1. JobsSame(u, a, {"int_cti"})
      BY <2>2 DEF Lost
    <3>2. JobsSame(a, b, {"int_cti"})
      <4>1. {"int_cti"} \in SUBSET JobFuncs /\ "send_break" \notin {"int_cti"}
        BY DEF JobFuncs
      <4> QED BY <1>4, <2>3, <2>4, <4>1, OthersSame
    <3> QED BY <2>11, <3>1, <3>2 DEF JobsSame
  <2>14. /\ u'.use = u.use /\ u'.fifo_len = u.fifo_len
         /\ u'.txser = u.txser /\ u'.loopback = u.loopback /\ u'.rx = u.rx
         /\ u'.rxser = u.rxser /\ u'.buf = u.buf /\ u'.rdrdy = u.rdrdy
         /\ u'.txbufe = u.txbufe /\ DOMAIN u' = Fields
         /\ u'.ints = u.ints /\ u'.iir = u.iir /\ u'.irq = u.irq
         /\ u'.ier = u.ier
    BY <2>11 DEF Same, Fields
  <2>15. Typed(u')
    <3>1. u'.ready \in Seq(JobFuncs) /\ u'.timed \in [JobFuncs -> Nat]
      BY <2>9, <2>11 DEF Queues
    <3> QED BY <1>0, <2>11, <2>14, <3>1 DEF Typed
  <2>16. FifosOK(u')
    BY <1>0, <2>11, <2>14 DEF UInv, FifosOK
  <2>17. CtiOK(u')
    BY <1>0, <2>13, <2>14 DEF UInv, CtiOK, CtiSingle, JobsSame
  <2>18. IntsOK(u')
    BY <1>0, <2>14, IntsKept DEF UInv
  <2> QED BY <2>12, <2>15, <2>16, <2>17, <2>18 DEF IInv, UInv
<1>6. CASE ~start
  <2>1. ~stop
    BY <1>2, <1>3
  <2>2. t = u
    BY <1>6, <2>1
  <2>3. u.txsere = FALSE => sbc # TRUE
    BY <1>2, <1>3, <1>6
  <2>4. Same(u, u', GL) /\ u'.sbc = sbc
    BY <1>0, <1>1, <2>2 DEF Same, Fields
  <2>5. /\ u'.use = u.use /\ u'.fifo_len = u.fifo_len /\ u'.tx = u.tx
        /\ u'.txser = u.txser /\ u'.loopback = u.loopback /\ u'.rx = u.rx
        /\ u'.rxser = u.rxser /\ u'.buf = u.buf /\ u'.rdrdy = u.rdrdy
        /\ u'.txbufe = u.txbufe /\ u'.txsere = u.txsere
        /\ u'.ready = u.ready /\ u'.timed = u.timed /\ DOMAIN u' = Fields
        /\ u'.ints = u.ints /\ u'.iir = u.iir /\ u'.irq = u.irq
        /\ u'.ier = u.ier
    BY <2>4 DEF Same, Fields
  <2>6. Typed(u') /\ CtiOK(u') /\ FifosOK(u')
    BY <1>0, <2>5 DEF UInv, Typed, CtiOK, CtiSingle, FifosOK
  <2>7. IntsOK(u')
    BY <1>0, <2>5, IntsKept DEF UInv
  <2>8. TxOK(u')
    <3>1. u.txsere = FALSE => u'.sbc # TRUE /\ u.sbc # TRUE
      BY <1>3, <2>3, <2>4
    <3> QED BY <1>0, <2>5, <3>1 DEF TxOK
  <2> QED BY <2>6, <2>7, <2>8 DEF IInv, UInv
<1> QED BY <1>5, <1>6

(* uart_reset().                                                           *)
LEMMA ResetInv ==
  ASSUME NEW k \in DOMAIN Uses
  PROVE  UInv(uart_reset(k))
<1> DEFINE s == Fresh(k)
<1>1. /\ DOMAIN s = Fields /\ s.use = k
      /\ s.fifo_len = (IF Uses[k].is16550 THEN FIFO ELSE 1)
      /\ s.tx = <<>> /\ s.txser = Nothing /\ s.loopback = Nothing
      /\ s.rx = <<>> /\ s.rxser = NoChar /\ s.buf = <<>> /\ s.ready = <<>>
      /\ s.timed = [f \in JobFuncs |-> 0]
  BY DEF Fresh, Fields
<1>2. /\ s.ier = {} /\ s.iir = "none" /\ s.ints = {} /\ s.irq = FALSE
      /\ s.txsere = TRUE /\ s.txbufe = TRUE /\ s.rdrdy = FALSE
  BY DEF Fresh
<1> HIDE DEF s
<1>3. Typed(s)
  <2>1. s.fifo_len \in {1, FIFO} /\ s.fifo_len \in Nat \ {0}
    BY <1>1, UartAssumption
  <2>2. s.rxser \in RxEntries
    BY <1>1 DEF NoChar, Rx, RxEntries
  <2>3. s.timed \in [JobFuncs -> Nat]
    BY <1>1
  <2>4. s.tx \in Seq(Chars) /\ s.rx \in Seq(RxEntries)
        /\ s.buf \in Seq(Commands) /\ s.ready \in Seq(JobFuncs)
    BY <1>1
  <2> QED BY <1>1, <2>1, <2>2, <2>3, <2>4 DEF Typed
<1>4. IntsOK(s)
  BY <1>2 DEF IntsOK, LineOK, Enabled, Ints
<1>5. FifosOK(s)
  <2>1. s.fifo_len \in Nat /\ Len(s.tx) = 0 /\ Len(s.rx) = 0
    BY <1>1, <1>3 DEF Typed
  <2> QED BY <1>1, <1>2, <2>1 DEF FifosOK
<1>6. \A f : ~Has(s.ready, f)
  BY <1>1 DEF Has
<1>7. /\ s.timed["char_clock"] = 0 /\ s.timed["send_break"] = 0
      /\ s.timed["tx_send"] = 0 /\ s.timed["int_cti"] = 0
  BY <1>1 DEF JobFuncs
<1>8. \A F : AtMostOne(s.ready, F)
  BY <1>1 DEF AtMostOne
<1>9. TxOK(s)
  <2>1. s.txsere # FALSE /\ s.txsere \in BOOLEAN
    BY <1>2
  <2>2. s.timed["char_clock"] \in {0, 1} /\ s.timed["char_clock"] # 1
    BY <1>7
  <2> QED BY <1>1, <1>6, <1>7, <1>8, <2>1, <2>2 DEF TxOK
<1>10. CtiOK(s)
  BY <1>1, <1>6, <1>7, <1>8 DEF CtiOK, CtiSingle
<1>11. UInv(s)
  BY <1>3, <1>4, <1>5, <1>9, <1>10 DEF UInv
<1>12. UInv(uart_sched_recv_check(s))
  BY <1>11, ReceiverJobs DEF uart_sched_recv_check
<1> QED BY <1>12 DEF uart_reset, s
-----------------------------------------------------------------------------
(***************************************************************************)
(* The commands of the verification API.                                   *)
(***************************************************************************)
(* uart_vapi_cmd() is called and returns.                                  *)
LEMMA CallRetInv ==
  ASSUME NEW s, UInv(s)
  PROVE  (\A who : UInv(Call(s, who))) /\ UInv(Ret(s))
<1> DEFINE t == [s EXCEPT !.calls = Tail(@)]
           r == IF Head(s.calls) = "break" THEN AddVapiClks(t, "recv_break")
                ELSE t
           v == [r EXCEPT !.jobs = @ /\ (r.ready # <<>> \/ r.calls # <<>>)]
<1>0. DOMAIN s = Fields
  BY DEF UInv, Typed
<1>1. ASSUME NEW who PROVE UInv(Call(s, who))
  <2>1. Same(s, Call(s, who), {"calls"})
    BY <1>0 DEF Call, Same, Fields
  <2> QED BY <2>1, Assigned
<1>2. Same(s, t, {"calls"})
  BY <1>0 DEF Same, Fields
<1> HIDE DEF t
<1>3. UInv(t)
  BY <1>2, Assigned
<1>4. UInv(r)
  BY <1>3, ReceiverJobs
<1> HIDE DEF r
<1>5. Same(r, v, {"jobs"})
  BY <1>4 DEF UInv, Typed, Same, Fields
<1> HIDE DEF v
<1>6. UInv(v)
  BY <1>4, <1>5, Assigned
<1>7. Ret(s) = v
  BY DEF Ret, t, r, v
<1> QED BY <1>1, <1>6, <1>7

(* uart_recv_break_start() and uart_recv_break_stop().                     *)
LEMMA BreakInv ==
  ASSUME NEW s, UInv(s)
  PROVE  UInv(uart_recv_break_start(s)) /\ UInv(uart_recv_break_stop(s))
<1> DEFINE a == [s EXCEPT !.receiveing = FALSE, !.recv_break = TRUE]
           b == [s EXCEPT !.recv_break = FALSE]
           t == BreakStart(s)
<1>0. DOMAIN s = Fields
  BY DEF UInv, Typed
<1>1. Same(s, a, {"receiveing", "recv_break"}) /\ Same(s, b, {"recv_break"})
  BY <1>0 DEF Same, Fields
<1>2. t = Unsched(a, "recv_char")
      /\ uart_recv_break_stop(s) = Unsched(b, "recv_break")
  BY DEF BreakStart, uart_recv_break_stop
<1> HIDE DEF a, b, t
<1>3. UInv(a) /\ UInv(b)
  BY <1>1, Assigned
<1>4. UInv(t) /\ UInv(uart_recv_break_stop(s))
  BY <1>2, <1>3, ReceiverJobs
<1>5. UInv(Call(t, "break")) /\ UInv(AddVapiClks(t, "recv_break"))
  BY <1>4, CallRetInv, ReceiverJobs
<1>6. uart_recv_break_start(s) = IF t.buf # <<>> THEN Call(t, "break")
                                 ELSE AddVapiClks(t, "recv_break")
  BY DEF uart_recv_break_start, t
<1> QED BY <1>4, <1>5, <1>6

(* A character of the verification API is on its way.                      *)
LEMMA VapiDataInv ==
  ASSUME NEW s, UInv(s), NEW cmd \in Commands, cmd.op = "data"
  PROVE  UInv(VapiData(s, cmd))
<1> DEFINE t == [s EXCEPT !.vclks = cmd.clks,
                          !.rxser = Rx(cmd.c, cmd.err \/ cmd.clks # s.clks)]
           v == [t EXCEPT !.receiveing = TRUE]
           w == IF s.recv_break THEN t ELSE AddClks(v, "recv_char")
<1>0. DOMAIN s = Fields /\ s.buf \in Seq(Commands)
  BY DEF UInv, Typed
<1>1. cmd.c \in Chars /\ cmd.err \in BOOLEAN
  BY DEF Commands
<1>2. /\ Same(s, t, {"buf", "rxser", "jobs", "vclks"}) /\ t.buf = s.buf
      /\ t.rxser = Rx(cmd.c, cmd.err \/ cmd.clks # s.clks)
  BY <1>0 DEF Same, Fields
<1>3. t.rxser \in RxEntries
  BY <1>1, <1>2 DEF Rx, RxEntries
<1>4. VapiData(s, cmd) = Ret(w)
  BY DEF VapiData
<1> HIDE DEF t
<1>5. UInv(t)
  BY <1>0, <1>2, <1>3, BufferAssigned
<1>6. Same(t, v, {"receiveing"})
  BY <1>5 DEF UInv, Typed, Same, Fields
<1> HIDE DEF v
<1>7. UInv(v)
  BY <1>5, <1>6, Assigned
<1>8. UInv(AddClks(v, "recv_char"))
  BY <1>7, ReceiverJobs
<1>9. UInv(w)
  BY <1>5, <1>8
<1> HIDE DEF w
<1> QED BY <1>4, <1>9, CallRetInv

(* One command of uart_vapi_cmd().                                         *)
LEMMA VapiCmdInv == ASSUME IInv, VapiCmd PROVE IInv'
<1>0. UInv(u) /\ DOMAIN u = Fields /\ u.buf \in Seq(Commands)
      /\ u.rxser \in RxEntries
  BY DEF IInv, UInv, Typed
<1>1. CASE u.buf = <<>>
  BY <1>0, <1>1, CallRetInv DEF VapiCmd, IInv
<1>2. CASE u.buf # <<>>
  <2> DEFINE q == u.buf
             cmd == Head(u.buf)
             t == [u EXCEPT !.buf = Tail(@)]
  <2>1. cmd \in Commands /\ Tail(u.buf) \in Seq(Commands)
    <3>1. q \in Seq(Commands) /\ q # <<>>
      BY <1>0, <1>2
    <3> HIDE DEF q
    <3>2. Head(q) \in Commands /\ Tail(q) \in Seq(Commands)
      BY <3>1
    <3> QED BY <3>2 DEF q
  <2>2. /\ Same(u, t, {"buf", "rxser", "jobs", "vclks"})
        /\ t.buf = Tail(u.buf) /\ t.rxser = u.rxser
    BY <1>0 DEF Same, Fields
  <2>3. CASE cmd.op = "data"
    <3>1. u' = VapiData(t, cmd)
      BY <1>2, <2>3 DEF VapiCmd
    <3> HIDE DEF t, cmd
    <3>2. UInv(t)
      BY <1>0, <2>1, <2>2, BufferAssigned
    <3> QED BY <2>1, <2>3, <3>1, <3>2, VapiDataInv DEF IInv
  <2>4. CASE cmd.op # "data"
    <3>1. cmd.op \in {"start", "stop", "start_later", "stop_later"}
      BY <2>1, <2>4 DEF Commands
    <3>2. u' \in {uart_recv_break_start(t), uart_recv_break_stop(t),
                  AddTimed(t, "recv_break_start"),
                  AddTimed(t, "recv_break_stop")}
      BY <1>2, <3>1 DEF VapiCmd
    <3> HIDE DEF t, cmd
    <3>3. UInv(t)
      BY <1>0, <2>1, <2>2, BufferAssigned
    <3>4. /\ UInv(AddTimed(t, "recv_break_start"))
          /\ UInv(AddTimed(t, "recv_break_stop"))
      BY <3>3, ReceiverJobs
    <3> QED BY <3>2, <3>3, <3>4, BreakInv DEF IInv
  <2> QED BY <2>3, <2>4
<1> QED BY <1>1, <1>2

(* uart_vapi_read() of a command.                                          *)
LEMMA VapiReadInv ==
  ASSUME IInv, NEW cmd \in VapiCmds, VapiRead(cmd)
  PROVE  IInv'
<1> DEFINE t == [u EXCEPT !.buf = Append(@, cmd), !.jobs = FALSE]
           d == [t EXCEPT !.dead = TRUE]
<1>0. UInv(u) /\ DOMAIN u = Fields /\ u.buf \in Seq(Commands)
      /\ u.rxser \in RxEntries /\ u.use \in DOMAIN Uses
  BY DEF IInv, UInv, Typed
<1>1. cmd \in Commands
  <2>1. Use(u).received \subseteq Chars
    BY <1>0, UartAssumption DEF Use
  <2> QED BY <2>1 DEF VapiCmds, Commands
<1>2. Append(u.buf, cmd) \in Seq(Commands)
  <2> DEFINE q == u.buf
  <2>1. q \in Seq(Commands)
    BY <1>0
  <2> HIDE DEF q
  <2>2. Append(q, cmd) \in Seq(Commands)
    BY <1>1, <2>1, AppendProperties
  <2> QED BY <2>2 DEF q
<1>3. /\ Same(u, t, {"buf", "rxser", "jobs", "vclks"})
      /\ t.buf = Append(u.buf, cmd) /\ t.rxser = u.rxser
  BY <1>0 DEF Same, Fields
<1>4. u' \in {d, t, Call(t, "top")}
  BY DEF VapiRead
<1> HIDE DEF t
<1>5. UInv(t)
  BY <1>0, <1>2, <1>3, BufferAssigned
<1>6. UInv(d)
  <2>1. Same(t, d, {"dead"})
    BY <1>5 DEF UInv, Typed, Same, Fields
  <2> HIDE DEF d
  <2> QED BY <1>5, <2>1, Assigned
<1> HIDE DEF d
<1> QED BY <1>4, <1>5, <1>6, CallRetInv DEF IInv
-----------------------------------------------------------------------------
(***************************************************************************)
(* do_scheduler() runs a job.                                              *)
(***************************************************************************)
(* What holds when job f has been taken out of the schedule and has not    *)
(* run yet.                                                                *)
Taken(s, f) ==
  /\ f \notin TxJobs /\ f # "int_cti" => UInv(s)
  /\ f \in TxJobs => TxTaken(s)
  /\ f = "tx_send" => s.tx # <<>>
  /\ f = "int_cti" => /\ Typed(s) /\ IntsOK(s) /\ FifosOK(s) /\ TxOK(s)
                      /\ CtiQuiet(s)

(* When a scheduled job f of a good state is taken out of the schedule,    *)
(* what its handler relies on holds.                                       *)
LEMMA LostTaken ==
  ASSUME NEW s, NEW t, UInv(s), NEW f \in JobFuncs, Lost(s, t, f),
         Has(s.ready, f) \/ s.timed[f] > 0
  PROVE  Taken(t, f)
<1> DEFINE G == {"ready", "timed"}
<1>1. Typed(s) /\ IntsOK(s) /\ FifosOK(s) /\ TxOK(s) /\ CtiOK(s) /\ Queues(s)
  BY DEF UInv, Typed, Queues
<1>2. Same(s, t, G) /\ Queues(t)
  BY DEF Lost
<1>3. /\ t.ints = s.ints /\ t.ier = s.ier /\ t.iir = s.iir /\ t.irq = s.irq
      /\ t.tx = s.tx
  BY <1>2 DEF Same, Fields
<1>4. IntsOK(t)
  BY <1>1, <1>3, IntsKept
<1>5. G \cap Core = {}
  BY DEF Core
<1>6. Typed(t) /\ FifosOK(t)
  <2> HIDE DEF G
  <2> QED BY <1>1, <1>2, <1>5, Kept
<1>7. f \notin TxJobs /\ f # "int_cti" => UInv(t)
  BY LoseOther
<1>8. ASSUME f \in TxJobs PROVE TxTaken(t)
  <2>1. CtiOK(t)
    <3>1. JobsSame(s, t, {"int_cti"})
      BY <1>8 DEF Lost, TxJobs
    <3> HIDE DEF G
    <3> QED BY <1>1, <1>2, <1>3, <1>5, <3>1, Kept
  <2>2. /\ AtMostOne(s.ready, TxJobs)
        /\ s.timed["send_break"] = 0 /\ s.timed["tx_send"] = 0
        /\ s.timed["char_clock"] \in {0, 1}
        /\ s.timed["char_clock"] = 1 => \A g \in TxJobs : ~Has(s.ready, g)
    BY <1>1 DEF TxOK
  <2>3. \A g \in TxJobs : s.timed[g] \in {0, 1}
    BY <2>2 DEF TxJobs
  <2>4. \A g \in TxJobs : g # f => s.timed[g] = 0 /\ ~Has(s.ready, g)
    <3>1. CASE Has(s.ready, f)
      <4>1. s.timed["char_clock"] = 0
        BY <1>8, <2>2, <3>1
      <4>2. \A g \in TxJobs : s.timed[g] = 0
        BY <2>2, <4>1 DEF TxJobs
      <4>3. \A g \in TxJobs : g # f => ~Has(s.ready, g)
        BY <1>8, <2>2, <3>1 DEF AtMostOne, Has
      <4> QED BY <4>2, <4>3
    <3>2. CASE s.timed[f] > 0
      <4>1. f = "char_clock" /\ s.timed["char_clock"] = 1
        BY <1>8, <2>2, <3>2 DEF TxJobs
      <4> QED BY <2>2, <4>1 DEF TxJobs
    <3> QED BY <3>1, <3>2
  <2>5. Single(s, f)
    <3>1. AtMostOne(s.ready, {f})
      BY <1>8, <2>2 DEF AtMostOne
    <3>2. s.timed[f] = 1 => ~Has(s.ready, f)
      BY <1>8, <2>2 DEF TxJobs
    <3> QED BY <1>8, <2>3, <3>1, <3>2 DEF Single
  <2>6. Quiet(t, f)
    BY <2>5 DEF Lost
  <2>7. \A g \in TxJobs : g # f => Quiet(t, g)
    <3>1. JobsSame(s, t, TxJobs \ {f})
      BY DEF Lost
    <3> QED BY <2>4, <3>1 DEF JobsSame, Quiet
  <2>8. TxQuiet(t)
    <3>1. \A g \in TxJobs : Quiet(t, g)
      BY <2>6, <2>7
    <3> QED BY <3>1 DEF TxQuiet, Quiet, TxJobs
  <2> QED BY <1>4, <1>6, <2>1, <2>8 DEF TxTaken
<1>9. ASSUME f = "tx_send" PROVE t.tx # <<>>
  <2>1. s.timed["tx_send"] = 0 /\ s.txsere \in BOOLEAN
        /\ (s.txsere = FALSE => ~Has(s.ready, "tx_send"))
    BY <1>1 DEF TxOK
  <2>2. Has(s.ready, "tx_send")
    BY <1>9, <2>1
  <2>3. s.txsere = TRUE
    BY <2>1, <2>2
  <2>4. s.tx = <<>> => ~Has(s.ready, "tx_send")
    BY <1>1, <2>3 DEF TxOK
  <2> QED BY <1>3, <2>2, <2>4
<1>10. ASSUME f = "int_cti" PROVE TxOK(t) /\ CtiQuiet(t)
  <2>1. JobsSame(s, t, TxJobs)
    BY <1>10 DEF Lost, TxJobs
  <2>2. TxOK(t)
    <3> HIDE DEF G
    <3> QED BY <1>1, <1>2, <1>5, <2>1, Kept
  <2>3. Single(s, f)
    BY <1>1, <1>10 DEF CtiOK, CtiSingle, Single
  <2> QED BY <1>10, <2>2, <2>3 DEF Lost, Quiet, CtiQuiet
<1> QED BY <1>4, <1>6, <1>7, <1>8, <1>9, <1>10 DEF Taken

(* The character timeout: its interrupt takes the place of the job.        *)
LEMMA TimeoutInv ==
  ASSUME NEW s, Taken(s, "int_cti")
  PROVE  UInv(Raise(s, "cti"))
<1> DEFINE t == Raise(s, "cti")
           G == {"ints", "iir", "irq"}
<1>1. /\ Typed(s) /\ IntsOK(s) /\ FifosOK(s) /\ TxOK(s) /\ CtiQuiet(s)
      /\ DOMAIN s = Fields
  BY DEF Taken, Typed
<1>2. Same(s, t, G) /\ t.ints = s.ints \cup {"cti"} /\ IntsOK(t)
  BY <1>1, RaiseProps DEF Ints
<1> HIDE DEF t
<1>3. t.ready = s.ready /\ t.timed = s.timed
  BY <1>2 DEF Same, Fields
<1>4. Queues(t) /\ JobsSame(s, t, TxJobs)
  BY <1>1, <1>3 DEF Typed, Queues, JobsSame
<1>5. CtiOK(t)
  <2>1. AtMostOne(t.ready, {"int_cti"})
    BY <1>1, <1>3 DEF CtiQuiet, Has, AtMostOne
  <2> QED BY <1>1, <1>2, <1>3, <2>1 DEF CtiQuiet, CtiOK, CtiSingle
<1>6. G \cap Core = {}
  BY DEF Core
<1> HIDE DEF G
<1>7. Typed(t) /\ FifosOK(t) /\ TxOK(t)
  BY <1>1, <1>2, <1>4, <1>6, Kept
<1> QED BY <1>2, <1>5, <1>7 DEF UInv, t

(* uart_check_char(): what it may do.                                      *)
LEMMA CheckCharInv ==
  ASSUME NEW s, UInv(s), NEW t \in CheckChar(s)
  PROVE  UInv(t)
<1>0. DOMAIN s = Fields /\ s.use \in DOMAIN Uses /\ s.buf \in Seq(Commands)
  BY DEF UInv, Typed
<1>1. UInv(AddTimed(s, "check_char"))
  BY ReceiverJobs
<1>2. ASSUME NEW c \in Use(s).received,
             t = AddClks([s EXCEPT !.rxser = Rx(c, FALSE),
                                   !.receiveing = TRUE], "recv_char")
      PROVE  UInv(t)
  <2> DEFINE a == [s EXCEPT !.rxser = Rx(c, FALSE)]
             b == [s EXCEPT !.rxser = Rx(c, FALSE), !.receiveing = TRUE]
  <2>1. c \in Chars
    BY <1>0, UartAssumption DEF Use
  <2>2. /\ Same(s, a, {"buf", "rxser", "jobs", "vclks"}) /\ a.buf = s.buf
        /\ a.rxser = Rx(c, FALSE) /\ Same(a, b, {"receiveing"})
    BY <1>0 DEF Same, Fields
  <2>3. Rx(c, FALSE) \in RxEntries
    BY <2>1 DEF Rx, RxEntries
  <2>4. t = AddClks(b, "recv_char")
    BY <1>2
  <2> HIDE DEF a, b
  <2>5. UInv(a)
    BY <1>0, <2>2, <2>3, BufferAssigned
  <2>6. UInv(b)
    BY <2>2, <2>5, Assigned
  <2> QED BY <2>4, <2>6, ReceiverJobs
<1>3. \/ \E c \in Use(s).received :
           t = AddClks([s EXCEPT !.rxser = Rx(c, FALSE),
                                 !.receiveing = TRUE], "recv_char")
      \/ t \in {AddTimed(s, "check_char"), s}
  BY DEF CheckChar
<1> QED BY <1>1, <1>2, <1>3

(* A job that has been taken from the schedule runs.                       *)
LEMMA RunFuncInv ==
  ASSUME NEW s, NEW f \in JobFuncs, Taken(s, f), NEW t \in RunFunc(s, f)
  PROVE  UInv(t)
<1>1. CASE f = "char_clock"
  <2>1. TxTaken(s)
    BY <1>1 DEF Taken, TxJobs
  <2> QED BY <1>1, <2>1, TxEndInv DEF RunFunc
<1>2. CASE f = "send_break"
  <2>1. TxTaken(s)
    BY <1>2 DEF Taken, TxJobs
  <2> QED BY <1>2, <2>1, TxEndInv DEF RunFunc
<1>3. CASE f = "tx_send"
  <2>1. TxTaken(s) /\ s.tx # <<>>
    BY <1>3 DEF Taken, TxJobs
  <2> QED BY <1>3, <2>1, TxSendInv DEF RunFunc
<1>4. CASE f = "int_cti"
  BY <1>4, TimeoutInv DEF RunFunc
<1>5. CASE f \notin TxJobs /\ f # "int_cti"
  <2>1. UInv(s)
    BY <1>5 DEF Taken
  <2>2. CASE f = "recv_char"
    BY <2>1, <2>2, RecvCharInv DEF RunFunc
  <2>3. CASE f = "recv_break"
    <3>1. Rx(Break, TRUE) \in RxEntries
      BY DEF Rx, RxEntries
    <3>2. UInv(uart_recv_break(s))
      BY <2>1, <3>1, AddCharInv DEF uart_recv_break
    <3> QED BY <2>3, <3>2 DEF RunFunc
  <2>4. CASE f = "recv_break_start"
    BY <2>1, <2>4, BreakInv DEF RunFunc
  <2>5. CASE f = "recv_break_stop"
    BY <2>1, <2>5, BreakInv DEF RunFunc
  <2>6. CASE f = "check_char"
    <3>1. t \in CheckChar(s)
      BY <2>6 DEF RunFunc
    <3> QED BY <2>1, <3>1, CheckCharInv
  <2>7. CASE f = "vapi_cmd"
    BY <2>1, <2>7, CallRetInv DEF RunFunc
  <2> QED BY <1>5, <2>2, <2>3, <2>4, <2>5, <2>6, <2>7 DEF JobFuncs, TxJobs
<1> QED BY <1>1, <1>2, <1>3, <1>4, <1>5 DEF TxJobs

(* The loop of do_scheduler() goes on or ends.                             *)
LEMMA ScheduledInv ==
  ASSUME NEW s, UInv(s)
  PROVE  UInv(Scheduled(s))
<1>1. Same(s, Scheduled(s), {"jobs"})
  BY DEF UInv, Typed, Scheduled, Same, Fields
<1> QED BY <1>1, Assigned

(* A job scheduled for now runs.                                           *)
LEMMA RunReadyInv == ASSUME IInv, RunReady PROVE IInv'
<1> DEFINE f == Head(u.ready)
           s == [u EXCEPT !.ready = Tail(@)]
<1>0. /\ UInv(u) /\ DOMAIN u = Fields /\ Queues(u) /\ u.ready # <<>>
      /\ u.ready \in Seq(JobFuncs) /\ u.timed \in [JobFuncs -> Nat]
  BY DEF IInv, UInv, Typed, Queues, RunReady
<1>1. PICK t \in RunFunc(s, f) : u' = Scheduled(t)
  BY DEF RunReady
<1>2. /\ DOMAIN s = Fields /\ s.ready = Tail(u.ready)
      /\ s.timed = u.timed /\ Same(u, s, {"ready", "timed"})
  BY <1>0 DEF Same, Fields
<1> HIDE DEF s
<1>3. /\ Tail(u.ready) \in Seq(JobFuncs) /\ f \in JobFuncs
      /\ \A g : Has(u.ready, g) <=> g = f \/ Has(Tail(u.ready), g)
      /\ \A F : AtMostOne(u.ready, F) => AtMostOne(Tail(u.ready), F)
      /\ \A F : AtMostOne(u.ready, F) /\ f \in F =>
                  \A g \in F : ~Has(Tail(u.ready), g)
  BY <1>0, TailJob
<1> HIDE DEF f
<1>4. Lost(u, s, f)
  <2>1. Queues(s)
    BY <1>0, <1>2, <1>3 DEF Queues
  <2>2. \A F : f \notin F => JobsSame(u, s, F)
    BY <1>2, <1>3 DEF JobsSame
  <2>3. \A F : AtMostOne(u.ready, F) => AtMostOne(s.ready, F)
    BY <1>2, <1>3
  <2>4. Single(u, f) => Quiet(s, f)
    BY <1>2, <1>3 DEF Single, Quiet
  <2> QED BY <1>2, <2>1, <2>2, <2>3, <2>4 DEF Lost
<1>5. Taken(s, f)
  BY <1>0, <1>3, <1>4, LostTaken
<1>6. UInv(t)
  BY <1>1, <1>3, <1>5, RunFuncInv
<1> QED BY <1>1, <1>6, ScheduledInv DEF IInv

(* The delay of a job of f passes and it runs.                             *)
LEMMA RunTimedInv ==
  ASSUME IInv, NEW f \in JobFuncs, RunTimed(f)
  PROVE  IInv'
<1> DEFINE s == [u EXCEPT !.timed[f] = @ - 1]
<1>0. /\ UInv(u) /\ DOMAIN u = Fields /\ u.timed[f] > 0
      /\ u.ready \in Seq(JobFuncs) /\ u.timed \in [JobFuncs -> Nat]
  BY DEF IInv, UInv, Typed, RunTimed
<1>1. PICK t \in RunFunc(s, f) : u' = Scheduled(t)
  BY DEF RunTimed
<1>2. /\ DOMAIN s = Fields /\ s.timed = [u.timed EXCEPT ![f] = @ - 1]
      /\ s.ready = u.ready /\ Same(u, s, {"ready", "timed"})
  BY <1>0 DEF Same, Fields
<1> HIDE DEF s
<1>3. Lost(u, s, f)
  <2>1. u.timed[f] - 1 \in Nat
    BY <1>0
  <2>2. Queues(s)
    BY <1>0, <1>2, <2>1 DEF Queues
  <2>3. \A g : g # f => s.timed[g] = u.timed[g]
    BY <1>0, <1>2
  <2>4. \A F : f \notin F => JobsSame(u, s, F)
    BY <1>2, <2>3 DEF JobsSame
  <2>5. Single(u, f) => Quiet(s, f)
    BY <1>0, <1>2 DEF Single, Quiet
  <2> QED BY <1>2, <2>2, <2>4, <2>5 DEF Lost
<1>4. Taken(s, f)
  BY <1>0, <1>3, LostTaken
<1>5. UInv(t)
  BY <1>1, <1>4, RunFuncInv
<1> QED BY <1>1, <1>5, ScheduledInv DEF IInv
-----------------------------------------------------------------------------
(***************************************************************************)
(* The invariant and the theorems.                                         *)
(***************************************************************************)
LEMMA InitIInv == Init => IInv
<1> SUFFICES ASSUME NEW k \in DOMAIN Uses, u = uart_reset(k) PROVE IInv
  BY DEF Init
<1> QED BY ResetInv DEF IInv

(* Every step of the UART and its users keeps the invariant.               *)
LEMMA NextIInv == IInv /\ [Next]_u => IInv'
<1> SUFFICES ASSUME IInv, [Next]_u PROVE IInv'
  OBVIOUS
<1>0. u.use \in DOMAIN Uses
  BY DEF IInv, UInv, Typed
<1>1. ASSUME NEW z \in Use(u).dlabs, WriteDll(z) \/ WriteDlh(z) PROVE IInv'
  BY <1>1, WriteDivisorInv
<1>2. ASSUME NEW c \in Use(u).sends, WriteTxbuf(c) PROVE IInv'
  <2>1. c \in Chars
    BY <1>0, UartAssumption DEF Use
  <2> QED BY <1>2, <2>1, WriteTxbufInv
<1>3. ASSUME NEW fie \in BOOLEAN, NEW rrx \in BOOLEAN, NEW rtx \in BOOLEAN,
             NEW l \in Use(u).triggers, WriteFcr(fie, rrx, rtx, l)
      PROVE  IInv'
  BY <1>3, WriteFcrInv
<1>4. ASSUME NEW v \in Use(u).iers, WriteIer(v) PROVE IInv'
  BY <1>4, WriteIerInv
<1>5. ASSUME NEW sbc \in Use(u).sbcs, NEW dlab \in {FALSE} \cup Use(u).dlabs,
             WriteLcr(sbc, dlab)
      PROVE  IInv'
  BY <1>5, WriteLcrInv
<1>6. ASSUME NEW v \in Use(u).mcrs, WriteMcr(v) PROVE IInv'
  BY <1>6, ReadStatusInv
<1>7. ASSUME ReadRxbuf PROVE IInv'
  BY <1>7, ReadRxbufInv
<1>8. ASSUME ReadIir \/ ReadLsr \/ ReadMsr PROVE IInv'
  BY <1>8, ReadStatusInv
<1>9. ASSUME Reset PROVE IInv'
  BY <1>0, <1>9, ResetInv DEF Reset, IInv
<1>10. ASSUME NEW cmd \in VapiCmds, VapiRead(cmd) PROVE IInv'
  BY <1>10, VapiReadInv
<1>11. ASSUME VapiCmd PROVE IInv'
  BY <1>11, VapiCmdInv
<1>12. ASSUME RunReady PROVE IInv'
  BY <1>12, RunReadyInv
<1>13. ASSUME NEW f \in JobFuncs, RunTimed(f) PROVE IInv'
  BY <1>13, RunTimedInv
<1>14. ASSUME UNCHANGED u PROVE IInv'
  BY <1>14 DEF IInv
<1> QED BY <1>1, <1>2, <1>3, <1>4, <1>5, <1>6, <1>7, <1>8, <1>9, <1>10,
           <1>11, <1>12, <1>13, <1>14 DEF Next

(* In every reachable state of the UART the invariant IInv holds.          *)
THEOREM InvariantHolds == Spec => []IInv
  BY InitIInv, NextIInv, PTL DEF Spec

(* A job that is scheduled at most once is counted as often.               *)
LEMMA NumberOf ==
  ASSUME NEW s, Queues(s), NEW f \in JobFuncs, AtMostOne(s.ready, {f})
  PROVE  /\ Has(s.ready, f) => Number(s, f) = s.timed[f] + 1
         /\ ~Has(s.ready, f) => Number(s, f) = s.timed[f]
<1> DEFINE I == {i \in DOMAIN s.ready : s.ready[i] = f}
<1>0. /\ DOMAIN s.ready = 1..Len(s.ready) /\ s.timed[f] \in Nat
  BY DEF Queues
<1>1. Number(s, f) = s.timed[f] + Cardinality(I)
  BY DEF Number
<1>2. ASSUME Has(s.ready, f) PROVE Cardinality(I) = 1
  <2>1. PICK i \in 1..Len(s.ready) : s.ready[i] = f
    BY <1>2 DEF Has
  <2>2. I = {i}
    BY <1>0, <2>1 DEF AtMostOne
  <2> HIDE DEF I
  <2> QED BY <2>2, FS_Singleton
<1>3. ASSUME ~Has(s.ready, f) PROVE Cardinality(I) = 0
  <2>1. I = {}
    BY <1>0, <1>3 DEF Has
  <2> HIDE DEF I
  <2> QED BY <2>1, FS_EmptySet
<1> HIDE DEF I
<1> QED BY <1>0, <1>1, <1>2, <1>3

(* No interrupt is lost: whatever the order in which interrupts arise, are *)
(* cleared, enabled and disabled, an enabled pending one asserts the line, *)
(* and the line is asserted exactly while IIR reports one (uart_int_*(),   *)
(* uart_clear_int(), uart_next_int()).                                     *)
THEOREM InterruptsReported == Spec => []InterruptReported
<1>1. IInv => InterruptReported
  <2> SUFFICES ASSUME IInv PROVE InterruptReported
    OBVIOUS
  <2>1. /\ u.iir # "none" => u.irq = TRUE
        /\ u.iir = "none" => u.irq = FALSE
        /\ Enabled(u) # {} => u.iir # "none"
    BY DEF IInv, UInv, IntsOK, LineOK
  <2> QED BY <2>1 DEF InterruptReported
<1> QED BY <1>1, InvariantHolds, PTL

(* The FIFOs, the bits of LSR and the jobs of the transmitter agree, after *)
(* every FIFO reset, break, overrun and change of mode: between two        *)
(* instructions the transmitter is idle with nothing to send, or exactly   *)
(* one job will end what it sends.                                         *)
THEOREM QueuesAlwaysSound == Spec => []QueuesSound
<1>1. IInv => QueuesSound
  <2> SUFFICES ASSUME IInv PROVE QueuesSound
    OBVIOUS
  <2>1. FifosOK(u) /\ UInv(u) /\ TxOK(u) /\ Queues(u)
    BY DEF IInv, UInv, Typed, Queues
  <2>2. FifosSound
    BY <2>1 DEF FifosOK, FifosSound
  <2>3. ASSUME Cpu
        PROVE  LET n == Number(u, "char_clock") + Number(u, "send_break") IN
               IF u.txsere THEN n = 0 /\ u.tx = <<>> ELSE n = 1
    <3>1. /\ \A f : ~Has(u.ready, f)
          /\ u.txsere = TRUE => u.tx = <<>> /\ TxQuiet(u)
          /\ u.txsere = FALSE => u.timed["char_clock"] = 1
          /\ u.timed["send_break"] = 0
      BY <2>1, <2>3, NoneReady DEF Cpu
    <3>2. \A F : AtMostOne(u.ready, F)
      BY <2>3 DEF Cpu, AtMostOne
    <3>3. /\ Number(u, "char_clock") = u.timed["char_clock"]
          /\ Number(u, "send_break") = u.timed["send_break"]
      BY <2>1, <3>1, <3>2, NumberOf DEF JobFuncs
    <3>4. u.txsere \in BOOLEAN
      BY <2>1 DEF TxOK
    <3>5. CASE u.txsere = TRUE
      BY <3>1, <3>3, <3>5 DEF TxQuiet
    <3>6. CASE u.txsere = FALSE
      BY <3>1, <3>3, <3>6
    <3> QED BY <3>4, <3>5, <3>6
  <2> QED BY <2>2, <2>3 DEF QueuesSound, TransmitterRuns
<1> QED BY <1>1, InvariantHolds, PTL

(* A character in the receive FIFO is never forgotten: the character       *)
(* timeout runs, exactly once, or its interrupt is pending.                *)
THEOREM NeverForgotten == Spec => []RxNotForgotten
<1>1. IInv => RxNotForgotten
  <2> SUFFICES ASSUME IInv, u.rx # <<>>, "cti" \notin u.ints
               PROVE  Number(u, "int_cti") = 1
    BY DEF RxNotForgotten
  <2>1. /\ Queues(u) /\ AtMostOne(u.ready, {"int_cti"})
        /\ u.timed["int_cti"] \in {0, 1}
        /\ u.timed["int_cti"] = 1 => ~Has(u.ready, "int_cti")
        /\ Has(u.ready, "int_cti") \/ u.timed["int_cti"] = 1
    BY DEF IInv, UInv, Typed, Queues, CtiOK, CtiSingle
  <2>2. /\ Has(u.ready, "int_cti") =>
             Number(u, "int_cti") = u.timed["int_cti"] + 1
        /\ ~Has(u.ready, "int_cti") =>
             Number(u, "int_cti") = u.timed["int_cti"]
    BY <2>1, NumberOf DEF JobFuncs
  <2> QED BY <2>1, <2>2
<1> QED BY <1>1, InvariantHolds, PTL
-----------------------------------------------------------------------------
(***************************************************************************)
(* The refinement of SerialTx: what a step does to the characters on their *)
(* way out.                                                                *)
(***************************************************************************)
(* The transmitter's part of the state is as it was.                       *)
TxSame(s, t) ==
  /\ DOMAIN t = Fields
  /\ t.tx = s.tx /\ t.txser = s.txser /\ t.txsere = s.txsere
  /\ t.wire = s.wire

(* Two functions that leave the transmitter alone, one after the other.    *)
LEMMA TxSameTrans ==
  ASSUME NEW s, NEW t, NEW r, TxSame(s, t), TxSame(t, r)
  PROVE  TxSame(s, r)
  BY DEF TxSame

(* Jobs and interrupts do not touch the transmitter.                       *)
LEMMA TxSameBasics ==
  ASSUME NEW s, DOMAIN s = Fields
  PROVE  /\ \A f : /\ TxSame(s, AddNow(s, f)) /\ TxSame(s, AddTimed(s, f))
                   /\ TxSame(s, AddClks(s, f)) /\ TxSame(s, AddVapiClks(s, f))
                   /\ TxSame(s, Unsched(s, f))
         /\ \A i : TxSame(s, Raise(s, i))
         /\ TxSame(s, uart_check_rlsi(s)) /\ TxSame(s, uart_check_rdi(s))
         /\ TxSame(s, uart_next_int(s))
<1>1. ASSUME NEW f
      PROVE  /\ TxSame(s, AddNow(s, f)) /\ TxSame(s, AddTimed(s, f))
             /\ TxSame(s, Unsched(s, f))
  <2>1. TxSame(s, AddNow(s, f))
    BY DEF AddNow, TxSame, Fields
  <2>2. TxSame(s, AddTimed(s, f))
    BY DEF AddTimed, TxSame, Fields
  <2>3. TxSame(s, Unsched(s, f))
    BY DEF Unsched, TxSame, Fields
  <2> QED BY <2>1, <2>2, <2>3
<1>2. ASSUME NEW f
      PROVE  TxSame(s, AddClks(s, f)) /\ TxSame(s, AddVapiClks(s, f))
  BY <1>1 DEF AddClks, AddVapiClks
<1>3. ASSUME NEW i PROVE TxSame(s, Raise(s, i))
  BY DEF Raise, TxSame, Fields
<1>4. TxSame(s, s)
  BY DEF TxSame
<1>5. TxSame(s, uart_check_rlsi(s)) /\ TxSame(s, uart_check_rdi(s))
  BY <1>3, <1>4 DEF uart_check_rlsi, uart_check_rdi
<1>6. TxSame(s, uart_next_int(s))
  <2>1. TxSame(s, [s EXCEPT !.irq = FALSE, !.iir = "none"])
    BY DEF TxSame, Fields
  <2> QED BY <1>3, <2>1 DEF uart_next_int
<1> QED BY <1>1, <1>2, <1>3, <1>5, <1>6

(* uart_clear_int leaves the transmitter alone.                            *)
LEMMA TxSameClear ==
  ASSUME NEW s, DOMAIN s = Fields, NEW i
  PROVE  TxSame(s, uart_clear_int(s, i))
<1> DEFINE t == [s EXCEPT !.ints = @ \ {i}]
           r == IF i = "cti" THEN Unsched(t, "int_cti") ELSE t
<1>1. TxSame(s, t)
  BY DEF TxSame, Fields
<1>2. uart_clear_int(s, i) = IF i = s.iir THEN uart_next_int(r) ELSE r
  BY DEF uart_clear_int
<1> HIDE DEF t
<1>3. TxSame(t, r)
  BY <1>1, TxSameBasics, ZenonT(60) DEF TxSame
<1> HIDE DEF r
<1>4. TxSame(s, r) /\ DOMAIN r = Fields
  BY <1>1, <1>3 DEF TxSame
<1>5. TxSame(r, uart_next_int(r))
  BY <1>4, TxSameBasics
<1>6. TxSame(s, uart_next_int(r))
  BY <1>4, <1>5, TxSameTrans
<1> QED BY <1>2, <1>4, <1>6

(* Nor does the receiver.                                                  *)
LEMMA TxSameReceive ==
  ASSUME NEW s, DOMAIN s = Fields
  PROVE  /\ \A c : TxSame(s, uart_add_char(s, c))
         /\ TxSame(s, uart_recv_char(s))
         /\ TxSame(s, uart_recv_break_start(s))
         /\ TxSame(s, uart_recv_break_stop(s))
         /\ TxSame(s, uart_loopback(s))
         /\ \A who : TxSame(s, Call(s, who))
         /\ TxSame(s, Ret(s)) /\ TxSame(s, Scheduled(s))
         /\ \A cmd : TxSame(s, VapiData(s, cmd))
         /\ \A t \in CheckChar(s) : TxSame(s, t)
<1>1. ASSUME NEW x, DOMAIN x = Fields, NEW c
      PROVE  TxSame(x, uart_add_char(x, c))
  <2> DEFINE a == [x EXCEPT !.rdrdy = TRUE]
             b == uart_clear_int(a, "cti")
             t == AddClks(b, "int_cti")
             o == [t EXCEPT !.err = TRUE]
             v == [t EXCEPT !.rx = Append(@, c)]
             w == [v EXCEPT !.err = @ \/ c.err]
             r == IF Len(t.rx) + 1 > t.fifo_len THEN Raise(o, "rlsi")
                  ELSE IF t.rx = <<>> THEN uart_check_rlsi(w) ELSE v
  <2>1. TxSame(x, a)
    BY <1>1 DEF TxSame, Fields
  <2>2. uart_add_char(x, c) = uart_check_rdi(r)
    BY DEF uart_add_char
  <2> HIDE DEF a
  <2>3. TxSame(a, b)
    BY <2>1, TxSameClear DEF TxSame
  <2> HIDE DEF b
  <2>4. TxSame(b, t)
    <3>1. DOMAIN b = Fields
      BY <2>3 DEF TxSame
    <3> QED BY <3>1, TxSameBasics
  <2> HIDE DEF t
  <2>5. TxSame(t, o) /\ TxSame(t, v) /\ TxSame(t, w)
    BY <2>4 DEF TxSame, Fields
  <2> HIDE DEF o, v, w
  <2>6. TxSame(o, Raise(o, "rlsi")) /\ TxSame(w, uart_check_rlsi(w))
    <3>1. DOMAIN o = Fields /\ DOMAIN w = Fields
      BY <2>5 DEF TxSame
    <3> QED BY <3>1, TxSameBasics
  <2>7. TxSame(t, r)
    BY <2>5, <2>6, TxSameTrans
  <2> HIDE DEF r
  <2>8. TxSame(r, uart_check_rdi(r))
    <3>1. DOMAIN r = Fields
      BY <2>7 DEF TxSame
    <3> QED BY <3>1, TxSameBasics
  <2> QED BY <2>1, <2>2, <2>3, <2>4, <2>7, <2>8 DEF TxSame
<1>2. ASSUME NEW x, DOMAIN x = Fields
      PROVE  /\ \A who : TxSame(x, Call(x, who))
             /\ TxSame(x, Scheduled(x)) /\ TxSame(x, Ret(x))
  <2>1. \A who : TxSame(x, Call(x, who))
    BY <1>2 DEF Call, TxSame, Fields
  <2>2. TxSame(x, Scheduled(x))
    BY <1>2 DEF Scheduled, TxSame, Fields
  <2>3. TxSame(x, Ret(x))
    <3> DEFINE t == [x EXCEPT !.calls = Tail(@)]
               r == IF Head(x.calls) = "break"
                    THEN AddVapiClks(t, "recv_break") ELSE t
               v == [r EXCEPT !.jobs = @ /\ (r.ready # <<>> \/ r.calls # <<>>)]
    <3>1. TxSame(x, t)
      BY <1>2 DEF TxSame, Fields
    <3>2. Ret(x) = v
      BY DEF Ret
    <3> HIDE DEF t
    <3>3. TxSame(t, r)
      BY <3>1, TxSameBasics DEF TxSame
    <3> HIDE DEF r
    <3>4. TxSame(r, v)
      BY <3>3 DEF TxSame, Fields
    <3> HIDE DEF v
    <3> QED BY <3>1, <3>2, <3>3, <3>4, TxSameTrans
  <2> QED BY <2>1, <2>2, <2>3
<1>3. TxSame(s, uart_recv_char(s))
  <2> DEFINE a == [s EXCEPT !.rxser = Rx(s.loopback, FALSE),
                            !.receiveing = TRUE]
             b == [s EXCEPT !.receiveing = FALSE]
             v == uart_sched_recv_check(b)
             w == IF Use(v).vapi /\ v.buf # <<>> THEN AddNow(v, "vapi_cmd")
                  ELSE v
             t == IF "loop" \in s.mcr THEN AddClks(a, "recv_char") ELSE w
  <2>1. TxSame(s, a) /\ TxSame(s, b)
    BY DEF TxSame, Fields
  <2>2. uart_recv_char(s) = uart_add_char(t, s.rxser)
    BY DEF uart_recv_char
  <2> HIDE DEF a, b
  <2>3. TxSame(a, AddClks(a, "recv_char")) /\ TxSame(b, v)
    BY <2>1, TxSameBasics DEF TxSame, uart_sched_recv_check
  <2> HIDE DEF v
  <2>4. TxSame(v, w)
    <3>1. DOMAIN v = Fields /\ TxSame(v, v)
      BY <2>3 DEF TxSame
    <3> QED BY <3>1, TxSameBasics
  <2> HIDE DEF w
  <2>5. TxSame(s, t)
    BY <2>1, <2>3, <2>4 DEF TxSame
  <2> HIDE DEF t
  <2>6. TxSame(t, uart_add_char(t, s.rxser))
    BY <1>1, <2>5 DEF TxSame
  <2> QED BY <2>2, <2>5, <2>6, TxSameTrans
<1>4. TxSame(s, uart_recv_break_start(s)) /\ TxSame(s, uart_recv_break_stop(s))
  <2> DEFINE a == [s EXCEPT !.receiveing = FALSE, !.recv_break = TRUE]
             b == [s EXCEPT !.recv_break = FALSE]
             t == Unsched(a, "recv_char")
  <2>1. TxSame(s, a) /\ TxSame(s, b)
    BY DEF TxSame, Fields
  <2>2. /\ uart_recv_break_stop(s) = Unsched(b, "recv_break")
        /\ uart_recv_break_start(s) =
             IF t.buf # <<>> THEN Call(t, "break")
             ELSE AddVapiClks(t, "recv_break")
    BY DEF BreakStart, uart_recv_break_stop, uart_recv_break_start
  <2> HIDE DEF a, b
  <2>3. TxSame(a, t) /\ TxSame(b, Unsched(b, "recv_break"))
    BY <2>1, TxSameBasics DEF TxSame
  <2> HIDE DEF t
  <2>4. TxSame(t, Call(t, "break")) /\ TxSame(t, AddVapiClks(t, "recv_break"))
    <3>1. DOMAIN t = Fields
      BY <2>3 DEF TxSame
    <3> QED BY <1>2, <3>1, TxSameBasics
  <2> QED BY <2>1, <2>2, <2>3, <2>4 DEF TxSame
<1>5. TxSame(s, uart_loopback(s))
  <2> DEFINE changed == {l \in ModemLines \ {"aux1"} :
                           (l \in s.mcr) # (l \in s.msr)}
                        \cup ({"aux1"} \cap (s.msr \ s.mcr))
             t == [s EXCEPT !.delta = @ \cup changed, !.msr = s.mcr \ {"loop"}]
  <2>1. TxSame(s, t) /\ TxSame(s, s)
    BY DEF TxSame, Fields
  <2>2. uart_loopback(s) \in {s, t, Raise(t, "msi")}
    BY DEF uart_loopback
  <2> HIDE DEF t
  <2>3. TxSame(t, Raise(t, "msi"))
    <3>1. DOMAIN t = Fields
      BY <2>1 DEF TxSame
    <3> QED BY <3>1, TxSameBasics
  <2> QED BY <2>1, <2>2, <2>3 DEF TxSame
<1>6. ASSUME NEW cmd PROVE TxSame(s, VapiData(s, cmd))
  <2> DEFINE t == [s EXCEPT !.vclks = cmd.clks,
                            !.rxser = Rx(cmd.c, cmd.err \/ cmd.clks # s.clks)]
             v == [t EXCEPT !.receiveing = TRUE]
             w == IF s.recv_break THEN t ELSE AddClks(v, "recv_char")
  <2>1. TxSame(s, t) /\ TxSame(s, v)
    BY DEF TxSame, Fields
  <2>2. VapiData(s, cmd) = Ret(w)
    BY DEF VapiData
  <2> HIDE DEF t, v
  <2>3. TxSame(v, AddClks(v, "recv_char"))
    <3>1. DOMAIN v = Fields
      BY <2>1 DEF TxSame
    <3> QED BY <3>1, TxSameBasics
  <2>4. TxSame(s, w)
    BY <2>1, <2>3 DEF TxSame
  <2> HIDE DEF w
  <2>5. TxSame(w, Ret(w))
    BY <1>2, <2>4 DEF TxSame
  <2> QED BY <2>2, <2>4, <2>5, TxSameTrans
<1>7. ASSUME NEW t \in CheckChar(s) PROVE TxSame(s, t)
  <2>1. ASSUME NEW c, t = AddClks([s EXCEPT !.rxser = Rx(c, FALSE),
                                            !.receiveing = TRUE], "recv_char")
        PROVE  TxSame(s, t)
    <3> DEFINE a == [s EXCEPT !.rxser = Rx(c, FALSE), !.receiveing = TRUE]
    <3>1. TxSame(s, a)
      BY DEF TxSame, Fields
    <3>2. t = AddClks(a, "recv_char")
      BY <2>1
    <3> HIDE DEF a
    <3> QED BY <3>1, <3>2, TxSameBasics DEF TxSame
  <2>2. \/ \E c : t = AddClks([s EXCEPT !.rxser = Rx(c, FALSE),
                                        !.receiveing = TRUE], "recv_char")
        \/ t \in {AddTimed(s, "check_char"), s}
    BY DEF CheckChar
  <2>3. TxSame(s, s)
    BY DEF TxSame
  <2> QED BY <2>1, <2>2, <2>3, TxSameBasics
<1> QED BY <1>1, <1>2, <1>3, <1>4, <1>5, <1>6, <1>7

(* The characters on their way out, as the refinement mapping has them.    *)
QueueOf(s) == (IF s.txsere THEN <<>> ELSE <<s.txser>>) \o s.tx

(* What putting the character of the shift register in front of the FIFO   *)
(* does to the operations on the FIFO.                                     *)
LEMMA ShiftRegister ==
  ASSUME NEW S, NEW q \in Seq(S), NEW x \in S, NEW c \in S
  PROVE  /\ <<>> \o q = q
         /\ <<x>> \o q # <<>> /\ Head(<<x>> \o q) = x /\ Tail(<<x>> \o q) = q
         /\ <<x>> \o Append(q, c) = Append(<<x>> \o q, c)
         /\ q # <<>> => <<Head(q)>> \o Tail(q) = q
         /\ Len(<<x>> \o q) = Len(q) + 1
<1> DEFINE p == <<x>> \o q
<1>1. <<x>> \in Seq(S) /\ Len(<<x>>) = 1 /\ <<x>>[1] = x /\ Len(q) \in Nat
  OBVIOUS
<1>2. /\ p \in Seq(S) /\ Len(p) = Len(q) + 1 /\ p[1] = x
      /\ \A i \in 2..(Len(q) + 1) : p[i] = q[i - 1]
  BY <1>1, ConcatProperties
<1>3. <<>> \o q = q
  BY ConcatEmptySeq
<1> HIDE DEF p
<1>4. p # <<>> /\ Head(p) = x
  BY <1>2
<1>5. Tail(p) = q
  <2>1. /\ Tail(p) \in Seq(S) /\ Len(Tail(p)) = Len(q)
        /\ \A i \in 1..Len(Tail(p)) : Tail(p)[i] = p[i + 1]
    BY <1>1, <1>2, <1>4, HeadTailProperties
  <2>2. \A i \in 1..Len(q) : Tail(p)[i] = q[i]
    BY <1>1, <1>2, <2>1
  <2> QED BY <2>1, <2>2, SeqEqual
<1>6. <<x>> \o Append(q, c) = Append(p, c)
  <2> DEFINE a == Append(q, c)
             l == <<x>> \o a
             r == Append(p, c)
  <2>1. /\ a \in Seq(S) /\ Len(a) = Len(q) + 1 /\ a[Len(q) + 1] = c
        /\ \A i \in 1..Len(q) : a[i] = q[i]
    BY AppendProperties
  <2>2. /\ r \in Seq(S) /\ Len(r) = Len(p) + 1 /\ r[Len(p) + 1] = c
        /\ \A i \in 1..Len(p) : r[i] = p[i]
    BY <1>2, AppendProperties
  <2> HIDE DEF a, r
  <2>3. /\ l \in Seq(S) /\ Len(l) = Len(a) + 1 /\ l[1] = x
        /\ \A i \in 2..(Len(a) + 1) : l[i] = a[i - 1]
    BY <1>1, <2>1, ConcatProperties
  <2> HIDE DEF l
  <2>4. ASSUME NEW i \in 1..Len(l) PROVE l[i] = r[i]
    <3>1. CASE i = 1
      BY <1>1, <1>2, <2>2, <2>3, <3>1
    <3>2. CASE i = Len(q) + 2
      BY <1>1, <1>2, <2>1, <2>2, <2>3, <3>2
    <3>3. CASE i # 1 /\ i # Len(q) + 2
      <4>1. i \in 2..(Len(q) + 1) /\ i - 1 \in 1..Len(q)
        BY <1>1, <2>1, <2>3, <3>3
      <4>2. l[i] = a[i - 1] /\ p[i] = q[i - 1] /\ i \in 1..Len(p)
        BY <1>1, <1>2, <2>1, <2>3, <4>1
      <4>3. a[i - 1] = q[i - 1]
        BY <2>1, <4>1
      <4>4. r[i] = p[i]
        BY <2>2, <4>2
      <4> QED BY <4>2, <4>3, <4>4
    <3> QED BY <3>1, <3>2, <3>3
  <2>5. l = r
    BY <1>2, <2>1, <2>2, <2>3, <2>4, SeqEqual
  <2> QED BY <2>5 DEF l, r, a
<1>7. ASSUME q # <<>> PROVE <<Head(q)>> \o Tail(q) = q
  <2> DEFINE h == Head(q)
             t == Tail(q)
             l == <<h>> \o t
  <2>1. /\ h \in S /\ t \in Seq(S) /\ Len(t) = Len(q) - 1 /\ h = q[1]
        /\ \A i \in 1..Len(t) : t[i] = q[i + 1]
    BY <1>7, HeadTailProperties
  <2> HIDE DEF h, t
  <2>2. <<h>> \in Seq(S) /\ Len(<<h>>) = 1 /\ <<h>>[1] = h
    BY <2>1
  <2>3. /\ l \in Seq(S) /\ Len(l) = Len(t) + 1 /\ l[1] = h
        /\ \A i \in 2..(Len(t) + 1) : l[i] = t[i - 1]
    BY <2>1, <2>2, ConcatProperties
  <2> HIDE DEF l
  <2>4. ASSUME NEW i \in 1..Len(l) PROVE l[i] = q[i]
    <3>1. CASE i = 1
      BY <2>1, <2>3, <3>1
    <3>2. CASE i # 1
      <4>1. i \in 2..(Len(t) + 1) /\ i - 1 \in 1..Len(t) /\ (i - 1) + 1 = i
        BY <1>1, <2>1, <2>3, <3>2
      <4> QED BY <2>1, <2>3, <4>1
    <3> QED BY <3>1, <3>2
  <2>5. l = q
    BY <1>1, <2>1, <2>3, <2>4, SeqEqual
  <2> QED BY <2>5 DEF l, h, t
<1> QED BY <1>2, <1>3, <1>4, <1>5, <1>6, <1>7 DEF p

(* a is q with c at position n.                                            *)
Written(a, q, n, c) ==
  /\ Len(a) = Len(q)
  /\ \A i \in 1..Len(q) : a[i] = IF i = n THEN c ELSE q[i]

(* Overwriting the first of the waiting characters is overwriting the      *)
(* second of the queue that starts with the one being shifted out.         *)
LEMMA ShiftOverwrite ==
  ASSUME NEW S, NEW q \in Seq(S), NEW x \in S, NEW c \in S, q # <<>>,
         NEW a \in Seq(S), Written(a, q, 1, c),
         NEW p, p = <<x>> \o q, NEW r \in Seq(S), Written(r, p, 2, c)
  PROVE  <<x>> \o a = r
<1> DEFINE l == <<x>> \o a
<1>1. <<x>> \in Seq(S) /\ Len(<<x>>) = 1 /\ <<x>>[1] = x /\ Len(q) \in Nat
  OBVIOUS
<1>2. /\ p \in Seq(S) /\ Len(p) = Len(q) + 1 /\ p[1] = x
      /\ \A i \in 2..(Len(q) + 1) : p[i] = q[i - 1]
  BY <1>1, ConcatProperties
<1>4. /\ Len(a) = Len(q)
      /\ \A i \in 1..Len(q) : a[i] = IF i = 1 THEN c ELSE q[i]
  BY DEF Written
<1>5. /\ Len(r) = Len(p)
      /\ \A i \in 1..Len(p) : r[i] = IF i = 2 THEN c ELSE p[i]
  BY DEF Written
<1>6. /\ l \in Seq(S) /\ Len(l) = Len(a) + 1 /\ l[1] = x
      /\ \A i \in 2..(Len(a) + 1) : l[i] = a[i - 1]
  BY <1>1, <1>4, ConcatProperties
<1> HIDE DEF l
<1>7. ASSUME NEW i \in 1..Len(l) PROVE l[i] = r[i]
  <2>1. CASE i = 1
    BY <1>1, <1>2, <1>5, <1>6, <2>1
  <2>2. CASE i # 1
    <3>1. i \in 2..(Len(q) + 1) /\ i - 1 \in 1..Len(q)
          /\ (i = 2 <=> i - 1 = 1)
      BY <1>1, <1>4, <1>6, <2>2
    <3>2. l[i] = a[i - 1] /\ p[i] = q[i - 1] /\ i \in 1..Len(p)
      BY <1>1, <1>2, <1>4, <1>6, <3>1
    <3>3. a[i - 1] = IF i - 1 = 1 THEN c ELSE q[i - 1]
      BY <1>4, <3>1
    <3>4. r[i] = IF i = 2 THEN c ELSE p[i]
      BY <1>5, <3>2
    <3> QED BY <3>1, <3>2, <3>3, <3>4
  <2> QED BY <2>1, <2>2
<1>8. l = r
  BY <1>2, <1>4, <1>5, <1>6, <1>7, SeqEqual
<1> QED BY <1>8 DEF l

(* The start of a character, and the end of one or of a break.             *)
LEMMA TxSendView ==
  ASSUME NEW s, DOMAIN s = Fields, s.tx # <<>>, s.tx \in Seq(Chars)
  PROVE  LET t == uart_tx_send(s) IN
         /\ DOMAIN t = Fields /\ t.txsere = FALSE /\ t.wire = s.wire
         /\ t.txser = Head(s.tx) /\ t.tx = Tail(s.tx)
<1> DEFINE a == [s EXCEPT !.txser = Head(s.tx), !.tx = Tail(@),
                          !.txsere = FALSE]
           r == IF s.sbc THEN AddNow(a, "send_break")
                ELSE AddClks(a, "char_clock")
           v == [r EXCEPT !.txbufe = TRUE]
<1>1. /\ DOMAIN a = Fields /\ a.txsere = FALSE /\ a.wire = s.wire
      /\ a.txser = Head(s.tx) /\ a.tx = Tail(s.tx)
  BY DEF Fields
<1>2. uart_tx_send(s) = IF a.tx = <<>> THEN Raise(v, "thri") ELSE r
  BY DEF uart_tx_send
<1> HIDE DEF a
<1>3. TxSame(a, r)
  BY <1>1, TxSameBasics
<1> HIDE DEF r
<1>4. TxSame(r, v) /\ DOMAIN v = Fields
  BY <1>3 DEF TxSame, Fields
<1> HIDE DEF v
<1>5. TxSame(v, Raise(v, "thri"))
  BY <1>4, TxSameBasics
<1> QED BY <1>1, <1>2, <1>3, <1>4, <1>5 DEF TxSame

(* The queue seen by SerialTx when the transmitter takes its next          *)
(* character.                                                              *)
LEMMA TxNextView ==
  ASSUME NEW s, DOMAIN s = Fields, s.tx \in Seq(Chars)
  PROVE  LET t == TxNext(s) IN
         /\ DOMAIN t = Fields /\ t.wire = s.wire /\ QueueOf(t) = s.tx
         /\ s.tx = <<>> => t.txsere = TRUE
         /\ s.tx # <<>> => t.txsere = FALSE
<1> DEFINE t == TxNext(s)
           q == s.tx
<1>0. q \in Seq(Chars) /\ <<>> \o <<>> = <<>>
  BY ConcatEmptySeq
<1>1. CASE s.tx = <<>>
  <2>1. /\ DOMAIN t = Fields /\ t.wire = s.wire /\ t.txsere = TRUE
        /\ t.tx = <<>>
    BY <1>1 DEF TxNext, Fields
  <2> HIDE DEF t
  <2>2. QueueOf(t) = <<>>
    BY <1>0, <2>1 DEF QueueOf
  <2> QED BY <1>1, <2>1, <2>2 DEF t
<1>2. CASE s.tx # <<>>
  <2>1. /\ DOMAIN t = Fields /\ t.wire = s.wire /\ t.txsere = FALSE
        /\ t.txser = Head(q) /\ t.tx = Tail(q)
    BY <1>2, TxSendView DEF TxNext
  <2> HIDE DEF t
  <2>2. <<Head(q)>> \o Tail(q) = q
    <3> HIDE DEF q
    <3>1. q # <<>>
      BY <1>2 DEF q
    <3>2. Head(q) \in Chars
      BY <1>0, <3>1
    <3> QED BY <1>0, <3>1, <3>2, ShiftRegister
  <2>3. QueueOf(t) = q
    BY <2>1, <2>2 DEF QueueOf
  <2> QED BY <1>2, <2>1, <2>3 DEF t
<1> QED BY <1>1, <1>2

(* A step that leaves the transmitter alone is a stuttering step.          *)
LEMMA TxStutter == TxSame(u, u') => UNCHANGED Tx!tvars
  BY DEF TxSame, Tx!tvars

(* uart_reset(): nothing is on its way.                                    *)
LEMMA TxResetView ==
  ASSUME NEW k
  PROVE  LET t == uart_reset(k) IN
         /\ t.txsere = TRUE /\ t.wire = Nothing /\ t.tx = <<>>
<1> DEFINE s == Fresh(k)
<1>1. /\ DOMAIN s = Fields /\ s.txsere = TRUE /\ s.wire = Nothing
      /\ s.tx = <<>>
  BY DEF Fresh, Fields
<1> HIDE DEF s
<1>2. TxSame(s, uart_sched_recv_check(s))
  BY <1>1, TxSameBasics DEF uart_sched_recv_check, TxSame
<1> QED BY <1>1, <1>2 DEF TxSame, uart_reset, s

(* Writing TXBUF: the character is accepted, or the FIFO is full.          *)
LEMMA WriteTxbufSimulates ==
  ASSUME IInv, NEW c \in Chars, WriteTxbuf(c)
  PROVE  Tx!Accept \/ (TxFull /\ Tx!Misplace)
<1> DEFINE t == [u EXCEPT !.txbufe = FALSE]
           v == [t EXCEPT !.tx = Append(@, c)]
           w == [t EXCEPT !.tx[1] = c]
           m == IF u.tx = <<>> /\ u.txsere THEN AddNow(v, "tx_send") ELSE v
           r == IF Len(u.tx) < u.fifo_len THEN m ELSE w
           S == Chars \cup {Nothing}
           q == u.tx
           x == u.txser
<1>0. /\ DOMAIN u = Fields /\ q \in Seq(Chars) /\ x \in S /\ c \in S
      /\ u.fifo_len \in Nat \ {0} /\ u.txsere \in BOOLEAN
  BY DEF IInv, UInv, Typed, TxOK
<1>1. u' = uart_clear_int(r, "thri")
  BY DEF WriteTxbuf
<1>2. /\ DOMAIN v = Fields /\ v.tx = Append(q, c) /\ v.txser = x
      /\ v.txsere = u.txsere /\ v.wire = u.wire
  BY <1>0 DEF Fields
<1>3. /\ DOMAIN w = Fields /\ w.tx = [q EXCEPT ![1] = c] /\ w.txser = x
      /\ w.txsere = u.txsere /\ w.wire = u.wire
  BY <1>0 DEF Fields
<1> HIDE DEF v, w
<1>4. TxSame(v, m)
  BY <1>2, TxSameBasics DEF TxSame
<1>5. TxSame(r, u')
  <2>1. DOMAIN r = Fields
    BY <1>3, <1>4 DEF TxSame
  <2> HIDE DEF r
  <2> QED BY <1>1, <2>1, TxSameClear
<1>6. q \in Seq(S)
  <2> HIDE DEF q, S
  <2>1. Chars \subseteq S
    BY DEF S
  <2> QED BY <1>0, <2>1, SeqMonotonic
<1>7. /\ <<>> \o q = q
      /\ <<x>> \o Append(q, c) = Append(<<x>> \o q, c)
      /\ q # <<>> => <<x>> \o [q EXCEPT ![1] = c]
                       = [<<x>> \o q EXCEPT ![2] = c]
      /\ Len(<<x>> \o q) = Len(q) + 1
  <2> HIDE DEF q, x, S
  <2>1. q \in Seq(S) /\ x \in S /\ c \in S
    BY <1>0, <1>6
  <2>2. /\ <<>> \o q = q /\ Len(<<x>> \o q) = Len(q) + 1
        /\ <<x>> \o Append(q, c) = Append(<<x>> \o q, c)
    BY <2>1, ShiftRegister
  <2>3. q # <<>> => <<x>> \o [q EXCEPT ![1] = c]
                      = [<<x>> \o q EXCEPT ![2] = c]
    <3> DEFINE a == [q EXCEPT ![1] = c]
               p == <<x>> \o q
               z == [p EXCEPT ![2] = c]
    <3>1. ASSUME q # <<>> PROVE a \in Seq(S) /\ Written(a, q, 1, c)
      <4>1. 1 \in 1..Len(q)
        BY <2>1, <3>1
      <4> QED BY <2>1, <4>1, ExceptSeq DEF Written
    <3>2. ASSUME q # <<>> PROVE <<x>> \o a = z
      <4>1. p \in Seq(S) /\ Len(p) = Len(q) + 1
        BY <2>1, ConcatProperties
      <4>5. p = <<x>> \o q
        OBVIOUS
      <4> HIDE DEF p
      <4>2. 2 \in 1..Len(p)
        BY <2>1, <3>2, <4>1
      <4>3. z \in Seq(S) /\ Written(z, p, 2, c)
        BY <2>1, <4>1, <4>2, ExceptSeq DEF Written
      <4>4. a \in Seq(S) /\ Written(a, q, 1, c)
        BY <3>1, <3>2
      <4> HIDE DEF a, z
      <4> QED BY <2>1, <3>2, <4>3, <4>4, <4>5, ShiftOverwrite, ZenonT(60)
    <3> QED BY <3>2 DEF a, p, z
  <2> QED BY <2>2, <2>3
<1>8. CASE Len(u.tx) < u.fifo_len
  <2>1. r = m
    BY <1>8
  <2>2. /\ u'.tx = Append(q, c) /\ u'.txser = x /\ u'.txsere = u.txsere
        /\ u'.wire = u.wire
    BY <1>2, <1>4, <1>5, <2>1 DEF TxSame
  <2>3. <<>> \o Append(q, c) = Append(q, c)
    <3> HIDE DEF q, S
    <3>1. Append(q, c) \in Seq(S)
      BY <1>0, <1>6, AppendProperties
    <3> QED BY <3>1, ConcatEmptySeq
  <2>4. QueueOf(u') = Append(QueueOf(u), c)
    <3>1. CASE u.txsere = TRUE
      BY <1>7, <2>2, <2>3, <3>1 DEF QueueOf
    <3>2. CASE u.txsere = FALSE
      BY <1>7, <2>2, <3>2 DEF QueueOf
    <3> QED BY <1>0, <3>1, <3>2
  <2>5. Tx!Accept
    BY <2>2, <2>4 DEF Tx!Accept, QueueOf
  <2> QED BY <2>5
<1>9. CASE ~(Len(u.tx) < u.fifo_len)
  <2>1. r = w
    BY <1>9
  <2>2. /\ u'.tx = [q EXCEPT ![1] = c] /\ u'.txser = x
        /\ u'.txsere = u.txsere /\ u'.wire = u.wire
    BY <1>3, <1>5, <2>1 DEF TxSame
  <2>3. q # <<>> /\ Len(q) \in Nat /\ 1 <= Len(q)
    <3>1. Len(q) >= u.fifo_len /\ Len(q) \in Nat
      BY <1>0, <1>9
    <3>2. Len(q) >= 1
      BY <1>0, <3>1
    <3> QED BY <3>1, <3>2
  <2>4. <<>> \o [q EXCEPT ![1] = c] = [q EXCEPT ![1] = c]
    <3> HIDE DEF q, S
    <3>1. [q EXCEPT ![1] = c] \in Seq(S)
      BY <1>0, <1>6, <2>3, ExceptSeq
    <3> QED BY <3>1, ConcatEmptySeq
  <2>7. TxFull
    BY <1>0, <1>9 DEF TxFull
  <2>5. CASE u.txsere = TRUE
    <3>1. QueueOf(u) = q /\ QueueOf(u') = [q EXCEPT ![1] = c]
      BY <1>7, <2>2, <2>4, <2>5 DEF QueueOf
    <3>2. Tx!Misplace
      BY <2>2, <2>3, <2>5, <3>1 DEF Tx!Misplace, QueueOf
    <3> QED BY <2>7, <3>2
  <2>6. CASE u.txsere = FALSE
    <3>1. /\ QueueOf(u) = <<x>> \o q
          /\ QueueOf(u') = [<<x>> \o q EXCEPT ![2] = c]
      BY <1>7, <2>2, <2>3, <2>6 DEF QueueOf
    <3>2. 2 <= Len(QueueOf(u))
      BY <1>7, <2>3, <3>1
    <3>3. Tx!Misplace
      BY <2>2, <2>6, <3>1, <3>2 DEF Tx!Misplace, QueueOf
    <3> QED BY <2>7, <3>3
  <2> QED BY <1>0, <2>5, <2>6
<1> QED BY <1>8, <1>9

(* Writing FCR: the FIFO is flushed, or nothing happens to it.             *)
LEMMA WriteFcrSimulates ==
  ASSUME IInv, NEW fie, NEW rrx, NEW rtx, NEW level,
         WriteFcr(fie, rrx, rtx, level)
  PROVE  Tx!Flush \/ UNCHANGED Tx!tvars
<1> DEFINE change == fie # (u.fifo_len # 1)
           t == [u EXCEPT !.trigger = level,
                          !.fifo_len = IF fie THEN FIFO ELSE 1]
           e == [t EXCEPT !.tx = <<>>, !.txbufe = TRUE]
           x == IF fie THEN Raise(e, "thri") ELSE e
           r == IF rtx \/ change THEN Unsched(x, "tx_send") ELSE t
           d == [r EXCEPT !.rx = <<>>, !.rdrdy = FALSE]
           f1 == uart_clear_int(d, "rdi")
           f2 == uart_clear_int(f1, "cti")
           q == u.tx
           c == u.txser
           S == Chars \cup {Nothing}
<1>0. /\ DOMAIN u = Fields /\ q \in Seq(Chars) /\ c \in S
      /\ u.txsere \in BOOLEAN
  BY DEF IInv, UInv, Typed, TxOK
<1>1. u' = IF rrx \/ change THEN f2 ELSE r
  BY DEF WriteFcr
<1>2. TxSame(u, t)
  BY <1>0 DEF TxSame, Fields
<1>3. /\ DOMAIN e = Fields /\ e.tx = <<>> /\ e.txser = c
      /\ e.txsere = u.txsere /\ e.wire = u.wire
  BY <1>0 DEF Fields
<1> HIDE DEF t, e, change
<1>4. TxSame(e, x)
  BY <1>3, TxSameBasics DEF TxSame
<1> HIDE DEF x
<1>5. TxSame(x, Unsched(x, "tx_send"))
  <2>1. DOMAIN x = Fields
    BY <1>4 DEF TxSame
  <2> QED BY <2>1, TxSameBasics
<1>6. /\ DOMAIN r = Fields /\ r.tx \in {<<>>, q} /\ r.txser = c
      /\ r.txsere = u.txsere /\ r.wire = u.wire
  BY <1>2, <1>3, <1>4, <1>5 DEF TxSame
<1> HIDE DEF r
<1>7. TxSame(r, d)
  BY <1>6 DEF TxSame, Fields
<1> HIDE DEF d
<1>8. TxSame(d, f1)
  BY <1>7, TxSameClear DEF TxSame
<1> HIDE DEF f1
<1>9. TxSame(f1, f2)
  BY <1>8, TxSameClear DEF TxSame
<1> HIDE DEF f2
<1>10. /\ u'.tx \in {<<>>, q} /\ u'.txser = c /\ u'.txsere = u.txsere
       /\ u'.wire = u.wire
  BY <1>1, <1>6, <1>7, <1>8, <1>9 DEF TxSame
<1>11. CASE u'.tx = q
  BY <1>10, <1>11 DEF Tx!tvars
<1>12. CASE u'.tx = <<>>
  <2>1. <<>> \o <<>> = <<>> /\ <<c>> \o <<>> = <<c>>
    <3> HIDE DEF c, S
    <3>1. <<c>> \in Seq(S) /\ <<>> \in Seq(S)
      BY <1>0
    <3> QED BY <3>1, ConcatEmptySeq
  <2>2. Head(<<c>> \o q) = c
    <3> HIDE DEF c, q, S
    <3>1. q \in Seq(S)
      <4>1. Chars \subseteq S
        BY DEF S
      <4> QED BY <1>0, <4>1, SeqMonotonic
    <3> QED BY <1>0, <3>1, ShiftRegister
  <2>3. CASE u.txsere = TRUE
    <3>1. Tx!Flush
      BY <1>10, <1>12, <2>1, <2>3 DEF Tx!Flush
    <3> QED BY <3>1
  <2>4. CASE u.txsere = FALSE
    <3>1. Tx!Flush
      BY <1>10, <1>12, <2>1, <2>2, <2>4 DEF Tx!Flush
    <3> QED BY <3>1
  <2> QED BY <1>0, <2>3, <2>4
<1> QED BY <1>10, <1>11, <1>12

(* A job runs: it starts or ends a character, ends a break, or leaves the  *)
(* transmitter alone.                                                      *)
LEMMA JobSimulates ==
  ASSUME IInv, NEW f \in JobFuncs, NEW s, NEW t \in RunFunc(s, f),
         TxSame(u, s), u' = Scheduled(t),
         Has(u.ready, f) \/ u.timed[f] > 0
  PROVE  Tx!Shift \/ Tx!Send \/ UNCHANGED Tx!tvars
<1> DEFINE q == u.tx
           x == u.txser
           S == Chars \cup {Nothing}
<1>0. /\ q \in Seq(Chars) /\ x \in S /\ u.txsere \in BOOLEAN
      /\ DOMAIN s = Fields /\ s.tx = q /\ s.txser = x
      /\ s.txsere = u.txsere /\ s.wire = u.wire
      /\ TxOK(u) /\ u.timed \in [JobFuncs -> Nat]
  BY DEF IInv, UInv, Typed, TxOK, TxSame
<1>1. q \in Seq(S)
  <2> HIDE DEF q, S
  <2>1. Chars \subseteq S
    BY DEF S
  <2> QED BY <1>0, <2>1, SeqMonotonic
<1>2. /\ <<>> \o q = q /\ <<x>> \o q # <<>> /\ Head(<<x>> \o q) = x
      /\ Tail(<<x>> \o q) = q
      /\ q # <<>> => <<Head(q)>> \o Tail(q) = q
  <2> HIDE DEF q, x, S
  <2> QED BY <1>0, <1>1, ShiftRegister
<1>3. CASE f \in {"char_clock", "send_break"}
  <2> DEFINE a == IF f = "char_clock" THEN send_char(s)
                  ELSE [s EXCEPT !.wire = Break]
  <2>1. u.txsere = FALSE
    <3>1. CASE u.txsere = TRUE
      <4>1. /\ u.timed["char_clock"] = 0 /\ u.timed["send_break"] = 0
            /\ ~Has(u.ready, "char_clock") /\ ~Has(u.ready, "send_break")
        BY <1>0, <3>1 DEF TxOK
      <4> QED BY <1>3, <4>1
    <3> QED BY <1>0, <3>1
  <2>2. t = TxNext(a)
    BY <1>3 DEF RunFunc, uart_char_clock, uart_send_break
  <2>3. DOMAIN a = Fields /\ a.tx = q /\ a.wire \in {x, Break}
    BY <1>0 DEF send_char, Fields
  <2> HIDE DEF a
  <2>4. /\ DOMAIN t = Fields /\ t.wire = a.wire /\ QueueOf(t) = q
        /\ q = <<>> => t.txsere = TRUE
        /\ q # <<>> => t.txsere = FALSE
    BY <1>0, <2>2, <2>3, TxNextView
  <2>5. TxSame(t, u')
    BY <2>4, TxSameReceive
  <2>6. /\ u'.wire \in {x, Break} /\ QueueOf(u') = q
        /\ q = <<>> => u'.txsere = TRUE
        /\ q # <<>> => u'.txsere = FALSE
    BY <2>3, <2>4, <2>5 DEF TxSame, QueueOf
  <2>7. QueueOf(u) = <<x>> \o q
    BY <2>1 DEF QueueOf
  <2>8. /\ u'.wire \in {Head(QueueOf(u)), Break}
        /\ QueueOf(u') = Tail(QueueOf(u))
        /\ (~u'.txsere) = (QueueOf(u') # <<>>)
    BY <1>2, <2>6, <2>7
  <2>9. Tx!Send
    BY <2>1, <2>8 DEF Tx!Send, QueueOf
  <2> QED BY <2>9
<1>4. CASE f = "tx_send"
  <2>1. /\ u.timed["tx_send"] = 0
        /\ u.txsere = FALSE => ~Has(u.ready, "tx_send")
    BY <1>0 DEF TxOK
  <2>2. Has(u.ready, "tx_send") /\ u.txsere = TRUE
    BY <1>0, <1>4, <2>1
  <2>3. q # <<>>
    <3>1. u.tx = <<>> => ~Has(u.ready, "tx_send")
      BY <1>0, <2>2 DEF TxOK
    <3> QED BY <2>2, <3>1
  <2>4. t = uart_tx_send(s)
    BY <1>4 DEF RunFunc
  <2>5. /\ DOMAIN t = Fields /\ t.txsere = FALSE /\ t.wire = s.wire
        /\ t.txser = Head(s.tx) /\ t.tx = Tail(s.tx)
    BY <1>0, <2>3, <2>4, TxSendView
  <2>6. TxSame(t, u')
    BY <2>5, TxSameReceive
  <2>7. /\ u'.txsere = FALSE /\ u'.wire = u.wire /\ u'.txser = Head(q)
        /\ u'.tx = Tail(q)
    BY <1>0, <2>5, <2>6 DEF TxSame
  <2>8. QueueOf(u) = q /\ QueueOf(u') = q
    BY <1>2, <2>2, <2>3, <2>7 DEF QueueOf
  <2>9. Tx!Shift
    BY <2>2, <2>3, <2>7, <2>8 DEF Tx!Shift, QueueOf
  <2> QED BY <2>9
<1>5. CASE f \notin {"char_clock", "send_break", "tx_send"}
  <2>1. TxSame(s, t)
    <3>1. CASE f = "int_cti"
      <4>1. t = Raise(s, "cti")
        BY <3>1 DEF RunFunc
      <4> QED BY <1>0, <4>1, TxSameBasics
    <3>2. CASE f = "recv_char"
      BY <1>0, <3>2, TxSameReceive DEF RunFunc
    <3>3. CASE f = "recv_break"
      BY <1>0, <3>3, TxSameReceive DEF RunFunc, uart_recv_break
    <3>4. CASE f = "recv_break_start"
      BY <1>0, <3>4, TxSameReceive DEF RunFunc
    <3>5. CASE f = "recv_break_stop"
      BY <1>0, <3>5, TxSameReceive DEF RunFunc
    <3>6. CASE f = "check_char"
      <4>1. t \in CheckChar(s)
        BY <3>6 DEF RunFunc
      <4> QED BY <1>0, <4>1, TxSameReceive
    <3>7. CASE f = "vapi_cmd"
      BY <1>0, <3>7, TxSameReceive DEF RunFunc
    <3> QED BY <1>5, <3>1, <3>2, <3>3, <3>4, <3>5, <3>6, <3>7 DEF JobFuncs
  <2>2. TxSame(t, u')
    BY <2>1, TxSameReceive DEF TxSame
  <2>3. TxSame(u, u')
    BY <2>1, <2>2, TxSameTrans
  <2> QED BY <2>3, TxStutter
<1> QED BY <1>3, <1>4, <1>5

(* Every step of the UART is a step of the serial line, leaves it alone or *)
(* is a write to a full FIFO.                                              *)
LEMMA TxStepSimulates ==
  IInv /\ [Next]_u => [Tx!Next \/ (TxFull /\ Tx!Misplace)]_(Tx!tvars)
<1> SUFFICES ASSUME IInv, [Next]_u
             PROVE  \/ Tx!Next \/ (TxFull /\ Tx!Misplace)
                    \/ UNCHANGED Tx!tvars
  OBVIOUS
<1>0. DOMAIN u = Fields /\ u.use \in DOMAIN Uses
      /\ u.ready \in Seq(JobFuncs) /\ u.timed \in [JobFuncs -> Nat]
  BY DEF IInv, UInv, Typed
<1>1. ASSUME NEW z, WriteDll(z) \/ WriteDlh(z) PROVE UNCHANGED Tx!tvars
  <2>1. TxSame(u, u')
    BY <1>0, <1>1, ZenonT(60) DEF WriteDll, WriteDlh, TxSame, Fields
  <2> QED BY <2>1, TxStutter
<1>2. ASSUME NEW c \in Use(u).sends, WriteTxbuf(c)
      PROVE  Tx!Next \/ (TxFull /\ Tx!Misplace)
  <2>1. c \in Chars
    BY <1>0, UartAssumption DEF Use
  <2> QED BY <1>2, <2>1, WriteTxbufSimulates DEF Tx!Next
<1>3. ASSUME NEW fie, NEW rrx, NEW rtx, NEW l, WriteFcr(fie, rrx, rtx, l)
      PROVE  Tx!Next \/ UNCHANGED Tx!tvars
  BY <1>3, WriteFcrSimulates DEF Tx!Next
<1>4. ASSUME NEW v, WriteIer(v) PROVE UNCHANGED Tx!tvars
  <2> DEFINE a == [u EXCEPT !.ier = v]
  <2>1. TxSame(u, a) /\ u' = uart_next_int(a)
    BY <1>0, <1>4 DEF WriteIer, TxSame, Fields
  <2> HIDE DEF a
  <2>2. TxSame(a, u')
    BY <2>1, TxSameBasics DEF TxSame
  <2> QED BY <2>1, <2>2, TxSameTrans, TxStutter
<1>5. ASSUME NEW sbc, NEW dlab, WriteLcr(sbc, dlab) PROVE UNCHANGED Tx!tvars
  <2> DEFINE a == Unsched(u, "char_clock")
             b == AddNow(u, "tx_send")
             t == IF sbc /\ ~u.sbc /\ ~u.txsere THEN AddNow(a, "send_break")
                  ELSE IF ~sbc /\ u.sbc /\ ~u.txsere
                       THEN Unsched(b, "char_clock")
                  ELSE u
  <2>1. u' = [t EXCEPT !.sbc = sbc, !.dlab = dlab, !.clks = u.dll \/ u.dlh]
    BY <1>5 DEF WriteLcr
  <2>2. TxSame(u, a) /\ TxSame(u, b) /\ TxSame(u, u)
    BY <1>0, TxSameBasics DEF TxSame
  <2> HIDE DEF a, b
  <2>3. DOMAIN a = Fields /\ DOMAIN b = Fields
    BY <2>2 DEF TxSame
  <2>4. TxSame(a, AddNow(a, "send_break")) /\ TxSame(b, Unsched(b, "char_clock"))
    BY <2>3, TxSameBasics
  <2>5. TxSame(u, t)
    BY <2>2, <2>4, TxSameTrans
  <2> HIDE DEF t
  <2>6. TxSame(t, u')
    BY <2>1, <2>5 DEF TxSame, Fields
  <2> QED BY <2>5, <2>6, TxSameTrans, TxStutter
<1>6. ASSUME NEW v, WriteMcr(v) PROVE UNCHANGED Tx!tvars
  <2> DEFINE a == [u EXCEPT !.mcr = v]
  <2>1. TxSame(u, a) /\ u' = uart_loopback(a)
    BY <1>0, <1>6 DEF WriteMcr, TxSame, Fields
  <2> HIDE DEF a
  <2>2. TxSame(a, u')
    BY <2>1, TxSameReceive DEF TxSame
  <2> QED BY <2>1, <2>2, TxSameTrans, TxStutter
<1>7. ASSUME ReadRxbuf PROVE UNCHANGED Tx!tvars
  <2> DEFINE t == IF u.rx = <<>> THEN u ELSE [u EXCEPT !.rx = Tail(@)]
             b == uart_clear_int(t, "rdi")
             r == uart_clear_int(b, "cti")
             more == [r EXCEPT !.rdrdy = TRUE, !.err = @ \/ r.rx[1].err]
             none == [r EXCEPT !.rdrdy = FALSE]
             m1 == AddClks(more, "int_cti")
             m2 == uart_check_rlsi(m1)
             m3 == uart_check_rdi(m2)
  <2>1. u' = IF r.rx = <<>> THEN none ELSE m3
    BY <1>7 DEF ReadRxbuf
  <2>2. TxSame(u, t)
    BY <1>0 DEF TxSame, Fields
  <2> HIDE DEF t
  <2>3. TxSame(t, b)
    BY <2>2, TxSameClear DEF TxSame
  <2> HIDE DEF b
  <2>4. TxSame(b, r)
    BY <2>3, TxSameClear DEF TxSame
  <2> HIDE DEF r
  <2>5. TxSame(r, more) /\ TxSame(r, none)
    BY <2>4 DEF TxSame, Fields
  <2> HIDE DEF more, none
  <2>6. TxSame(more, m1)
    <3>1. DOMAIN more = Fields
      BY <2>5 DEF TxSame
    <3> QED BY <3>1, TxSameBasics
  <2> HIDE DEF m1
  <2>7. TxSame(m1, m2)
    <3>1. DOMAIN m1 = Fields
      BY <2>6 DEF TxSame
    <3> QED BY <3>1, TxSameBasics
  <2> HIDE DEF m2
  <2>8. TxSame(m2, m3)
    <3>1. DOMAIN m2 = Fields
      BY <2>7 DEF TxSame
    <3> QED BY <3>1, TxSameBasics
  <2> HIDE DEF m3
  <2>9. TxSame(u, u')
    BY <2>1, <2>2, <2>3, <2>4, <2>5, <2>6, <2>7, <2>8 DEF TxSame
  <2> QED BY <2>9, TxStutter
<1>8. ASSUME ReadIir \/ ReadLsr \/ ReadMsr PROVE UNCHANGED Tx!tvars
  <2> DEFINE a == [u EXCEPT !.err = FALSE]
             b == [u EXCEPT !.msr = {}, !.delta = {}]
             c == uart_clear_int(b, "msi")
  <2>1. TxSame(u, a) /\ TxSame(u, b) /\ TxSame(u, u)
    BY <1>0 DEF TxSame, Fields
  <2>2. u' \in {u, uart_clear_int(u, "thri"), uart_clear_int(a, "rlsi"),
                uart_loopback(c)}
    BY <1>8 DEF ReadIir, ReadLsr, ReadMsr
  <2> HIDE DEF a, b
  <2>3. DOMAIN a = Fields /\ DOMAIN b = Fields
    BY <2>1 DEF TxSame
  <2>4. /\ TxSame(u, uart_clear_int(u, "thri"))
        /\ TxSame(a, uart_clear_int(a, "rlsi")) /\ TxSame(b, c)
    BY <1>0, <2>3, TxSameClear
  <2> HIDE DEF c
  <2>5. TxSame(c, uart_loopback(c))
    BY <2>4, TxSameReceive DEF TxSame
  <2>6. TxSame(u, u')
    BY <2>1, <2>2, <2>4, <2>5, TxSameTrans
  <2> QED BY <2>6, TxStutter
<1>9. ASSUME Reset PROVE Tx!Next
  <2>1. u'.txsere = TRUE /\ u'.wire = Nothing /\ u'.tx = <<>>
    BY <1>9, TxResetView DEF Reset
  <2>2. <<>> \o <<>> = <<>>
    BY ConcatEmptySeq
  <2>3. Tx!Reset
    BY <2>1, <2>2 DEF Tx!Reset, Tx!Init
  <2> QED BY <2>3 DEF Tx!Next
<1>10. ASSUME NEW cmd, VapiRead(cmd) PROVE UNCHANGED Tx!tvars
  <2> DEFINE t == [u EXCEPT !.buf = Append(@, cmd), !.jobs = FALSE]
             d == [t EXCEPT !.dead = TRUE]
  <2>1. TxSame(u, t) /\ TxSame(u, d)
    BY <1>0 DEF TxSame, Fields
  <2>2. u' \in {d, t, Call(t, "top")}
    BY <1>10 DEF VapiRead
  <2> HIDE DEF t, d
  <2>3. DOMAIN t = Fields
    BY <2>1 DEF TxSame
  <2>4. TxSame(t, Call(t, "top"))
    BY <2>3, TxSameReceive
  <2>5. TxSame(u, u')
    BY <2>1, <2>2, <2>4, TxSameTrans
  <2> QED BY <2>5, TxStutter
<1>11. ASSUME VapiCmd PROVE UNCHANGED Tx!tvars
  <2> DEFINE cmd == Head(u.buf)
             t == [u EXCEPT !.buf = Tail(@)]
  <2>1. TxSame(u, t)
    BY <1>0 DEF TxSame, Fields
  <2>2. u.buf = <<>> => u' = Ret(u)
    BY <1>11 DEF VapiCmd
  <2>3. u.buf # <<>> =>
          u' \in {VapiData(t, cmd), uart_recv_break_start(t),
                  uart_recv_break_stop(t), AddTimed(t, "recv_break_start"),
                  AddTimed(t, "recv_break_stop")}
    <3>1. ASSUME u.buf # <<>>
          PROVE  cmd.op \in {"data", "start", "stop", "start_later",
                             "stop_later"}
      <4> DEFINE q == u.buf
      <4>1. q \in Seq(Commands) /\ q # <<>>
        BY <3>1 DEF IInv, UInv, Typed
      <4>2. cmd = Head(q)
        OBVIOUS
      <4> HIDE DEF q, cmd
      <4>3. cmd \in Commands
        BY <4>1, <4>2
      <4> QED BY <4>3 DEF Commands
    <3> QED BY <1>11, <3>1 DEF VapiCmd
  <2> HIDE DEF t, cmd
  <2>4. DOMAIN t = Fields
    BY <2>1 DEF TxSame
  <2>5. /\ TxSame(u, Ret(u)) /\ TxSame(t, VapiData(t, cmd))
        /\ TxSame(t, uart_recv_break_start(t))
        /\ TxSame(t, uart_recv_break_stop(t))
    BY <1>0, <2>4, TxSameReceive
  <2>6. /\ TxSame(t, AddTimed(t, "recv_break_start"))
        /\ TxSame(t, AddTimed(t, "recv_break_stop"))
    BY <2>4, TxSameBasics
  <2>7. TxSame(u, u')
    BY <2>1, <2>2, <2>3, <2>5, <2>6, TxSameTrans
  <2> QED BY <2>7, TxStutter
<1>12. ASSUME RunReady PROVE Tx!Next \/ UNCHANGED Tx!tvars
  <2> DEFINE s == [u EXCEPT !.ready = Tail(@)]
             f == Head(u.ready)
  <2>1. PICK t \in RunFunc(s, f) : u' = Scheduled(t)
    BY <1>12 DEF RunReady
  <2>2. TxSame(u, s)
    BY <1>0 DEF TxSame, Fields
  <2>3. f \in JobFuncs /\ Has(u.ready, f)
    <3>1. u.ready # <<>>
      BY <1>12 DEF RunReady
    <3> QED BY <1>0, <3>1, TailJob
  <2> HIDE DEF s, f
  <2> QED BY <2>1, <2>2, <2>3, JobSimulates DEF Tx!Next
<1>13. ASSUME NEW f \in JobFuncs, RunTimed(f)
       PROVE  Tx!Next \/ UNCHANGED Tx!tvars
  <2> DEFINE s == [u EXCEPT !.timed[f] = @ - 1]
  <2>1. PICK t \in RunFunc(s, f) : u' = Scheduled(t)
    BY <1>13 DEF RunTimed
  <2>2. TxSame(u, s)
    BY <1>0 DEF TxSame, Fields
  <2>3. u.timed[f] > 0
    BY <1>13 DEF RunTimed
  <2> HIDE DEF s
  <2> QED BY <2>1, <2>2, <2>3, JobSimulates DEF Tx!Next
<1>14. ASSUME UNCHANGED u PROVE UNCHANGED Tx!tvars
  BY <1>14 DEF Tx!tvars
<1> QED BY <1>1, <1>2, <1>3, <1>4, <1>5, <1>6, <1>7, <1>8, <1>9, <1>10,
           <1>11, <1>12, <1>13, <1>14 DEF Next

(* The UART implements the serial line: whatever is written, reset, broken *)
(* off or looped back, the characters that software writes leave in order, *)
(* each at most once, and one is lost only by a FIFO reset, a break or a   *)
(* reset of the simulation, as long as software never writes to a full     *)
(* FIFO.  If it does, the new character replaces the oldest that waits.    *)
THEOREM UartSendsInOrder == Spec => TxInOrder
<1>1. Init => Tx!Init
  <2> SUFFICES ASSUME NEW k \in DOMAIN Uses, u = uart_reset(k)
               PROVE  Tx!Init
    BY DEF Init
  <2>1. u.txsere = TRUE /\ u.wire = Nothing /\ u.tx = <<>>
    BY TxResetView
  <2>2. <<>> \o <<>> = <<>>
    BY ConcatEmptySeq
  <2> QED BY <2>1, <2>2 DEF Tx!Init
<1>2. []IInv /\ [][Next]_u =>
        [][Tx!Next \/ (TxFull /\ Tx!Misplace)]_(Tx!tvars)
  BY TxStepSimulates, PTL
<1>3. Spec => /\ Tx!Init
              /\ [][Tx!Next \/ (TxFull /\ Tx!Misplace)]_(Tx!tvars)
  BY <1>1, <1>2, InvariantHolds, PTL DEF Spec
<1> QED BY <1>3 DEF TxInOrder
=============================================================================
