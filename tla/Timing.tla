------------------------------- MODULE Timing -------------------------------
(***************************************************************************)
(* What only the count of cycles and the statistics depend on: the store   *)
(* buffer, branch prediction and the performance counters.                 *)
(*                                                                         *)
(* The store buffer (sbuf_store() and sbuf_load() of cpu/or32/execute.c,   *)
(* called by l.sw, l.sb, l.sh and the loads of insnset.c): a store costs   *)
(* the processor nothing until the buffer is full, and a load waits for    *)
(* all stores.  The buffer is a ring; buf[tail] holds the cycles that the  *)
(* oldest store still needs, counted from "prev".  History: "ends" are the *)
(* cycles at which the stores of the buffer are complete when each one     *)
(* starts as soon as the one before it has ended, "last" the latest of     *)
(* all, and "due" the cycles that the latest access had to wait by that    *)
(* account; "done" is TRUE when the instruction has made its access.       *)
(*                                                                         *)
(* The branch prediction buffer and the branch target cache                *)
(* (bpb/branch-predict.c), whose statistics are left out, and the          *)
(* performance counters (pcu/pcu.c).  One set of each cache is modelled:   *)
(* a set is chosen by the address and never touches another.  Address 0 is *)
(* what the tables hold before their first use.  History: "recent" are the *)
(* last two target addresses used, the latest first, and "last" the        *)
(* direction of the latest branch.                                         *)
(***************************************************************************)
EXTENDS Device

CONSTANTS
  SBUF_LEN,       \* config.cpu.sbuf_len
  MAX_SBUF_LEN,   \* slots of the ring
  StoreCycles,    \* cycles that a store may take
  SBUF_IDLE,      \* bound: cycles between two accesses
  SBUF_MAX        \* bound: cycles of a behaviour

ASSUME SbufAssumption ==
  /\ SBUF_LEN \in Nat \ {0} /\ MAX_SBUF_LEN \in Nat /\ MAX_SBUF_LEN > SBUF_LEN
  /\ StoreCycles \subseteq Nat /\ SBUF_IDLE \in Nat

SbufInit ==
  dev = [kind |-> "sbuf", cycles |-> 0, mem_cycles |-> 0, prev |-> 0,
         buf |-> [i \in 0 .. MAX_SBUF_LEN - 1 |-> 0], head |-> 0, tail |-> 0,
         count |-> 0, ends |-> << >>, last |-> 0, due |-> 0, done |-> FALSE]

Ring(i) == (i + 1) % MAX_SBUF_LEN

(* The stores that ended since the latest access leave the buffer; the one *)
(* that is under way has the rest to go.                                   *)
Drain(s) ==
  LET from(i) == (s.tail + i) % MAX_SBUF_LEN
      left[i \in 0 .. s.count] ==
        IF i = 0 THEN s.cycles - s.prev ELSE left[i - 1] - s.buf[from(i - 1)]
      gone == CHOOSE n \in 0 .. s.count :
                /\ \A i \in 1 .. n : left[i] >= 0
                /\ n < s.count => left[n + 1] < 0
      t == from(gone)
  IN  [s EXCEPT !.prev = s.cycles, !.tail = t, !.count = @ - gone,
                !.buf[t] = IF gone < s.count THEN @ - left[gone] ELSE @]

(* The processor waits for the oldest store.                               *)
WaitOne(s) ==
  [s EXCEPT !.mem_cycles = @ + s.buf[s.tail], !.prev = @ + s.buf[s.tail],
            !.tail = Ring(@), !.count = @ - 1]
SbufFullLate(s) == s.count > SBUF_LEN
SbufFull(s) == s.count >= SBUF_LEN
Put(s, cyc) ==
  [s EXCEPT !.buf[s.head] = cyc, !.head = Ring(@), !.count = @ + 1]

sbuf_store(s, cyc) ==
  LET d == Drain(s)
  IN  Put(IF SbufFull(d) THEN WaitOne(d) ELSE d, cyc)

sbuf_load(s) ==
  LET d == Drain(s)
      w[n \in 0 .. d.count] == IF n = 0 THEN d ELSE WaitOne(w[n - 1])
  IN  w[d.count]

(* The history: a store starts when it is in the buffer and the one before *)
(* it has ended; so they end in the order in which they were made.         *)
Later(x, y) == IF x > y THEN x ELSE y
Ended(ends, now) == Cardinality({i \in DOMAIN ends : ends[i] <= now})
StoreNoted(s, cyc) ==
  LET pending == SubSeq(s.ends, Ended(s.ends, s.cycles) + 1, Len(s.ends))
      full == Len(pending) >= SBUF_LEN
      now == IF full THEN Head(pending) ELSE s.cycles
      end == Later(s.last, now) + cyc
  IN  [s EXCEPT !.ends = Append(IF full THEN Tail(pending) ELSE pending, end),
                !.last = end, !.due = now - s.cycles, !.done = TRUE]
LoadNoted(s) ==
  [s EXCEPT !.ends = << >>, !.due = Later(s.last, s.cycles) - s.cycles,
            !.done = TRUE]

(* l.sw, l.sb and l.sh: the cycles of the memory go to the buffer.         *)
l_sw ==
  /\ Is("sbuf") /\ ~ dev.done /\ dev.cycles < SBUF_MAX
  /\ \E cyc \in StoreCycles : dev' = sbuf_store(StoreNoted(dev, cyc), cyc)
SbufLoad ==
  /\ Is("sbuf") /\ ~ dev.done /\ dev.cycles < SBUF_MAX
  /\ dev' = sbuf_load(LoadNoted(dev))
(* The main loop adds what the access cost; other instructions run.        *)
SbufTime ==
  /\ Is("sbuf") /\ dev.cycles < SBUF_MAX
  /\ \E n \in 1 .. SBUF_IDLE :
       dev' = [dev EXCEPT !.cycles = @ + dev.mem_cycles + n, !.mem_cycles = 0,
                          !.due = 0, !.done = FALSE]

SbufNext == l_sw \/ SbufLoad \/ SbufTime

(* The processor waits exactly as long as a queue of stores makes it wait  *)
(* that runs one after the other: the buffer's relative times never lose   *)
(* or repeat a cycle, and a slot is never used twice.                      *)
SbufExact ==
  Is("sbuf") => /\ dev.mem_cycles = dev.due
                /\ dev.count <= SBUF_LEN
                /\ dev.head = (dev.tail + dev.count) % MAX_SBUF_LEN
-----------------------------------------------------------------------------
CONSTANTS
  BTIC_WAYS,      \* ways of the branch target cache
  BTIC_USTATES,   \* usage states of a way
  BPB_PSTATES,    \* prediction states of a branch
  Targets,        \* addresses of branches and of targets in the set, from 1
  PREDICT_MAX     \* bound: events of the performance counter

ASSUME PredictAssumption ==
  BTIC_WAYS \in Nat \ {0} /\ BTIC_USTATES \in Nat \ {0, 1} /\ BPB_PSTATES \in Nat \ {0, 1}

BticWays == 0 .. (BTIC_WAYS - 1)

PredictInit ==
  \E bpb, btic, pcu \in BOOLEAN :
    dev = [kind |-> "predict", bpb_enabled |-> bpb, btic_enabled |-> btic,
           pcu_enabled |-> pcu,
           way |-> [w \in BticWays |-> [addr |-> 0, lru |-> 0]],
           bpb |-> [addr |-> 0, taken |-> 0], recent |-> << >>,
           last |-> 0, mode |-> "SM", PCMR |-> {}, PCCR |-> 0]
-----------------------------------------------------------------------------
(* Every way that is not 0 ages, and the way used becomes the youngest.    *)
Use(way, w) ==
  [v \in BticWays |->
     [way[v] EXCEPT !.lru = IF v = w THEN BTIC_USTATES - 1
                            ELSE IF @ > 0 THEN @ - 1 ELSE 0]]

(* The scan does not lower its minimum: it ends with the last way below    *)
(* the youngest state, and with way 0 if there is none.                    *)
MinWay(way) ==
  LET old == {w \in BticWays : way[w].lru < BTIC_USTATES - 1}
  IN  IF old = {} THEN 0 ELSE CHOOSE w \in old : \A v \in old : v <= w

btic_update(s, a) ==
  LET hits == {w \in BticWays : s.way[w].addr = a}
      w == IF hits # {} THEN CHOOSE x \in hits : \A v \in hits : v <= x
           ELSE MinWay(s.way)
  IN  [s EXCEPT !.way = Use([@ EXCEPT ![w].addr = a], w),
                !.recent = IF @ = << >> THEN <<a>>
                           ELSE IF Head(@) = a THEN @ ELSE <<a, Head(@)>>]

(* The buffer has one way; "taken" saturates.                              *)
bpb_update(s, a, taken) ==
  LET old == s.bpb.taken
  IN  [s EXCEPT !.bpb =
         [addr |-> a,
          taken |-> IF s.bpb.addr # a THEN (BPB_PSTATES \div 2 - 1) + taken
                    ELSE IF taken = 1
                    THEN IF old < BPB_PSTATES - 1 THEN old + 1 ELSE old
                    ELSE IF old > 0 THEN old - 1 ELSE 0]]

(* l_bf() and l_bnf(): the direction of the branch, and its target.        *)
PredictBranch ==
  /\ Is("predict")
  /\ \E a, t \in Targets, taken \in {0, 1} :
       LET s == IF dev.bpb_enabled THEN bpb_update(dev, a, taken) ELSE dev
           u == IF dev.btic_enabled THEN btic_update(s, t) ELSE s
       IN  dev' = [u EXCEPT !.last = IF dev.bpb_enabled THEN taken ELSE @]
-----------------------------------------------------------------------------
(* One counter: it counts an event that its mode register selects, in      *)
(* supervisor mode with CISM and in user mode with CIUM.                   *)
pcu_count_event(s, event) ==
  LET counts == /\ event \in s.PCMR
                /\ \/ "CISM" \in s.PCMR /\ s.mode = "SM"
                   \/ "CIUM" \in s.PCMR /\ s.mode = "UM"
  IN  [s EXCEPT !.PCCR = @ + Bit(counts)]

PcuEvent ==
  /\ Is("predict") /\ dev.pcu_enabled /\ dev.PCCR < PREDICT_MAX
  /\ \E e \in {"LA", "SA", "IF"} : dev' = pcu_count_event(dev, e)

(* l.mtspr of PCMR, and a change of mode.                                  *)
PcuWrite ==
  /\ Is("predict") /\ dev.pcu_enabled
  /\ \/ \E m \in {{"LA", "CISM"}, {"IF", "SA", "CIUM"}, {"IF", "CISM", "CIUM"}} :
          dev' = [dev EXCEPT !.PCMR = m]
     \/ \E mode \in {"SM", "UM"} : dev' = [dev EXCEPT !.mode = mode]

PredictNext == PredictBranch \/ PcuEvent \/ PcuWrite

TimingSpec ==
  (SbufInit \/ PredictInit) /\ [][SbufNext \/ PredictNext]_dev
-----------------------------------------------------------------------------
(* The branch target cache keeps the targets that were used last: the scan *)
(* of btic_update() for the least recently used way finds it although it   *)
(* never lowers its minimum, because there are no more than two ways (the  *)
(* BTIC_WAYS of the build): of three it would find the wrong one.          *)
BticKeepsRecent ==
  Is("predict") /\ dev.btic_enabled /\ BTIC_WAYS <= 2 =>
    \A i \in 1 .. Len(dev.recent) :
      i <= BTIC_WAYS => \E w \in BticWays : dev.way[w].addr = dev.recent[i]

(* With two prediction states the buffer predicts that a branch goes where *)
(* it went last, however its updates, aliases and replacements interleave. *)
BpbRepeats ==
  Is("predict") /\ BPB_PSTATES = 2 =>
    dev.bpb.taken \div (BPB_PSTATES \div 2) = dev.last

(* The tables that only tell time and predict branches hold the recent     *)
(* past exactly (sbuf_store, sbuf_load, btic_update, bpb_update).          *)
TimingRight == SbufExact /\ BticKeepsRecent /\ BpbRepeats
=============================================================================
