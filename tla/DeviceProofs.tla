---------------------------- MODULE DeviceProofs ----------------------------
(***************************************************************************)
(* What the peripherals promise, for every value of their constants.  Each *)
(* device has an inductive invariant of its own: the shape of its state,   *)
(* what the property says of it, and what makes that survive a step.  A    *)
(* handler is proved from the operators it is put together from, each with *)
(* a lemma that says which part of the device it leaves alone.             *)
(***************************************************************************)
EXTENDS Gpio, Dma, Ps2Kbd, Generic, Eth, Ata, Display, Mc, DataLemmas,
        FiniteSetTheorems, TLAPS

-----------------------------------------------------------------------------
(* The GPIO device.                                                        *)

(* The values of the GPIO registers, one bit of each.                      *)
GpioRegs == [DOMAIN GpioZero -> BOOLEAN]

(* The states of the GPIO device.                                          *)
GpioStates ==
  [kind : {"gpio"}, uses : GpioUses, curr : GpioRegs, next : GpioRegs,
   auxin : BOOLEAN, irq : BOOLEAN, doint : Nat, seen : BOOLEAN,
   pending : BOOLEAN]

(* The type of the state makes GpioSound inductive.                        *)
GpioInv == dev \in GpioStates /\ GpioSound

(* A device that gpio_sec_start() has set up satisfies the invariant.      *)
LEMMA GpioStarts == GpioInit => GpioInv
BY DEF GpioInit, GpioInv, GpioStates, GpioRegs, GpioSound, GpioReported,
       GpioOutputSeen, Is, GpioZero

(* gpio_device_clock() takes over the written registers: an event it       *)
(* notices has a job to report it, and the output it drives is the one it  *)
(* sends.                                                                  *)
LEMMA GpioClockKeeps ==
  ASSUME NEW s \in GpioStates, s.pending => s.irq \/ s.doint > 0,
         s.seen = s.curr.out, NEW t, t = gpio_device_clock(s)
  PROVE  t \in GpioStates /\ (t.pending => t.irq \/ t.doint > 0)
           /\ t.seen = t.curr.out
<1> DEFINE n == Settle(s.next, s.auxin)
           event == Relevant(s.curr, n)
           m == [n EXCEPT !.INTS = @ \/ event, !.ints = @ \/ event]
<1>1. n \in GpioRegs
  BY DEF GpioStates, GpioRegs, GpioZero, Settle
<1>2. event \in BOOLEAN
  BY <1>1 DEF GpioStates, GpioRegs, GpioZero, Relevant
<1>3. m \in GpioRegs /\ m.out = n.out
  BY <1>1, <1>2 DEF GpioRegs, GpioZero
<1>4. SendOut(s, n) = n.out
  BY <1>1 DEF SendOut, GpioStates, GpioRegs, GpioZero
<1>5. t = [s EXCEPT !.next = m, !.curr = m, !.seen = n.out,
                    !.doint = @ + Bit(event), !.pending = @ \/ event]
  BY <1>4 DEF gpio_device_clock
<1> HIDE DEF n, event, m
<1>6. Bit(event) \in Nat /\ (event => Bit(event) > 0)
  BY DEF Bit
<1>7. n.out \in BOOLEAN /\ m \in GpioRegs
  BY <1>1, <1>3 DEF GpioRegs, GpioZero
<1>8. t \in GpioStates
  <2>1. s.doint + Bit(event) \in Nat /\ (s.pending \/ event) \in BOOLEAN
    BY <1>2, <1>6 DEF GpioStates
  <2> QED BY <1>5, <1>7, <2>1 DEF GpioStates
<1> QED BY <1>2, <1>3, <1>5, <1>6, <1>8 DEF GpioStates

(* Every register access, VAPI input, clock, job and reset of the GPIO     *)
(* device keeps the invariant.                                             *)
LEMMA GpioStep == GpioInv /\ [GpioNext]_dev => GpioInv'
<1> SUFFICES ASSUME GpioInv, [GpioNext]_dev PROVE GpioInv'
  OBVIOUS
<1>1. /\ dev \in GpioStates /\ Is("gpio") /\ dev.seen = dev.curr.out
      /\ dev.pending => dev.irq \/ dev.doint > 0
  BY DEF GpioInv, GpioSound, GpioReported, GpioOutputSeen, Is, GpioStates
<1> SUFFICES /\ dev' \in GpioStates /\ dev'.seen = dev'.curr.out
             /\ dev'.pending => dev'.irq \/ dev'.doint > 0
  BY DEF GpioInv, GpioSound, GpioReported, GpioOutputSeen, Is
<1>2. ASSUME NEW r, NEW v \in BOOLEAN
      PROVE  [dev EXCEPT !.next[r] = v] \in GpioStates
  BY <1>1 DEF GpioStates, GpioRegs, GpioZero
<1>3. CASE GpioWrite
  <2>1. PICK r \in dev.uses \ {"in", "auxin", "clk"}, v \in BOOLEAN :
          dev' = IF r = "ints" THEN WriteInts(dev, v)
                 ELSE [dev EXCEPT !.next[r] = v]
    BY <1>3 DEF GpioWrite
  <2>2. CASE r = "ints"
    <3>1. dev' = [dev EXCEPT !.irq = @ /\ ~(dev.next.ints /\ ~v),
                     !.next.ints = v, !.pending = @ /\ v]
      BY <2>1, <2>2 DEF WriteInts
    <3>2. dev.next.ints \in BOOLEAN /\ [dev.next EXCEPT !.ints = v] \in GpioRegs
      BY <1>1 DEF GpioStates, GpioRegs, GpioZero
    <3> QED BY <1>1, <3>1, <3>2 DEF GpioStates
  <2>3. CASE r # "ints"
    BY <1>1, <1>2, <2>1, <2>3 DEF GpioStates
  <2> QED BY <2>2, <2>3
<1>4. CASE gpio_vapi_read
  <2>1. PICK r \in dev.uses \ {"out", "ints"}, v \in BOOLEAN :
          dev' = CASE r = "auxin" -> [dev EXCEPT !.auxin = v]
                   [] r = "clk"   -> gpio_external_clock(dev, v)
                   [] OTHER       -> [dev EXCEPT !.next[r] = v]
    BY <1>4 DEF gpio_vapi_read
  <2>2. CASE r = "auxin"
    BY <1>1, <2>1, <2>2 DEF GpioStates
  <2>3. CASE r = "clk"
    <3> DEFINE t == [dev EXCEPT !.next.clk = v]
    <3>1. t \in GpioStates /\ t.seen = t.curr.out
             /\ (t.pending => t.irq \/ t.doint > 0)
      BY <1>1, <1>2 DEF GpioStates
    <3>2. dev' = t \/ dev' = gpio_device_clock(t)
      BY <2>1, <2>3 DEF gpio_external_clock
    <3> HIDE DEF t
    <3> QED BY <3>1, <3>2, GpioClockKeeps
  <2>4. CASE r # "auxin" /\ r # "clk"
    BY <1>1, <1>2, <2>1, <2>4 DEF GpioStates
  <2> QED BY <2>2, <2>3, <2>4
<1>5. CASE gpio_clock
  BY <1>1, <1>5, GpioClockKeeps DEF gpio_clock
<1>6. CASE gpio_do_int
  <2>1. dev.doint \in Nat /\ dev.doint > 0
    BY <1>1, <1>6 DEF gpio_do_int, GpioStates
  <2>2. dev.doint - 1 \in Nat
    BY <2>1
  <2>3. dev' = [dev EXCEPT !.irq = TRUE, !.doint = dev.doint - 1]
    BY <1>6 DEF gpio_do_int
  <2> QED BY <1>1, <2>2, <2>3 DEF GpioStates
<1>7. CASE GpioReset
  BY <1>1, <1>7 DEF GpioReset, GpioStates
<1>8. CASE UNCHANGED dev
  BY <1>1, <1>8
<1> QED BY <1>3, <1>4, <1>5, <1>6, <1>7, <1>8 DEF GpioNext

(* The GPIO device never forgets an event it was to interrupt for, nor an  *)
(* output it was to send, whatever the bits it uses.                       *)
THEOREM GpioAlwaysSound == GpioSpec => []GpioSound
<1>1. GpioInv => GpioSound
  BY DEF GpioInv
<1> QED BY <1>1, GpioStarts, GpioStep, PTL DEF GpioSpec

-----------------------------------------------------------------------------
(* The DMA controller.                                                     *)

(* The fields of one DMA channel.                                          *)
ChannelFields ==
  {"csr", "sz", "desc", "more", "tot", "chk", "words", "req", "nd", "ack",
   "jobs", "restarted"}

(* The shape of the controller's state.                                    *)
DmaShape(s) ==
  /\ DOMAIN s = {"kind", "msk", "src", "irq", "dead", "acked", "ch"}
  /\ s.kind = "dma"
  /\ s.irq \in BOOLEAN
  /\ DOMAIN s.ch = DmaChannels
  /\ \A c \in DmaChannels : DOMAIN s.ch[c] = ChannelFields

(* The interrupt line is high exactly while there is a source for it.      *)
LineOK(s) == s.irq <=> s.src # {}
(* The channel is enabled.                                                 *)
En(s, c) == "CH_EN" \in s.ch[c].csr
(* An enabled channel has its one job, unless it is restarting; any other  *)
(* has none.                                                               *)
OneJob(s, c) == s.ch[c].jobs = Bit(En(s, c) /\ ~s.ch[c].restarted)

(* The invariant: until a chunk size of zero, which the word counter is    *)
(* divided by, ends the simulation every channel has the jobs it should,   *)
(* and until software writes the source register the line follows it.      *)
DmaInv ==
  /\ DmaShape(dev)
  /\ ~dev.dead => \A c \in DmaChannels : OneJob(dev, c)
  /\ ~dev.acked => LineOK(dev)

(* From s to t only channel c has changed, and the interrupt line only     *)
(* together with its source.                                               *)
Only(s, t, c) ==
  /\ DmaShape(t) /\ t.acked = s.acked /\ (LineOK(s) => LineOK(t))
  /\ \A e \in DmaChannels \ {c} : t.ch[e] = s.ch[e]

(* ... and of channel c nothing that decides whether it is clocked.        *)
Quiet(s, t, c) ==
  /\ Only(s, t, c) /\ t.dead = s.dead
  /\ t.ch[c].jobs = s.ch[c].jobs
  /\ t.ch[c].restarted = s.ch[c].restarted
  /\ En(t, c) = En(s, c)

(* Two quiet steps in a row are a quiet one.                               *)
LEMMA QuietTrans ==
  ASSUME NEW s, NEW t, NEW u, NEW c \in DmaChannels, Quiet(s, t, c), Quiet(t, u, c)
  PROVE  Quiet(s, u, c)
BY DEF Quiet, Only

(* A quiet step followed by one confined to the channel is confined to it. *)
LEMMA QuietThenOnly ==
  ASSUME NEW s, NEW t, NEW u, NEW c \in DmaChannels, Quiet(s, t, c), Only(t, u, c)
  PROVE  Only(s, u, c)
BY DEF Quiet, Only

(* SetFlags changes the status word of its channel and nothing else.       *)
LEMMA SetFlagsOnly ==
  ASSUME NEW s, DmaShape(s), NEW c \in DmaChannels, NEW on, NEW off,
         NEW t, t = SetFlags(s, c, on, off)
  PROVE  /\ Only(s, t, c) /\ t.dead = s.dead
         /\ t.ch[c].csr = (s.ch[c].csr \ off) \union on
         /\ t.ch[c].jobs = s.ch[c].jobs
         /\ t.ch[c].restarted = s.ch[c].restarted
         /\ t.src = s.src /\ t.irq = s.irq /\ t.msk = s.msk
BY DEF DmaShape, SetFlags, Only, ChannelFields, LineOK

(* Scheduling dma_channel_clock() adds one job to its channel.             *)
LEMMA SchedOnly ==
  ASSUME NEW s, DmaShape(s), NEW c \in DmaChannels, NEW t, t = DmaSched(s, c)
  PROVE  /\ Only(s, t, c) /\ t.dead = s.dead
         /\ t.ch[c].csr = s.ch[c].csr
         /\ t.ch[c].jobs = s.ch[c].jobs + 1
         /\ t.ch[c].restarted = s.ch[c].restarted
BY DEF DmaShape, DmaSched, Only, ChannelFields, LineOK

(* Raising an interrupt raises the line together with its source.          *)
LEMMA InterruptQuiet ==
  ASSUME NEW s, DmaShape(s), NEW c \in DmaChannels, NEW enable, NEW flag, flag # "CH_EN",
         NEW t, t = DmaInterrupt(s, c, enable, flag)
  PROVE  Quiet(s, t, c)
<1>1. CASE t = s
  BY <1>1 DEF Quiet, Only
<1>2. CASE t # s
  <2> DEFINE u == SetFlags(s, c, {flag}, {})
  <2>1. t = [u EXCEPT !.src = {c}, !.irq = TRUE]
    BY <1>2 DEF DmaInterrupt
  <2>2. /\ Only(s, u, c) /\ u.dead = s.dead
         /\ u.ch[c].csr = (s.ch[c].csr \ {}) \union {flag}
         /\ u.ch[c].jobs = s.ch[c].jobs
         /\ u.ch[c].restarted = s.ch[c].restarted
    BY SetFlagsOnly
  <2> HIDE DEF u
  <2>3. DmaShape(u)
    BY <2>2 DEF Only
  <2>4. /\ DmaShape(t) /\ t.ch = u.ch /\ t.acked = u.acked /\ t.dead = u.dead
        /\ t.irq = TRUE /\ t.src = {c}
    BY <2>1, <2>3 DEF DmaShape
  <2>5. LineOK(t) /\ En(t, c) = En(s, c)
    BY <2>2, <2>4 DEF LineOK, En
  <2> QED BY <2>2, <2>4, <2>5 DEF Quiet, Only
<1> QED BY <1>1, <1>2

(* dma_load_descriptor() changes the size, the descriptor and the marker   *)
(* of its channel.                                                         *)
LEMMA LoadQuiet ==
  ASSUME NEW s, DmaShape(s), NEW c \in DmaChannels, NEW t, t = dma_load_descriptor(s, c)
  PROVE  Quiet(s, t, c)
<1> DEFINE d == DmaDescs[s.ch[c].desc]
           u == [s EXCEPT !.ch[c].more = ~d.eol]
           v == [u EXCEPT !.ch[c].sz.tot = d.tot]
<1>1. t = [v EXCEPT !.ch[c].desc = d.next]
  BY DEF dma_load_descriptor
<1>2. Quiet(s, u, c)
  BY DEF DmaShape, ChannelFields, Quiet, Only, LineOK, En
<1> HIDE DEF d, u
<1>3. Quiet(u, v, c)
  BY <1>2 DEF DmaShape, ChannelFields, Quiet, Only, LineOK, En
<1> HIDE DEF v
<1>4. Quiet(v, t, c)
  BY <1>1, <1>3 DEF DmaShape, ChannelFields, Quiet, Only, LineOK, En
<1> QED BY <1>2, <1>3, <1>4, QuietTrans

(* dma_init_transfer() changes the working copies of the sizes.            *)
LEMMA InitQuiet ==
  ASSUME NEW s, DmaShape(s), NEW c \in DmaChannels, NEW t, t = dma_init_transfer(s, c)
  PROVE  Quiet(s, t, c)
BY DEF DmaShape, dma_init_transfer, Quiet, Only, ChannelFields, LineOK, En

(* Writing the sizes back leaves the clock of the channel alone.           *)
LEMMA WriteBackQuiet ==
  ASSUME NEW s, DmaShape(s), NEW c \in DmaChannels, NEW t, t = WriteBack(s, c)
  PROVE  Quiet(s, t, c)
BY DEF DmaShape, WriteBack, Quiet, Only, ChannelFields, LineOK, En

(* Channel c has been taken out of the scheduler for its clock.            *)
Clocked(s, c) ==
  DmaShape(s) /\ s.ch[c].jobs = 0 /\ En(s, c) /\ ~s.ch[c].restarted

(* A channel stays out of the scheduler over a quiet step.                 *)
LEMMA QuietClocked ==
  ASSUME NEW s, NEW t, NEW c \in DmaChannels, Clocked(s, c), Quiet(s, t, c)
  PROVE  Clocked(t, c)
BY DEF Clocked, Quiet, Only

(* dma_channel_terminate_transfer() ends with the channel either scheduled *)
(* for its next descriptor, restarting, or off: in each case with the jobs *)
(* it should have.                                                         *)
LEMMA TerminateOneJob ==
  ASSUME NEW s, NEW c \in DmaChannels, Clocked(s, c), NEW i,
         NEW t, t = dma_channel_terminate_transfer(s, c, i)
  PROVE  Only(s, t, c) /\ OneJob(t, c)
<1>1. CASE s.ch[c].more
  <2> DEFINE u == dma_load_descriptor(s, c)
             v == dma_init_transfer(u, c)
  <2>1. Quiet(s, u, c) /\ Clocked(u, c)
    BY LoadQuiet, QuietClocked DEF Clocked
  <2>2. Quiet(u, v, c) /\ Clocked(v, c)
    BY <2>1, InitQuiet, QuietClocked DEF Clocked
  <2>3. t = DmaSched(v, c)
    BY <1>1 DEF dma_channel_terminate_transfer, NextDescriptor
  <2> HIDE DEF u, v
  <2>4. Only(v, t, c) /\ t.ch[c].jobs = 1 /\ En(t, c) /\ ~t.ch[c].restarted
    BY <2>2, <2>3, SchedOnly DEF Clocked, En
  <2> QED BY <2>1, <2>2, <2>4, QuietThenOnly DEF OneJob, Bit
<1>2. CASE ~s.ch[c].more /\ Flag(s, c, "ARS")
  <2> DEFINE u == dma_init_transfer(s, c)
  <2>1. Quiet(s, u, c) /\ Clocked(u, c)
    BY InitQuiet, QuietClocked DEF Clocked
  <2>2. t = [u EXCEPT !.ch[c].restarted = TRUE]
    BY <1>2 DEF dma_channel_terminate_transfer
  <2> HIDE DEF u
  <2>3. Only(u, t, c) /\ t.ch[c].jobs = 0 /\ t.ch[c].restarted
    BY <2>1, <2>2 DEF Clocked, DmaShape, ChannelFields, Only, LineOK
  <2> QED BY <2>1, <2>3, QuietThenOnly DEF OneJob, Bit
<1>3. CASE ~s.ch[c].more /\ ~Flag(s, c, "ARS")
  <2> DEFINE u == WriteBack(s, c)
             v == SetFlags(u, c, {"DONE"}, {"CH_EN", "ERR", "BUSY"})
  <2>1. Quiet(s, u, c) /\ Clocked(u, c)
    BY WriteBackQuiet, QuietClocked DEF Clocked
  <2>2. t = v \/ t = DmaInterrupt(v, c, "INE_DONE", "INT_DONE")
    BY <1>3 DEF dma_channel_terminate_transfer
  <2> HIDE DEF u
  <2>3. Only(u, v, c) /\ v.ch[c].jobs = 0 /\ ~En(v, c)
    BY <2>1, SetFlagsOnly DEF Clocked, En
  <2> HIDE DEF v
  <2>4. Quiet(v, t, c)
    <3>1. CASE t = v
      BY <2>3, <3>1 DEF Quiet, Only
    <3> QED BY <2>2, <2>3, <3>1, InterruptQuiet DEF Only
  <2>5. Only(v, t, c) /\ OneJob(t, c)
    BY <2>3, <2>4 DEF Quiet, OneJob, Bit
  <2> QED BY <2>1, <2>3, <2>5 DEF Quiet, Only
<1> QED BY <1>1, <1>2, <1>3

(* An aborted channel is off and has no job.                               *)
LEMMA AbortOneJob ==
  ASSUME NEW s, NEW c \in DmaChannels, Clocked(s, c), NEW t, t = Abort(s, c)
  PROVE  Only(s, t, c) /\ OneJob(t, c)
<1> DEFINE u == SetFlags(s, c, {"ERR"}, {"CH_EN", "BUSY"})
<1>1. t = DmaInterrupt(u, c, "INE_ERR", "INT_ERR")
  BY DEF Abort
<1>2. Only(s, u, c) /\ u.ch[c].jobs = 0 /\ ~En(u, c)
  BY SetFlagsOnly DEF Clocked, En
<1> HIDE DEF u
<1>3. Quiet(u, t, c)
  BY <1>1, <1>2, InterruptQuiet DEF Only
<1> QED BY <1>2, <1>3 DEF Quiet, Only, OneJob, Bit

(* Moving one word ends the transfer or schedules the next clock, once.    *)
LEMMA WordOneJob ==
  ASSUME NEW s, NEW c \in DmaChannels, Clocked(s, c), NEW t, t = TransferWord(s, c)
  PROVE  Only(s, t, c) /\ (~t.dead => OneJob(t, c))
<1> DEFINE u == [s EXCEPT !.ch[c].words = @ + 1]
           k == u.ch[c]
           w == [u EXCEPT !.ch[c].ack = k.words % k.chk = 0]
<1>1. Quiet(s, u, c) /\ Clocked(u, c)
  <2>1. Quiet(s, u, c)
    BY DEF Clocked, DmaShape, Quiet, Only, ChannelFields, LineOK, En
  <2> QED BY <2>1, QuietClocked
<1>2. Quiet(u, w, c) /\ Clocked(w, c)
  <2> HIDE DEF u
  <2>1. Quiet(u, w, c)
    BY <1>1 DEF Clocked, DmaShape, Quiet, Only, ChannelFields, LineOK, En
  <2> QED BY <1>1, <2>1, QuietClocked
<1>3. Quiet(s, w, c)
  BY <1>1, <1>2, QuietTrans
<1>4. \/ t = [u EXCEPT !.dead = TRUE]
      \/ \E i \in BOOLEAN : t = dma_channel_terminate_transfer(w, c, i)
      \/ t = DmaSched(w, c)
  BY DEF TransferWord
<1> HIDE DEF u, w
<1>5. CASE t = [u EXCEPT !.dead = TRUE]
  <2>1. Only(u, t, c) /\ t.dead
    BY <1>1, <1>5 DEF Quiet, Only, DmaShape, LineOK
  <2> QED BY <1>1, <2>1, QuietThenOnly
<1>6. CASE \E i \in BOOLEAN : t = dma_channel_terminate_transfer(w, c, i)
  BY <1>2, <1>3, <1>6, TerminateOneJob, QuietThenOnly
<1>7. CASE t = DmaSched(w, c)
  <2>1. Only(w, t, c) /\ t.ch[c].jobs = 1 /\ En(t, c) /\ ~t.ch[c].restarted
    BY <1>2, <1>7, SchedOnly DEF Clocked, En
  <2> QED BY <1>3, <2>1, QuietThenOnly DEF OneJob, Bit
<1> QED BY <1>4, <1>5, <1>6, <1>7

(* Starting a transfer loads the descriptor and the sizes without          *)
(* scheduling the channel.                                                 *)
LEMMA StartQuiet ==
  ASSUME NEW s, DmaShape(s), NEW c \in DmaChannels, NEW t, t = StartTransfer(s, c)
  PROVE  Quiet(s, t, c)
<1> DEFINE u == SetFlags(s, c, {"BUSY"}, {"DONE", "ERR"})
<1>1. Quiet(s, u, c)
  BY SetFlagsOnly DEF Quiet, En
<1>2. DmaShape(u)
  BY <1>1 DEF Quiet, Only
<1>3. PICK v : /\ v = dma_load_descriptor(u, c) \/ v = [u EXCEPT !.ch[c].more = FALSE]
               /\ t = dma_init_transfer(v, c)
  BY DEF StartTransfer
<1> HIDE DEF u
<1>4. Quiet(u, v, c)
  <2>1. CASE v = [u EXCEPT !.ch[c].more = FALSE]
    BY <1>2, <2>1 DEF DmaShape, Quiet, Only, ChannelFields, LineOK, En
  <2> QED BY <1>2, <1>3, <2>1, LoadQuiet
<1>5. DmaShape(v)
  BY <1>4 DEF Quiet, Only
<1>6. Quiet(v, t, c)
  BY <1>3, <1>5, InitQuiet
<1> QED BY <1>1, <1>4, <1>6, QuietTrans

(* dma_channel_clock() leaves its channel with the jobs it should have,    *)
(* along every path through it.                                            *)
LEMMA ClockOneJob ==
  ASSUME NEW s, NEW c \in DmaChannels, Clocked(s, c), NEW t, t = dma_channel_clock(s, c)
  PROVE  Only(s, t, c) /\ (~t.dead => OneJob(t, c))
<1>1. CASE t = Abort(s, c)
  BY <1>1, AbortOneJob
<1>2. CASE t = DmaSched(s, c)
  <2>1. Only(s, t, c) /\ t.ch[c].jobs = 1 /\ En(t, c) /\ ~t.ch[c].restarted
    BY <1>2, SchedOnly DEF Clocked, En
  <2> QED BY <2>1 DEF OneJob, Bit
<1>3. CASE t = TransferWord(s, c)
  BY <1>3, WordOneJob
<1>4. ASSUME NEW u, u = StartTransfer(s, c),
             \/ t = dma_channel_terminate_transfer(u, c, FALSE)
             \/ t = TransferWord(u, c)
      PROVE  Only(s, t, c) /\ (~t.dead => OneJob(t, c))
  <2>1. Quiet(s, u, c) /\ Clocked(u, c)
    BY <1>4, StartQuiet, QuietClocked DEF Clocked
  <2>2. Only(u, t, c) /\ (~t.dead => OneJob(t, c))
    BY <1>4, <2>1, TerminateOneJob, WordOneJob
  <2> QED BY <2>1, <2>2, QuietThenOnly
<1>5. \/ t = Abort(s, c) \/ t = DmaSched(s, c) \/ t = TransferWord(s, c)
      \/ \E u : /\ u = StartTransfer(s, c)
                /\ \/ t = dma_channel_terminate_transfer(u, c, FALSE)
                   \/ t = TransferWord(u, c)
  BY DEF dma_channel_clock
<1> QED BY <1>1, <1>2, <1>3, <1>4, <1>5

(* A reset controller satisfies the invariant.                             *)
LEMMA DmaStarts == DmaInit => DmaInv
BY DEF DmaInit, DmaFresh, DmaInv, DmaShape, ChannelFields, OneJob, LineOK, En, Bit

(* A step that changes one channel and leaves it clocked as it should be   *)
(* keeps the invariant.                                                    *)
LEMMA OnlyKeeps ==
  ASSUME DmaInv, NEW c \in DmaChannels, ~dev.dead, Only(dev, dev', c),
         ~dev'.dead => OneJob(dev', c)
  PROVE  DmaInv'
<1>1. ASSUME NEW e \in DmaChannels, ~dev'.dead PROVE OneJob(dev', e)
  BY <1>1 DEF DmaInv, Only, OneJob, En
<1> QED BY <1>1 DEF DmaInv, Only

(* Every register access, handshake, clock and reset of the controller     *)
(* keeps the invariant.                                                    *)
LEMMA DmaStep == DmaInv /\ [DmaNext]_dev => DmaInv'
<1> SUFFICES ASSUME DmaInv, [DmaNext]_dev PROVE DmaInv'
  OBVIOUS
<1>1. DmaShape(dev) /\ Is("dma")
  BY DEF DmaInv, DmaShape, Is
<1>2. CASE DmaWriteGlobal
  <2>1. /\ ~dev.dead /\ DmaShape(dev') /\ dev'.ch = dev.ch /\ dev'.dead = dev.dead
        /\ ~dev'.acked => /\ ~dev.acked /\ dev'.irq = dev.irq
                           /\ dev'.src = dev.src
    BY <1>1, <1>2 DEF DmaWriteGlobal, Dma, DmaShape
  <2> QED BY <2>1 DEF DmaInv, OneJob, En, LineOK
<1>3. CASE DmaReadIntSrc
  <2>1. dev' = [dev EXCEPT !.irq = @ /\ dev.src = {}, !.src = {}]
    BY <1>3 DEF DmaReadIntSrc, ReadIntSrc
  <2>2. /\ DmaShape(dev') /\ dev'.ch = dev.ch /\ dev'.dead = dev.dead
        /\ dev'.acked = dev.acked /\ dev'.src = {}
        /\ dev'.irq = (dev.irq /\ dev.src = {})
    BY <1>1, <2>1 DEF DmaShape
  <2>3. ~dev.acked => LineOK(dev')
    BY <2>2 DEF DmaInv, LineOK
  <2> QED BY <2>2, <2>3 DEF DmaInv, OneJob, En
<1>4. CASE DmaReset
  <2>1. (DmaInit => DmaInv)'
    BY DmaStarts, PTL
  <2> QED BY <1>4, <2>1 DEF DmaReset, DmaInit
<1>5. ASSUME NEW c \in DmaChannels, DmaClock(c) PROVE DmaInv'
  <2> DEFINE s == [dev EXCEPT !.ch[c].jobs = @ - 1]
  <2>1. ~dev.dead /\ dev.ch[c].jobs > 0 /\ dev' = dma_channel_clock(s, c)
    BY <1>5 DEF DmaClock, Dma
  <2>2. dev.ch[c].jobs = 1 /\ En(dev, c) /\ ~dev.ch[c].restarted
    BY <2>1 DEF DmaInv, OneJob, Bit
  <2>3. Clocked(s, c) /\ Only(dev, s, c)
    BY <1>1, <2>2 DEF Clocked, Only, DmaShape, ChannelFields, En, LineOK
  <2> HIDE DEF s
  <2>4. Only(s, dev', c) /\ (~dev'.dead => OneJob(dev', c))
    BY <2>1, <2>3, ClockOneJob
  <2>5. Only(dev, dev', c)
    BY <2>3, <2>4 DEF Only
  <2> QED BY <2>1, <2>4, <2>5, OnlyKeeps
<1>6. ASSUME NEW c \in DmaChannels, DmaWriteChannel(c) PROVE DmaInv'
  <2>1. ~dev.dead /\ OneJob(dev, c)
    BY <1>6 DEF DmaWriteChannel, Dma, DmaInv
  <2>2. ASSUME NEW v, dev' = dma_write_ch_csr(dev, c, v)
        PROVE  Only(dev, dev', c) /\ OneJob(dev', c)
    <3> DEFINE s == StartOrCancel(dev, c, v)
    <3>1. /\ Only(dev, s, c) /\ s.ch[c].csr = dev.ch[c].csr
          /\ s.ch[c].jobs = Bit("CH_EN" \in v /\ ~s.ch[c].restarted)
      <4>1. CASE ~En(dev, c) /\ "CH_EN" \in v
        <5> DEFINE u == DmaSched(dev, c)
        <5>1. /\ Only(dev, u, c) /\ u.ch[c].csr = dev.ch[c].csr
              /\ u.ch[c].jobs = 1
          BY <1>1, <2>1, <4>1, SchedOnly DEF OneJob, Bit
        <5>2. s = [u EXCEPT !.ch[c].restarted = FALSE]
          BY <4>1 DEF StartOrCancel, Flag, En
        <5> HIDE DEF u, s
        <5>3. /\ Only(u, s, c) /\ s.ch[c].csr = u.ch[c].csr
              /\ s.ch[c].jobs = 1 /\ ~s.ch[c].restarted
          BY <5>1, <5>2 DEF Only, DmaShape, ChannelFields, LineOK
        <5> QED BY <4>1, <5>1, <5>3 DEF Only, Bit
      <4>2. CASE "CH_EN" \notin v
        <5>1. s = [dev EXCEPT !.ch[c].jobs = IF @ > 0 THEN @ - 1 ELSE 0]
          BY <4>2 DEF StartOrCancel
        <5>2. dev.ch[c].jobs \in {0, 1}
          BY <2>1 DEF OneJob, Bit
        <5> HIDE DEF s
        <5>3. /\ Only(dev, s, c) /\ s.ch[c].csr = dev.ch[c].csr
              /\ s.ch[c].jobs = 0
          BY <1>1, <5>1, <5>2 DEF Only, DmaShape, ChannelFields, LineOK
        <5> QED BY <4>2, <5>3 DEF Bit
      <4>3. CASE En(dev, c) /\ "CH_EN" \in v
        <5>1. s = dev
          BY <4>3 DEF StartOrCancel, Flag, En
        <5> QED BY <1>1, <2>1, <4>3, <5>1 DEF Only, OneJob, Bit
      <4> QED BY <4>1, <4>2, <4>3
    <3>2. dev' = SetFlags(s, c, v \intersect WriteMask, WriteMask)
      BY <2>2 DEF dma_write_ch_csr
    <3> HIDE DEF s
    <3>3. /\ Only(s, dev', c)
          /\ dev'.ch[c].csr = (s.ch[c].csr \ WriteMask) \union (v \intersect WriteMask)
          /\ dev'.ch[c].jobs = s.ch[c].jobs
          /\ dev'.ch[c].restarted = s.ch[c].restarted
      BY <3>1, <3>2, SetFlagsOnly DEF Only
    <3>4. En(dev', c) <=> "CH_EN" \in v
      BY <3>3 DEF En, WriteMask
    <3> QED BY <3>1, <3>3, <3>4 DEF Only, OneJob, Bit
  <2>3. ASSUME NEW z, dev' = [dev EXCEPT !.ch[c].sz = z]
        PROVE  Quiet(dev, dev', c)
    BY <1>1, <2>3 DEF DmaShape, ChannelFields, Quiet, Only, LineOK, En
  <2>4. ASSUME dev' = [dev EXCEPT !.ch[c].desc = DmaFirst]
        PROVE  Quiet(dev, dev', c)
    BY <1>1, <2>4 DEF DmaShape, ChannelFields, Quiet, Only, LineOK, En
  <2>5. Only(dev, dev', c) /\ OneJob(dev', c)
    <3>1. CASE Quiet(dev, dev', c)
      BY <2>1, <3>1 DEF Quiet, OneJob
    <3> QED BY <1>6, <2>2, <2>3, <2>4, <3>1 DEF DmaWriteChannel
  <2> QED BY <2>1, <2>5, OnlyKeeps
<1>7. ASSUME NEW c \in DmaChannels, dma_read_ch_csr(c) PROVE DmaInv'
  <2>1. ~dev.dead /\ OneJob(dev, c)
    BY <1>7 DEF dma_read_ch_csr, Dma, DmaInv
  <2>2. Quiet(dev, dev', c)
    BY <1>1, <1>7, SetFlagsOnly DEF dma_read_ch_csr, Quiet, En
  <2> QED BY <2>1, <2>2, OnlyKeeps DEF Quiet, OneJob
<1>8. ASSUME NEW c \in DmaChannels, DmaSignal(c) PROVE DmaInv'
  <2>1. ~dev.dead /\ OneJob(dev, c)
    BY <1>8 DEF DmaSignal, Dma, DmaInv
  <2>2. Quiet(dev, dev', c)
    BY <1>1, <1>8 DEF DmaSignal, DmaShape, ChannelFields, Quiet, Only, LineOK, En
  <2> QED BY <2>1, <2>2, OnlyKeeps DEF Quiet, OneJob
<1>9. CASE UNCHANGED dev
  BY <1>9 DEF DmaInv, DmaShape, OneJob, LineOK, En
<1> QED BY <1>2, <1>3, <1>4, <1>5, <1>6, <1>7, <1>8, <1>9 DEF DmaNext

(* For every number of channels and every chain of descriptors, a working  *)
(* channel has one job in the scheduler and the interrupt line has its     *)
(* source.                                                                 *)
THEOREM DmaAlwaysSound == DmaSpec => []DmaSound
<1>1. DmaInv => DmaSound
  BY DEF DmaInv, DmaSound, DmaOneJob, DmaIrqHasSource, OneJob, En, LineOK, Flag
<1> QED BY <1>1, DmaStarts, DmaStep, PTL DEF DmaSpec

-----------------------------------------------------------------------------
(* The PS/2 keyboard.                                                      *)

(* The keys a scan code is for.                                            *)
Keys == {"key", "shift"}
(* What the ring holds: a key going down or up.                            *)
ScanCodes == [key : Keys, down : BOOLEAN]

(* The states of the keyboard controller.                                  *)
KbdStates ==
  [kind : {"kbd"}, buf : Seq(ScanCodes), ccmd : CcmdNames \union {"none"},
   kcmd : KcmdNames \union {"none"}, kresp : {0, 1, 2}, en : BOOLEAN,
   int : BOOLEAN, irq : BOOLEAN, open : BOOLEAN, held : SUBSET Keys,
   lost : BOOLEAN, acked : BOOLEAN]

(* The release of every key that is down, or goes down in the ring, but    *)
(* those of K, is still in the ring.                                       *)
Released(s, K) ==
  s.lost
  \/ /\ \A i \in 1 .. Len(s.buf) : s.buf[i].down =>
          \/ s.buf[i].key \in K
          \/ \E j \in i + 1 .. Len(s.buf) : s.buf[j] = Break(s.buf[i].key)
     /\ \A k \in s.held : \/ k \in K
                          \/ \E j \in 1 .. Len(s.buf) : s.buf[j] = Break(k)

(* The invariant: no key stays down for ever (in the sense of Released,    *)
(* which sees more than the first code of the ring), the second answer to  *)
(* a reset follows its acknowledgement, and the line has something to      *)
(* read.                                                                   *)
KbdInv ==
  /\ dev \in KbdStates
  /\ Released(dev, {})
  /\ ResetAnswers /\ KbdIrqReal

(* A keyboard that kbd_reset() has set up satisfies the invariant.         *)
LEMMA KbdStarts == KbdInit => KbdInv
<1> SUFFICES ASSUME NEW c \in CcmdNames \union {"none"},
                    NEW k \in KcmdNames \union {"none"}, NEW open \in BOOLEAN,
                    dev = kbd_reset(c, k, open)
             PROVE  KbdInv
  BY DEF KbdInit
<1>1. dev \in KbdStates /\ dev.buf = <<>> /\ dev.held = {} /\ dev.irq = FALSE
        /\ dev.kresp = 0
  BY EmptySeq DEF kbd_reset, KbdStates
<1>2. Len(dev.buf) = 0
  BY <1>1, EmptySeq
<1>3. Released(dev, {})
  BY <1>1, <1>2 DEF Released
<1> QED BY <1>1, <1>3 DEF KbdInv, ResetAnswers, KbdIrqReal

(* What kbd_put() leaves alone.                                            *)
LEMMA PutTyped ==
  ASSUME NEW s \in KbdStates, NEW c \in ScanCodes, NEW t, t = kbd_put(s, c)
  PROVE  /\ t \in KbdStates /\ t.irq = s.irq /\ t.kresp = s.kresp
         /\ t.acked = s.acked /\ t.int = s.int
         /\ s.buf # <<>> => t.buf # <<>>
<1> DEFINE q == s.buf
<1>1. q \in Seq(ScanCodes)
  BY DEF KbdStates
<1>2. CASE Len(s.buf) >= KBD_MAX_BUF
  BY <1>2 DEF kbd_put, KbdStates
<1>3. CASE ~(Len(s.buf) >= KBD_MAX_BUF)
  <2>1. t = [s EXCEPT !.buf = Append(q, c)]
    BY <1>3 DEF kbd_put
  <2> HIDE DEF q
  <2>2. Append(q, c) \in Seq(ScanCodes) /\ Append(q, c) # <<>>
    BY <1>1, AppendProperties
  <2> QED BY <2>1, <2>2 DEF KbdStates
<1> QED BY <1>2, <1>3

(* Putting the code of a press opens an obligation for its key, putting    *)
(* the code of a release closes it; a code the ring has no room for is     *)
(* lost, and then nothing is claimed.                                      *)
LEMMA PutReleased ==
  ASSUME NEW s \in KbdStates, NEW K, Released(s, K), NEW k \in Keys,
         NEW t, NEW L,
         \/ t = kbd_put(s, Make(k)) /\ L = K \union {k}
         \/ t = kbd_put(s, Break(k)) /\ L = K \ {k}
  PROVE  Released(t, L)
<1>1. CASE Len(s.buf) >= KBD_MAX_BUF
  <2>1. t = [s EXCEPT !.lost = TRUE]
    BY <1>1 DEF kbd_put
  <2> QED BY <2>1 DEF Released, KbdStates
<1>2. CASE ~(Len(s.buf) >= KBD_MAX_BUF)
  <2> DEFINE q == s.buf
  <2>1. PICK c \in ScanCodes : /\ t = [s EXCEPT !.buf = Append(q, c)]
                               /\ \/ c = Make(k) /\ L = K \union {k}
                                  \/ c = Break(k) /\ L = K \ {k}
    BY <1>2 DEF kbd_put, Make, Break, ScanCodes
  <2>2. /\ t.lost = s.lost /\ t.held = s.held /\ t.buf = Append(q, c)
        /\ q \in Seq(ScanCodes)
    BY <2>1 DEF KbdStates
  <2>3. Released(s, K) <=>
          \/ s.lost
          \/ /\ \A i \in 1 .. Len(q) : q[i].down =>
                  \/ q[i].key \in K
                  \/ \E j \in i + 1 .. Len(q) : q[j] = Break(q[i].key)
             /\ \A h \in s.held : \/ h \in K
                                  \/ \E j \in 1 .. Len(q) : q[j] = Break(h)
    BY DEF Released
  <2> HIDE DEF q
  <2> DEFINE r == Append(q, c)
  <2>4. /\ Len(r) = Len(q) + 1 /\ r[Len(q) + 1] = c /\ Len(q) \in Nat
        /\ \A i \in 1 .. Len(q) : r[i] = q[i]
    BY <2>2, AppendProperties, LenProperties
  <2>5. t.buf = r
    BY <2>2
  <2> HIDE DEF r
  <2>6. CASE s.lost
    BY <2>2, <2>6 DEF Released
  <2>7. CASE ~s.lost
    <3>1. ASSUME NEW h, h \in K, h \notin L
          PROVE  \E j \in 1 .. Len(r) : j = Len(r) /\ r[j] = Break(h)
      BY <2>1, <2>4, <3>1
    <3>2. ASSUME NEW i \in 1 .. Len(r), r[i].down
          PROVE  \/ r[i].key \in L
                 \/ \E j \in i + 1 .. Len(r) : r[j] = Break(r[i].key)
      <4>1. CASE i = Len(r)
        <5>1. r[i] = c /\ c = Make(k) /\ k \in L
          BY <2>1, <2>4, <3>2, <4>1 DEF Break
        <5> QED BY <5>1 DEF Make
      <4>2. CASE i # Len(r)
        <5>1. i \in 1 .. Len(q) /\ r[i] = q[i]
          BY <2>4, <4>2
        <5>2. CASE q[i].key \in K
          BY <2>4, <3>1, <5>1, <5>2
        <5>3. CASE \E j \in i + 1 .. Len(q) : q[j] = Break(q[i].key)
          <6>1. PICK j \in i + 1 .. Len(q) : q[j] = Break(q[i].key)
            BY <5>3
          <6>2. j \in i + 1 .. Len(r) /\ r[j] = q[j]
            BY <2>4, <5>1
          <6> QED BY <5>1, <6>1, <6>2
        <5> QED BY <2>3, <2>7, <3>2, <5>1, <5>2, <5>3
      <4> QED BY <4>1, <4>2
    <3>3. ASSUME NEW h \in s.held
          PROVE  h \in L \/ \E j \in 1 .. Len(r) : r[j] = Break(h)
      <4>1. CASE h \in K
        BY <3>1, <4>1
      <4>2. CASE \E j \in 1 .. Len(q) : q[j] = Break(h)
        <5>1. PICK j \in 1 .. Len(q) : q[j] = Break(h)
          BY <4>2
        <5>2. j \in 1 .. Len(r) /\ r[j] = q[j]
          BY <2>4
        <5> QED BY <5>1, <5>2
      <4> QED BY <2>3, <2>7, <4>1, <4>2
    <3> QED BY <2>2, <2>5, <3>2, <3>3 DEF Released
  <2> QED BY <2>6, <2>7
<1> QED BY <1>1, <1>2

(* What decoding a character leaves alone.                                 *)
Kept(s, t) ==
  /\ t \in KbdStates /\ t.irq = s.irq /\ t.kresp = s.kresp
  /\ t.acked = s.acked /\ t.int = s.int
  /\ s.buf # <<>> => t.buf # <<>>

(* A key pressed and released leaves no obligation behind.                 *)
LEMMA PutKeyKept ==
  ASSUME NEW s \in KbdStates, NEW K, Released(s, K), "key" \notin K,
         NEW t, t = PutKey(s)
  PROVE  Kept(s, t) /\ Released(t, K)
<1> DEFINE u == kbd_put(s, Make("key"))
<1>1. Make("key") \in ScanCodes /\ Break("key") \in ScanCodes /\ "key" \in Keys
  BY DEF Make, Break, ScanCodes, Keys
<1>2. Kept(s, u)
  BY <1>1, PutTyped DEF Kept
<1>3. Released(u, K \union {"key"})
  BY <1>1, PutReleased
<1>4. t = kbd_put(u, Break("key"))
  BY DEF PutKey
<1> HIDE DEF u
<1>5. Kept(u, t)
  BY <1>1, <1>2, <1>4, PutTyped DEF Kept
<1>6. Released(t, (K \union {"key"}) \ {"key"})
  BY <1>1, <1>2, <1>3, <1>4, PutReleased DEF Kept
<1>7. (K \union {"key"}) \ {"key"} = K
  OBVIOUS
<1> QED BY <1>2, <1>5, <1>6, <1>7 DEF Kept

(* scan_decode() puts a key between the codes of its shift, and leaves no  *)
(* obligation behind.                                                      *)
LEMMA DecodeKept ==
  ASSUME NEW s \in KbdStates, Released(s, {}), NEW c, NEW t, t = scan_decode(s, c)
  PROVE  Kept(s, t) /\ Released(t, {})
<1>1. CASE t = s
  BY <1>1 DEF Kept
<1>2. CASE t = PutKey(s)
  BY <1>2, PutKeyKept
<1>3. CASE t = kbd_put(PutKey(kbd_put(s, Make("shift"))), Break("shift"))
  <2> DEFINE u == kbd_put(s, Make("shift"))
             v == PutKey(u)
  <2>1. Make("shift") \in ScanCodes /\ Break("shift") \in ScanCodes
          /\ "shift" \in Keys
    BY DEF Make, Break, ScanCodes, Keys
  <2>2. Kept(s, u)
    BY <2>1, PutTyped DEF Kept
  <2>3. Released(u, {} \union {"shift"})
    BY <2>1, PutReleased
  <2>4. {} \union {"shift"} = {"shift"} /\ {"shift"} \ {"shift"} = {}
    OBVIOUS
  <2>5. t = kbd_put(v, Break("shift"))
    BY <1>3
  <2> HIDE DEF u
  <2>6. Kept(u, v) /\ Released(v, {"shift"})
    BY <2>2, <2>3, <2>4, PutKeyKept DEF Kept
  <2> HIDE DEF v
  <2>7. Kept(v, t)
    BY <2>1, <2>5, <2>6, PutTyped DEF Kept
  <2>8. Released(t, {"shift"} \ {"shift"})
    BY <2>1, <2>5, <2>6, PutReleased DEF Kept
  <2> QED BY <2>2, <2>4, <2>6, <2>7, <2>8 DEF Kept
<1> QED BY <1>1, <1>2, <1>3 DEF scan_decode

(* Reading a scan code from the ring.                                      *)
LEMMA ReadCodeKeeps ==
  ASSUME NEW s \in KbdStates, Released(s, {}), s.buf # <<>>,
         NEW t, t = ReadCode(s)
  PROVE  t \in KbdStates /\ Released(t, {}) /\ t.kresp = 0 /\ t.irq = s.irq
<1> DEFINE q == s.buf
           c == Head(q)
           r == Tail(q)
           h == IF c.down THEN s.held \union {c.key} ELSE s.held \ {c.key}
<1>1. q \in Seq(ScanCodes) /\ q # <<>> /\ s.held \in SUBSET Keys
  BY DEF KbdStates
<1>2. t = [s EXCEPT !.buf = r, !.kresp = 0, !.acked = FALSE, !.held = h]
  BY DEF ReadCode
<1>3. Released(s, {}) <=>
          \/ s.lost
          \/ /\ \A i \in 1 .. Len(q) : q[i].down =>
                  \E j \in i + 1 .. Len(q) : q[j] = Break(q[i].key)
             /\ \A k \in s.held : \E j \in 1 .. Len(q) : q[j] = Break(k)
  BY DEF Released
<1> HIDE DEF q
<1>4. /\ c \in ScanCodes /\ c = q[1] /\ r \in Seq(ScanCodes)
      /\ Len(r) = Len(q) - 1 /\ \A i \in 1 .. Len(r) : r[i] = q[i + 1]
      /\ Len(q) \in Nat /\ Len(q) >= 1
  BY <1>1, HeadTailProperties, EmptySeq, LenProperties
<1> HIDE DEF c, r
<1>5. c.key \in Keys /\ c.down \in BOOLEAN
  BY <1>4 DEF ScanCodes
<1>6. h \in SUBSET Keys
  BY <1>1, <1>5
<1>7. CASE ~s.lost
  <2>1. ASSUME NEW i \in 1 .. Len(q), NEW k, q[i] = Break(k), k # c.key \/ c.down
        PROVE  i # 1 /\ i - 1 \in 1 .. Len(r) /\ r[i - 1] = Break(k)
    <3>1. i # 1
      BY <1>4, <2>1 DEF Break
    <3>2. i - 1 \in 1 .. Len(r)
      BY <1>4, <3>1
    <3> QED BY <1>4, <2>1, <3>1, <3>2
  <2>2. ASSUME NEW i \in 1 .. Len(r), r[i].down
        PROVE  \E j \in i + 1 .. Len(r) : r[j] = Break(r[i].key)
    <3>1. i + 1 \in 1 .. Len(q) /\ q[i + 1] = r[i]
      BY <1>4
    <3>2. PICK j \in (i + 1) + 1 .. Len(q) : q[j] = Break(r[i].key)
      BY <1>3, <1>7, <2>2, <3>1
    <3>3. j - 1 \in i + 1 .. Len(r) /\ r[j - 1] = q[j]
      BY <1>4, <3>1, <3>2
    <3> QED BY <3>2, <3>3
  <2>3. ASSUME NEW k \in h PROVE \E j \in 1 .. Len(r) : r[j] = Break(k)
    <3>1. k # c.key \/ c.down
      BY <1>5, <2>3
    <3>2. \E i \in 1 .. Len(q) : q[i] = Break(k)
      <4>1. CASE k \in s.held
        BY <1>3, <1>7, <4>1
      <4>2. CASE c.down /\ k = c.key
        <5>1. \E j \in 1 + 1 .. Len(q) : q[j] = Break(q[1].key)
          BY <1>3, <1>4, <1>7, <4>2
        <5> QED BY <1>4, <4>2, <5>1
      <4> QED BY <2>3, <4>1, <4>2
    <3> QED BY <2>1, <3>1, <3>2
  <2> HIDE DEF h
  <2>4. t.buf = r /\ t.held = h
    BY <1>2 DEF KbdStates
  <2>5. Released(t, {})
    BY <2>2, <2>3, <2>4 DEF Released
  <2> QED BY <1>2, <1>4, <1>6, <2>5 DEF KbdStates
<1>8. CASE s.lost
  <2> HIDE DEF h
  <2> QED BY <1>2, <1>4, <1>6, <1>8, ZenonT(60) DEF KbdStates, Released
<1> QED BY <1>7, <1>8

(* What the ring owes depends on the ring, the keys held and the loss      *)
(* only.                                                                   *)
LEMMA SameReleased ==
  ASSUME NEW s, NEW t, NEW K, Released(s, K), t.buf = s.buf, t.held = s.held,
         t.lost = s.lost
  PROVE  Released(t, K)
BY DEF Released

(* Every command, data byte, read, job and reset of the keyboard keeps the *)
(* invariant.                                                              *)
LEMMA KbdStep == KbdInv /\ [KbdNext]_dev => KbdInv'
<1> SUFFICES ASSUME KbdInv, [KbdNext]_dev PROVE KbdInv'
  OBVIOUS
<1>1. /\ dev \in KbdStates /\ Is("kbd") /\ Released(dev, {})
      /\ dev.kresp = 2 => dev.acked = TRUE
      /\ dev.irq = TRUE => dev.kresp # 0 \/ dev.buf # <<>>
  BY DEF KbdInv, ResetAnswers, KbdIrqReal, Is, KbdStates, KbdWaiting
<1> SUFFICES /\ dev' \in KbdStates /\ Released(dev', {})
             /\ dev'.kresp = 2 => dev'.acked = TRUE
             /\ dev'.irq = TRUE => dev'.kresp # 0 \/ dev'.buf # <<>>
  BY DEF KbdInv, ResetAnswers, KbdIrqReal, Is, KbdWaiting, KbdStates
<1>2. CASE KbdWriteCtrl
  <2>1. PICK v \in CcmdNames : dev' = WriteCtrl(dev, v)
    BY <1>2 DEF KbdWriteCtrl
  <2>2. /\ dev' \in KbdStates /\ dev'.buf = dev.buf /\ dev'.held = dev.held
        /\ dev'.lost = dev.lost /\ dev'.acked = dev.acked
        /\ dev'.kresp \in {1, dev.kresp} /\ (dev'.irq = TRUE => dev.irq = TRUE)
    <3> DEFINE resp == IF v = "ask" THEN 1 ELSE dev.kresp
               irq == dev.irq /\ v # "DKI"
               en == IF v = "DKI" THEN TRUE ELSE IF v = "EKI" THEN FALSE
                     ELSE dev.en
    <3>1. dev' = [dev EXCEPT !.ccmd = v, !.kresp = resp, !.irq = irq, !.en = en]
      BY <2>1 DEF WriteCtrl
    <3>2. resp \in {0, 1, 2} /\ resp \in {1, dev.kresp}
      BY <1>1 DEF KbdStates
    <3>3. irq \in BOOLEAN /\ en \in BOOLEAN /\ (irq = TRUE => dev.irq = TRUE)
      BY <1>1 DEF KbdStates
    <3> HIDE DEF resp, irq, en
    <3> QED BY <1>1, <3>1, <3>2, <3>3, ZenonT(60) DEF KbdStates
  <2>3. Released(dev', {})
    BY <1>1, <2>2, SameReleased
  <2> QED BY <1>1, <2>2, <2>3
<1>3. CASE KbdWriteData
  <2>1. PICK v \in KcmdNames, e \in BOOLEAN, i \in BOOLEAN :
          dev' = WriteData(dev, v, e, i)
    BY <1>3 DEF KbdWriteData
  <2>2. /\ dev' \in KbdStates /\ dev'.buf = dev.buf /\ dev'.held = dev.held
        /\ dev'.lost = dev.lost /\ dev'.kresp = 1
    <3>1. PICK s \in KbdStates :
            /\ s.buf = dev.buf /\ s.held = dev.held /\ s.lost = dev.lost
            /\ dev' = [s EXCEPT !.en = IF s.kcmd = "DK" THEN TRUE
                                       ELSE IF s.kcmd = "EK" THEN FALSE ELSE @,
                                !.kresp = 1, !.ccmd = "none"]
      <4> DEFINE w == [dev EXCEPT !.en = e, !.int = i]
                 u == [dev EXCEPT !.kcmd = v]
                 s == IF dev.ccmd = "WCB" THEN w ELSE u
      <4>1. w \in KbdStates /\ w.buf = dev.buf /\ w.held = dev.held
              /\ w.lost = dev.lost
        BY <1>1 DEF KbdStates
      <4>2. u \in KbdStates /\ u.buf = dev.buf /\ u.held = dev.held
              /\ u.lost = dev.lost
        BY <1>1 DEF KbdStates
      <4>3. dev' = [s EXCEPT !.en = IF s.kcmd = "DK" THEN TRUE
                                    ELSE IF s.kcmd = "EK" THEN FALSE ELSE @,
                             !.kresp = 1, !.ccmd = "none"]
        BY <2>1 DEF WriteData
      <4> HIDE DEF w, u
      <4> QED BY <4>1, <4>2, <4>3
    <3> DEFINE en == IF s.kcmd = "DK" THEN TRUE
                     ELSE IF s.kcmd = "EK" THEN FALSE ELSE s.en
    <3>2. dev' = [s EXCEPT !.en = en, !.kresp = 1, !.ccmd = "none"]
      BY <3>1
    <3>3. en \in BOOLEAN
      BY <3>1 DEF KbdStates
    <3> HIDE DEF en
    <3> QED BY <3>1, <3>2, <3>3 DEF KbdStates
  <2>3. Released(dev', {})
    BY <1>1, <2>2, SameReleased
  <2> QED BY <2>2, <2>3
<1>4. CASE KbdReadData
  <2> DEFINE s == [dev EXCEPT !.irq = FALSE]
  <2>1. s \in KbdStates /\ s.irq = FALSE /\ s.buf = dev.buf /\ s.held = dev.held
          /\ s.lost = dev.lost /\ s.kresp = dev.kresp /\ s.acked = dev.acked
    BY <1>1 DEF KbdStates
  <2>2. Released(s, {})
    BY <1>1, <2>1, SameReleased
  <2>3. \/ dev' = CtrlAnswer(s) \/ dev' = Response(s) \/ dev' = s
        \/ s.buf # <<>> /\ dev' = ReadCode(s)
    BY <1>4 DEF KbdReadData, ReadData
  <2> HIDE DEF s
  <2>4. CASE dev' = CtrlAnswer(s)
    <3>1. /\ dev' \in KbdStates /\ dev'.buf = s.buf /\ dev'.held = s.held
          /\ dev'.lost = s.lost /\ dev'.kresp = 0 /\ dev'.irq = FALSE
      BY <2>1, <2>4 DEF CtrlAnswer, KbdStates
    <3>2. Released(dev', {})
      BY <2>2, <3>1, SameReleased
    <3> QED BY <3>1, <3>2
  <2>5. CASE dev' = Response(s)
    <3>1. /\ dev' \in KbdStates /\ dev'.buf = s.buf /\ dev'.held = s.held
          /\ dev'.lost = s.lost /\ dev'.irq = FALSE
          /\ dev'.kresp = 2 => dev'.acked = TRUE
      <4> DEFINE rst == s.kresp = 1 /\ s.kcmd = "RST"
                 resp == IF rst THEN 2 ELSE 0
      <4>1. dev' = [s EXCEPT !.kresp = resp, !.kcmd = "none", !.acked = rst]
        BY <2>5 DEF Response
      <4>2. rst \in BOOLEAN /\ resp \in {0, 1, 2} /\ (resp = 2 => rst = TRUE)
        OBVIOUS
      <4> HIDE DEF rst, resp
      <4> QED BY <2>1, <4>1, <4>2 DEF KbdStates
    <3>2. Released(dev', {})
      BY <2>2, <3>1, SameReleased
    <3> QED BY <3>1, <3>2
  <2>6. CASE dev' = s
    BY <1>1, <2>1, <2>2, <2>6
  <2>7. CASE s.buf # <<>> /\ dev' = ReadCode(s)
    BY <2>1, <2>2, <2>7, ReadCodeKeeps
  <2> QED BY <2>3, <2>4, <2>5, <2>6, <2>7
<1>5. CASE KbdJob
  <2>1. PICK c : dev' = kbd_job(dev, c)
    BY <1>5 DEF KbdJob
  <2> DEFINE t == IF c = "EOF" THEN dev ELSE scan_decode(dev, c)
  <2>2. Kept(dev, t) /\ Released(t, {})
    <3>1. CASE c = "EOF"
      BY <1>1, <3>1 DEF Kept
    <3>2. CASE c # "EOF"
      BY <1>1, <3>2, DecodeKept
    <3> QED BY <3>1, <3>2
  <2>3. dev' = [t EXCEPT !.irq = @ \/ (KbdWaiting(t) /\ t.int)]
    BY <2>1 DEF kbd_job
  <2> HIDE DEF t
  <2>4. /\ dev' \in KbdStates /\ dev'.buf = t.buf /\ dev'.held = t.held
        /\ dev'.lost = t.lost /\ dev'.kresp = t.kresp /\ dev'.acked = t.acked
        /\ dev'.irq = TRUE => t.irq = TRUE \/ t.kresp # 0 \/ t.buf # <<>>
    BY <2>2, <2>3 DEF Kept, KbdStates, KbdWaiting
  <2>5. Released(dev', {})
    BY <2>2, <2>4, SameReleased
  <2> QED BY <1>1, <2>2, <2>4, <2>5 DEF Kept
<1>6. CASE KbdReset
  <2>1. KbdInit'
    BY <1>1, <1>6 DEF KbdReset, KbdInit, KbdStates
  <2>2. (KbdInit => KbdInv)'
    BY KbdStarts, PTL
  <2> QED BY <2>1, <2>2 DEF KbdInv, ResetAnswers, KbdIrqReal, Is, KbdWaiting,
            KbdStates
<1>7. CASE UNCHANGED dev
  BY <1>1, <1>7
<1> QED BY <1>2, <1>3, <1>4, <1>5, <1>6, <1>7 DEF KbdNext

(* Every key the keyboard reports as pressed is reported as released, the  *)
(* answers to a reset come in order, and the interrupt line is high only   *)
(* while there is something to read, for every size of the ring.           *)
THEOREM KbdAlwaysSound == KbdSpec => []KbdSound
<1>1. KbdInv => KbdSound
  <2> SUFFICES ASSUME KbdInv, ~dev.lost, dev.buf = <<>> PROVE dev.held = {}
    BY DEF KbdInv, KbdSound, KeysReleased
  <2>1. Len(dev.buf) = 0
    BY EmptySeq
  <2> QED BY <2>1 DEF KbdInv, Released
<1> QED BY <1>1, KbdStarts, KbdStep, PTL DEF KbdSpec

-----------------------------------------------------------------------------
(* The Ethernet controller.                                                *)

(* The fields of the Ethernet controller.                                  *)
EthFields ==
  {"kind", "type", "waiting", "source", "mask", "num", "txi", "rxi", "line",
   "irq", "mod", "rxjobs", "txjobs", "bd", "orphan", "top"}

(* The shape of its state.                                                 *)
EthShape(s) ==
  /\ DOMAIN s = EthFields /\ s.kind = "eth"
  /\ s.line \in BOOLEAN /\ s.irq \in BOOLEAN /\ s.orphan \in BOOLEAN

(* The interrupt line and the flag that remembers it: high only for an     *)
(* enabled source, and left behind only by a reset.                        *)
LineSound(s) ==
  /\ s.line = TRUE => s.source \intersect s.mask # {}
  /\ s.line = TRUE => s.irq = TRUE
  /\ s.irq = TRUE /\ s.line # TRUE => s.orphan = TRUE

(* Each half has its one clock exactly while MODER enables it.             *)
ClocksSound(s) ==
  s.rxjobs = Bit("RXEN" \in s.mod) /\ s.txjobs = Bit("TXEN" \in s.mod)

(* The transmitter is below the largest bound it has had, and so is its    *)
(* bound; the receiver is among its own descriptors or at the first.       *)
TxAt(num, txi, top) ==
  /\ num \in 0 .. 2 * ETH_BDS - 1 /\ txi \in Nat /\ top \in 1 .. 2 * ETH_BDS
  /\ TxLimit(num) <= top
  /\ txi < top \/ top = TxLimit(0)
RxAt(num, rxi) == rxi \in Nat /\ rxi >= num /\ (rxi <= ETH_BDS \/ rxi = num)
IndicesSound(s) == TxAt(s.num, s.txi, s.top) /\ RxAt(s.num, s.rxi)

(* The invariant of the Ethernet controller.                               *)
EthGood(s) == EthShape(s) /\ LineSound(s) /\ ClocksSound(s) /\ IndicesSound(s)

(* t differs from s in fields of G only.                                   *)
EthSame(s, t, G) ==
  DOMAIN t = EthFields /\ \A f \in EthFields \ G : t[f] = s[f]

(* eth_reset() stops both halves and puts them at their first descriptors; *)
(* it lowers the flag, and not the line.                                   *)
LEMMA ResetGood ==
  ASSUME NEW s, DOMAIN s = EthFields, NEW t, t = eth_reset(s)
  PROVE  /\ EthSame(s, t, {"source", "mask", "num", "txi", "rxi", "top", "line",
                           "mod", "bd"})
         /\ IndicesSound(t) /\ t.line = FALSE /\ t.mod = {}
<1> DEFINE h == ETH_BDS \div 2
<1>1. h \in 1 .. ETH_BDS - 1
  BY EthAssumption
<1>2. /\ EthSame(s, t, {"source", "mask", "num", "txi", "rxi", "top", "line",
                        "mod", "bd"})
      /\ t.num = h /\ t.txi = 0 /\ t.top = h /\ t.rxi = h
      /\ t.line = FALSE /\ t.mod = {}
  BY DEF eth_reset, EthSame, EthFields
<1> HIDE DEF h
<1>3. TxAt(h, 0, h) /\ RxAt(h, h)
  BY <1>1, EthAssumption DEF TxAt, RxAt, TxLimit
<1> QED BY <1>2, <1>3 DEF IndicesSound

(* An event raises the line only for a source that is enabled.             *)
LEMMA EventGood ==
  ASSUME NEW s, EthShape(s), LineSound(s), NEW src, NEW wanted,
         NEW t, t = EthEvent(s, src, wanted)
  PROVE  EthSame(s, t, {"source", "line", "irq", "orphan"})
           /\ EthShape(t) /\ LineSound(t)
<1> DEFINE u == [s EXCEPT !.source = @ \union {src}]
<1>1. /\ EthSame(s, u, {"source"}) /\ u.source = s.source \union {src}
  BY DEF EthShape, EthSame, EthFields
<1> HIDE DEF u
<1>2. CASE wanted /\ src \in s.mask /\ ~s.line
  <2>1. t = [u EXCEPT !.line = TRUE, !.irq = TRUE, !.orphan = FALSE]
    BY <1>2 DEF EthEvent, u
  <2>2. /\ EthSame(u, t, {"line", "irq", "orphan"})
        /\ t.line = TRUE /\ t.irq = TRUE /\ t.orphan = FALSE
    BY <1>1, <2>1 DEF EthSame, EthFields
  <2>3. EthSame(s, t, {"source", "line", "irq", "orphan"})
          /\ t.source = s.source \union {src} /\ t.mask = s.mask
    BY <1>1, <2>2 DEF EthSame, EthFields
  <2> QED BY <1>2, <2>2, <2>3 DEF EthShape, LineSound, EthSame, EthFields
<1>3. CASE ~(wanted /\ src \in s.mask /\ ~s.line)
  <2>1. t = u
    BY <1>3 DEF EthEvent, u
  <2>2. s.source \intersect s.mask # {} => t.source \intersect t.mask # {}
    BY <1>1, <2>1 DEF EthSame, EthFields
  <2> QED BY <1>1, <2>1, <2>2 DEF EthShape, LineSound, EthSame, EthFields
<1> QED BY <1>2, <1>3

(* Acknowledging or masking the last source lowers the line.               *)
LEMMA LowerGood ==
  ASSUME NEW s, EthShape(s), s.line = TRUE => s.irq = TRUE,
         s.irq = TRUE /\ s.line # TRUE => s.orphan = TRUE, NEW t, t = LowerLine(s)
  PROVE  EthSame(s, t, {"line", "irq"}) /\ EthShape(t) /\ LineSound(t)
<1> DEFINE b == s.irq /\ ~s.line
<1>1. b \in BOOLEAN /\ (b = TRUE => s.orphan = TRUE)
  BY DEF EthShape
<1>2. t = [s EXCEPT !.line = FALSE, !.irq = b]
  BY DEF LowerLine
<1> HIDE DEF b
<1>3. EthSame(s, t, {"line", "irq"}) /\ t.line = FALSE /\ t.irq = b
  BY <1>2 DEF EthShape, EthSame, EthFields
<1> QED BY <1>1, <1>3 DEF EthShape, LineSound, EthSame, EthFields

(* Sending the descriptor moves the transmitter to the next of its         *)
(* descriptors.                                                            *)
LEMMA FlushGood ==
  ASSUME NEW s, EthGood(s), NEW ok, NEW t, t = eth_flush_bd(s, ok)
  PROVE  EthGood(t)
<1> DEFINE u == [s EXCEPT !.bd[s.txi].ready = FALSE]
           w == EthEvent(u, IF ok THEN "TXB" ELSE "TXE", s.bd[s.txi].irq)
           n == IF s.bd[s.txi].wrap \/ s.txi >= TxLimit(s.num) - 1 THEN 0
                ELSE s.txi + 1
<1>1. EthSame(s, u, {"bd"})
  BY DEF EthGood, EthShape, EthSame, EthFields
<1>2. t = [w EXCEPT !.txi = n]
  BY DEF eth_flush_bd
<1>3. TxAt(s.num, n, s.top)
  <2>1. TxAt(s.num, s.txi, s.top)
    BY DEF EthGood, IndicesSound
  <2>2. TxLimit(s.num) \in 1 .. 2 * ETH_BDS
    BY <2>1, EthAssumption DEF TxLimit, TxAt
  <2>3. n = 0 \/ (n = s.txi + 1 /\ s.txi < TxLimit(s.num) - 1)
    <3>1. s.txi >= TxLimit(s.num) - 1 \/ s.txi < TxLimit(s.num) - 1
      BY <2>1, <2>2 DEF TxAt
    <3> QED BY <3>1
  <2> HIDE DEF n
  <2> QED BY <2>1, <2>2, <2>3 DEF TxAt
<1> HIDE DEF u, n
<1>4. EthShape(u) /\ LineSound(u)
  BY <1>1 DEF EthGood, EthShape, LineSound, EthSame, EthFields
<1>5. EthSame(u, w, {"source", "line", "irq", "orphan"})
        /\ EthShape(w) /\ LineSound(w)
  BY <1>4, EventGood
<1> HIDE DEF w
<1>6. EthSame(w, t, {"txi"}) /\ t.txi = n
  BY <1>2, <1>5 DEF EthShape, EthSame, EthFields
<1>7. EthShape(t) /\ LineSound(t)
  BY <1>5, <1>6 DEF EthShape, LineSound, EthSame, EthFields
<1>8. EthSame(s, t, {"bd", "source", "line", "irq", "orphan", "txi"})
  BY <1>1, <1>5, <1>6 DEF EthSame, EthFields
<1>9. ClocksSound(t)
  BY <1>8 DEF EthGood, ClocksSound, EthSame, EthFields
<1>10. IndicesSound(t)
  <2>1. t.num = s.num /\ t.rxi = s.rxi /\ t.top = s.top
    BY <1>8 DEF EthSame, EthFields
  <2> QED BY <1>3, <1>6, <2>1 DEF EthGood, IndicesSound
<1> QED BY <1>7, <1>9, <1>10 DEF EthGood

(* What leaves the line, the clocks and the indices alone.                 *)
LEMMA SameGood ==
  ASSUME NEW s, EthGood(s), NEW t,
         EthSame(s, t, {"waiting", "bd", "source", "line", "irq", "orphan"}),
         EthShape(t), LineSound(t)
  PROVE  EthGood(t)
BY DEF EthGood, EthSame, EthFields, ClocksSound, IndicesSound

(* Which half waits for its descriptor does not matter here.               *)
LEMMA WaitingGood ==
  ASSUME NEW s, EthGood(s), NEW b, NEW t, t = [s EXCEPT !.waiting = b]
  PROVE  EthGood(t) /\ EthSame(s, t, {"waiting"})
<1>1. EthSame(s, t, {"waiting"})
  BY DEF EthGood, EthShape, EthSame, EthFields
<1>2. EthShape(t) /\ LineSound(t)
  BY <1>1 DEF EthGood, EthShape, LineSound, EthSame, EthFields
<1>3. EthSame(s, t, {"waiting", "bd", "source", "line", "irq", "orphan"})
  BY <1>1 DEF EthSame
<1> QED BY <1>1, <1>2, <1>3, SameGood

(* Receiving into the descriptor moves the receiver to the next of its     *)
(* descriptors.                                                            *)
LEMMA FillGood ==
  ASSUME NEW s, EthGood(s), NEW how \in {"none", "error", "mine", "other"},
         NEW t, t = eth_fill_bd(s, how)
  PROVE  EthGood(t)
<1>1. PICK u : /\ EthGood(u) /\ EthSame(s, u, {"waiting"})
               /\ u = IF how = "none" THEN s ELSE [s EXCEPT !.waiting = FALSE]
  <2>1. EthSame(s, s, {"waiting"})
    BY DEF EthGood, EthShape, EthSame
  <2> QED BY <2>1, WaitingGood
<1>2. \/ t = u \/ t = EthEvent(u, "RXE", TRUE)
      \/ t = EthEvent([u EXCEPT !.bd[s.rxi].ready = FALSE, !.rxi = NextRx(s)],
                      "RXB", s.bd[s.rxi].irq)
  BY <1>1 DEF eth_fill_bd
<1>3. CASE t = EthEvent(u, "RXE", TRUE)
  <2>1. EthSame(u, t, {"source", "line", "irq", "orphan"}) /\ EthShape(t) /\ LineSound(t)
    BY <1>1, <1>3, EventGood DEF EthGood
  <2>2. EthSame(u, t, {"waiting", "bd", "source", "line", "irq", "orphan"})
    BY <2>1 DEF EthSame
  <2> QED BY <1>1, <2>1, <2>2, SameGood
<1>4. CASE t = EthEvent([u EXCEPT !.bd[s.rxi].ready = FALSE, !.rxi = NextRx(s)],
                        "RXB", s.bd[s.rxi].irq)
  <2> DEFINE w == [u EXCEPT !.bd[s.rxi].ready = FALSE, !.rxi = NextRx(s)]
  <2>1. RxAt(s.num, NextRx(s))
    <3>1. RxAt(s.num, s.rxi) /\ s.num \in Nat /\ ETH_BDS \in Nat
      BY EthAssumption DEF EthGood, IndicesSound, TxAt
    <3>2. NextRx(s) = s.num \/ (NextRx(s) = s.rxi + 1 /\ s.rxi < ETH_BDS)
      BY <3>1 DEF NextRx, RxAt
    <3> QED BY <3>1, <3>2 DEF RxAt
  <2>2. EthSame(u, w, {"bd", "rxi"}) /\ w.rxi = NextRx(s)
    BY <1>1 DEF EthGood, EthShape, EthSame, EthFields
  <2> HIDE DEF w
  <2>3. EthShape(w) /\ LineSound(w)
    BY <1>1, <2>2 DEF EthGood, EthShape, LineSound, EthSame, EthFields
  <2>4. ClocksSound(w) /\ IndicesSound(w)
    <3>1. /\ w.num = s.num /\ w.txi = s.txi /\ w.top = s.top /\ w.mod = s.mod
          /\ w.rxjobs = s.rxjobs /\ w.txjobs = s.txjobs
      BY <1>1, <2>2 DEF EthSame, EthFields
    <3> QED BY <2>1, <2>2, <3>1 DEF EthGood, ClocksSound, IndicesSound
  <2>5. EthGood(w)
    BY <2>3, <2>4 DEF EthGood
  <2>6. EthSame(w, t, {"source", "line", "irq", "orphan"}) /\ EthShape(t) /\ LineSound(t)
    BY <1>4, <2>3, EventGood DEF w
  <2>7. EthSame(w, t, {"waiting", "bd", "source", "line", "irq", "orphan"})
    BY <2>6 DEF EthSame
  <2> QED BY <2>5, <2>6, <2>7, SameGood
<1> QED BY <1>1, <1>2, <1>3, <1>4

(* Packets that are thrown away, and the error that may stop that.         *)
LEMMA IgnoreGood ==
  ASSUME NEW s, EthGood(s), NEW t \in eth_ignore_tap_packets(s)
  PROVE  /\ EthGood(t)
         /\ EthSame(s, t, {"waiting", "source", "line", "irq", "orphan"})
<1>1. PICK u : /\ EthGood(u) /\ EthSame(s, u, {"waiting"})
               /\ t = u \/ t = EthEvent(u, "RXE", TRUE)
  <2>1. EthSame(s, s, {"waiting"})
    BY DEF EthGood, EthShape, EthSame
  <2> QED BY <2>1, WaitingGood DEF eth_ignore_tap_packets
<1>2. CASE t = EthEvent(u, "RXE", TRUE)
  <2>1. EthSame(u, t, {"source", "line", "irq", "orphan"}) /\ EthShape(t) /\ LineSound(t)
    BY <1>1, <1>2, EventGood DEF EthGood
  <2>2. EthSame(u, t, {"waiting", "bd", "source", "line", "irq", "orphan"})
    BY <2>1 DEF EthSame
  <2>3. EthSame(s, t, {"waiting", "source", "line", "irq", "orphan"})
    BY <1>1, <2>1 DEF EthSame, EthFields
  <2> QED BY <1>1, <2>1, <2>2, <2>3, SameGood
<1>3. CASE t = u
  BY <1>1, <1>3 DEF EthSame
<1> QED BY <1>1, <1>2, <1>3

(* Whatever the receiver clock finds, the invariant survives it.           *)
LEMMA RxClockGood ==
  ASSUME NEW s, EthGood(s), NEW t \in RxClocks(s)
  PROVE  EthGood(t)
<1>1. \/ t = s \/ t \in eth_ignore_tap_packets(s)
      \/ \E how \in {"none", "error", "mine", "other"} : t = eth_fill_bd(s, how)
  BY DEF RxClocks, Reads
<1> QED BY <1>1, IgnoreGood, FillGood

(* The two halves of the controller are switched before MODER is written:  *)
(* the receiver first, ...                                                 *)
LEMMA RxSwitchSound ==
  ASSUME NEW s, EthGood(s), NEW v, NEW u \in RxSwitch(s, v)
  PROVE  /\ EthSame(s, u, {"waiting", "source", "line", "irq", "orphan", "rxi",
                           "rxjobs"})
         /\ u.rxjobs = Bit("RXEN" \in v) /\ EthShape(u) /\ LineSound(u)
         /\ IndicesSound(u)
<1> DEFINE G == {"waiting", "source", "line", "irq", "orphan", "rxi", "rxjobs"}
<1>1. CASE "RXEN" \in v \ s.mod
  <2>1. PICK w : /\ w \in eth_ignore_tap_packets(s)
                 /\ u = [w EXCEPT !.rxi = s.num, !.rxjobs = @ + 1]
    BY <1>1 DEF RxSwitch
  <2>2. EthGood(w) /\ EthSame(s, w, {"waiting", "source", "line", "irq", "orphan"})
    BY <2>1, IgnoreGood
  <2>3. s.rxjobs = 0
    BY <1>1 DEF EthGood, ClocksSound, Bit
  <2>4. w.rxjobs + 1 = 1 /\ w.num = s.num
    BY <2>2, <2>3 DEF EthSame, EthFields
  <2>5. u = [w EXCEPT !.rxi = s.num, !.rxjobs = 1]
    BY <2>1, <2>4
  <2>6. EthSame(w, u, {"rxi", "rxjobs"}) /\ u.rxi = s.num /\ u.rxjobs = 1
    BY <2>2, <2>5 DEF EthSame, EthFields
  <2>7. EthSame(s, u, G)
    BY <2>2, <2>6 DEF EthSame, EthFields
  <2>8. EthShape(u) /\ LineSound(u)
    BY <2>2, <2>6 DEF EthGood, EthShape, LineSound, EthSame, EthFields
  <2>9. IndicesSound(u)
    <3>1. u.num = s.num /\ u.txi = s.txi /\ u.top = s.top
      BY <2>7 DEF EthSame, EthFields
    <3>2. TxAt(s.num, s.txi, s.top) /\ RxAt(s.num, s.num)
      BY DEF EthGood, IndicesSound, TxAt, RxAt
    <3> QED BY <2>6, <3>1, <3>2 DEF IndicesSound
  <2> QED BY <1>1, <2>6, <2>7, <2>8, <2>9 DEF Bit
<1>2. CASE "RXEN" \in s.mod \ v
  <2>1. u = [s EXCEPT !.rxjobs = IF @ > 0 THEN @ - 1 ELSE 0]
    BY <1>2 DEF RxSwitch
  <2>2. s.rxjobs = 1
    BY <1>2 DEF EthGood, ClocksSound, Bit
  <2>3. EthSame(s, u, {"rxjobs"}) /\ u.rxjobs = 0
    BY <2>1, <2>2 DEF EthGood, EthShape, EthSame, EthFields
  <2>4. EthSame(s, u, G)
    BY <2>3 DEF EthSame
  <2>5. EthShape(u) /\ LineSound(u) /\ IndicesSound(u)
    BY <2>3 DEF EthGood, EthShape, LineSound, IndicesSound, EthSame, EthFields
  <2> QED BY <1>2, <2>3, <2>4, <2>5 DEF Bit
<1>3. CASE "RXEN" \notin v \ s.mod /\ "RXEN" \notin s.mod \ v
  <2>1. u = s
    BY <1>3 DEF RxSwitch
  <2>2. EthSame(s, u, G)
    BY <2>1 DEF EthSame, EthGood, EthShape
  <2>3. u.rxjobs = Bit("RXEN" \in v)
    BY <1>3, <2>1 DEF EthGood, ClocksSound, Bit
  <2> QED BY <2>1, <2>2, <2>3 DEF EthGood
<1> QED BY <1>1, <1>2, <1>3

(* ... then the transmitter, whose bound starts anew.                      *)
LEMMA SwitchSound ==
  ASSUME NEW s, EthGood(s), NEW v, NEW u \in RxSwitch(s, v),
         NEW t, t = TxSwitch(u, v)
  PROVE  /\ t.rxjobs = Bit("RXEN" \in v) /\ t.txjobs = Bit("TXEN" \in v)
         /\ EthShape(t) /\ LineSound(t) /\ IndicesSound(t)
<1>1. /\ EthSame(s, u, {"waiting", "source", "line", "irq", "orphan", "rxi",
                        "rxjobs"})
      /\ u.rxjobs = Bit("RXEN" \in v) /\ EthShape(u) /\ LineSound(u)
      /\ IndicesSound(u)
  BY RxSwitchSound
<1>2. u.mod = s.mod /\ u.txjobs = Bit("TXEN" \in s.mod) /\ DOMAIN u = EthFields
  BY <1>1 DEF EthSame, EthFields, EthGood, ClocksSound
<1>3. CASE "TXEN" \in v \ s.mod
  <2>1. t = [u EXCEPT !.txi = 0, !.txjobs = @ + 1, !.top = TxLimit(u.num)]
    BY <1>2, <1>3 DEF TxSwitch
  <2>2. u.txjobs + 1 = 1
    BY <1>2, <1>3 DEF Bit
  <2>3. t = [u EXCEPT !.txi = 0, !.txjobs = 1, !.top = TxLimit(u.num)]
    BY <2>1, <2>2
  <2>4. /\ EthSame(u, t, {"txi", "txjobs", "top"}) /\ t.txi = 0 /\ t.txjobs = 1
        /\ t.top = TxLimit(u.num)
    BY <1>2, <2>3 DEF EthSame, EthFields
  <2>5. EthShape(t) /\ LineSound(t) /\ t.rxjobs = u.rxjobs
    BY <1>1, <2>4 DEF EthShape, LineSound, EthSame, EthFields
  <2>6. IndicesSound(t)
    <3>1. t.num = u.num /\ t.rxi = u.rxi
      BY <2>4 DEF EthSame, EthFields
    <3>2. TxAt(u.num, 0, TxLimit(u.num)) /\ RxAt(u.num, u.rxi)
      BY <1>1, EthAssumption DEF IndicesSound, TxAt, TxLimit
    <3> QED BY <2>4, <3>1, <3>2 DEF IndicesSound
  <2> QED BY <1>1, <1>3, <2>4, <2>5, <2>6 DEF Bit
<1>4. CASE "TXEN" \in s.mod \ v
  <2>1. t = [u EXCEPT !.txjobs = IF @ > 0 THEN @ - 1 ELSE 0]
    BY <1>2, <1>4 DEF TxSwitch
  <2>2. u.txjobs = 1
    BY <1>2, <1>4 DEF Bit
  <2>3. EthSame(u, t, {"txjobs"}) /\ t.txjobs = 0
    BY <1>2, <2>1, <2>2 DEF EthSame, EthFields
  <2>4. EthShape(t) /\ LineSound(t) /\ IndicesSound(t) /\ t.rxjobs = u.rxjobs
    BY <1>1, <2>3 DEF EthShape, LineSound, IndicesSound, EthSame, EthFields
  <2> QED BY <1>1, <1>4, <2>3, <2>4 DEF Bit
<1>5. CASE "TXEN" \notin v \ s.mod /\ "TXEN" \notin s.mod \ v
  <2>1. t = u
    BY <1>2, <1>5 DEF TxSwitch
  <2>2. t.txjobs = Bit("TXEN" \in v)
    BY <1>2, <1>5, <2>1 DEF Bit
  <2> QED BY <1>1, <2>1, <2>2
<1> QED BY <1>3, <1>4, <1>5

(* Writing MODER starts and stops the clocks it changes, and keeps the     *)
(* others.                                                                 *)
LEMMA ModerGood ==
  ASSUME NEW s, EthGood(s), NEW v, NEW t \in WriteModer(s, v)
  PROVE  EthGood(t)
<1>1. PICK y \in RxSwitch(s, v) :
        t = [(IF "RST" \in v THEN EthRst(TxSwitch(y, v)) ELSE TxSwitch(y, v))
               EXCEPT !.mod = v \ {"RST"}]
  BY DEF WriteModer
<1> DEFINE u == TxSwitch(y, v)
           x == eth_reset(u)
           w == IF "RST" \in v THEN EthRst(u) ELSE u
<1>2. /\ u.rxjobs = Bit("RXEN" \in v) /\ u.txjobs = Bit("TXEN" \in v)
      /\ EthShape(u) /\ LineSound(u) /\ IndicesSound(u)
  BY SwitchSound
<1>3. t = [w EXCEPT !.mod = v \ {"RST"}]
  BY <1>1
<1>4. /\ EthShape(w) /\ LineSound(w) /\ w.rxjobs = u.rxjobs /\ w.txjobs = u.txjobs
      /\ IndicesSound(w)
  <2> HIDE DEF u
  <2>1. CASE "RST" \in v
    <3>1. w = [x EXCEPT !.orphan = u.irq]
      BY <2>1 DEF EthRst
    <3>2. /\ EthSame(u, x, {"source", "mask", "num", "txi", "rxi", "top", "line",
                            "mod", "bd"})
          /\ IndicesSound(x) /\ x.line = FALSE
      BY <1>2, ResetGood DEF EthShape
    <3> HIDE DEF x, w
    <3>3. EthSame(x, w, {"orphan"}) /\ w.orphan = u.irq
      BY <3>1, <3>2 DEF EthSame, EthFields
    <3>4. /\ w.line = FALSE /\ w.irq = u.irq /\ w.kind = u.kind
          /\ w.rxjobs = u.rxjobs /\ w.txjobs = u.txjobs
      BY <3>2, <3>3 DEF EthSame, EthFields
    <3>5. EthShape(w)
      BY <1>2, <3>3, <3>4 DEF EthShape, EthSame
    <3>6. LineSound(w)
      BY <3>3, <3>4 DEF LineSound
    <3>7. IndicesSound(w)
      BY <3>2, <3>3 DEF IndicesSound, EthSame, EthFields
    <3> QED BY <3>4, <3>5, <3>6, <3>7
  <2>2. CASE "RST" \notin v
    BY <1>2, <2>2
  <2> QED BY <2>1, <2>2
<1> HIDE DEF u, w
<1>5. EthSame(w, t, {"mod"}) /\ t.mod = v \ {"RST"}
  BY <1>3, <1>4 DEF EthShape, EthSame, EthFields
<1>6. EthShape(t) /\ LineSound(t) /\ IndicesSound(t)
  BY <1>4, <1>5 DEF EthShape, LineSound, IndicesSound, EthSame, EthFields
<1>7. ("RXEN" \in t.mod) = ("RXEN" \in v) /\ ("TXEN" \in t.mod) = ("TXEN" \in v)
  BY <1>5
<1>8. t.rxjobs = u.rxjobs /\ t.txjobs = u.txjobs
  BY <1>4, <1>5 DEF EthSame, EthFields
<1>9. ClocksSound(t)
  BY <1>2, <1>7, <1>8 DEF ClocksSound
<1> QED BY <1>6, <1>9 DEF EthGood

(* A fresh controller satisfies the invariant.                             *)
LEMMA EthStarts == EthInit => EthGood(dev)
<1> SUFFICES ASSUME NEW s, DOMAIN s = EthFields, s.kind = "eth", s.irq = FALSE,
                    s.orphan = FALSE, s.rxjobs = 0, s.txjobs = 0,
                    dev = eth_reset(s)
             PROVE  EthGood(dev)
  BY DEF EthInit, EthFields
<1>1. /\ EthSame(s, dev, {"source", "mask", "num", "txi", "rxi", "top", "line",
                          "mod", "bd"})
      /\ IndicesSound(dev) /\ dev.line = FALSE /\ dev.mod = {}
  BY ResetGood
<1>4. dev.irq = FALSE /\ dev.orphan = FALSE /\ dev.kind = "eth"
  BY <1>1 DEF EthSame, EthFields
<1>2. EthShape(dev) /\ LineSound(dev)
  BY <1>1, <1>4 DEF EthShape, LineSound, EthSame
<1>3. ClocksSound(dev)
  BY <1>1 DEF ClocksSound, EthSame, EthFields, Bit
<1> QED BY <1>1, <1>2, <1>3 DEF EthGood

(* Every register write, clock, packet and reset of the controller keeps   *)
(* the invariant.                                                          *)
LEMMA EthStep == EthGood(dev) /\ [EthNext]_dev => EthGood(dev)'
<1> SUFFICES ASSUME EthGood(dev), [EthNext]_dev PROVE EthGood(dev')
  OBVIOUS
<1>1. CASE EthModer
  BY <1>1, ModerGood DEF EthModer
<1>2. CASE EthWriteInts
  <2>1. ASSUME NEW i, dev' = WriteIntSource(dev, {i}) PROVE EthGood(dev')
    <3> DEFINE u == [dev EXCEPT !.source = @ \ {i}]
    <3>1. EthSame(dev, u, {"source"})
      BY DEF EthGood, EthShape, EthSame, EthFields
    <3>2. \/ u.source \intersect dev.mask # {} /\ dev' = u
          \/ dev' = LowerLine(u)
      BY <2>1 DEF WriteIntSource
    <3> HIDE DEF u
    <3>3. /\ EthShape(u) /\ (u.line = TRUE => u.irq = TRUE)
          /\ u.irq = TRUE /\ u.line # TRUE => u.orphan = TRUE
      BY <3>1 DEF EthGood, EthShape, LineSound, EthSame, EthFields
    <3>4. EthSame(u, dev', {"line", "irq"}) /\ EthShape(dev') /\ LineSound(dev')
      <4>1. CASE u.source \intersect dev.mask # {} /\ dev' = u
        BY <3>1, <3>3, <4>1 DEF LineSound, EthSame, EthFields
      <4>2. CASE dev' = LowerLine(u)
        BY <3>3, <4>2, LowerGood
      <4> QED BY <3>2, <4>1, <4>2
    <3>5. EthSame(dev, dev', {"waiting", "bd", "source", "line", "irq", "orphan"})
      BY <3>1, <3>4 DEF EthSame, EthFields
    <3> QED BY <3>4, <3>5, SameGood
  <2>2. ASSUME NEW v, dev' = WriteIntMask(dev, v) PROVE EthGood(dev')
    <3> DEFINE u == [dev EXCEPT !.mask = v]
    <3>1. EthSame(dev, u, {"mask"})
      BY DEF EthGood, EthShape, EthSame, EthFields
    <3>2. dev' = LowerLine(u)
      BY <2>2 DEF WriteIntMask
    <3> HIDE DEF u
    <3>3. /\ EthShape(u) /\ (u.line = TRUE => u.irq = TRUE)
          /\ u.irq = TRUE /\ u.line # TRUE => u.orphan = TRUE
      BY <3>1 DEF EthGood, EthShape, LineSound, EthSame, EthFields
    <3>4. EthSame(u, dev', {"line", "irq"}) /\ EthShape(dev') /\ LineSound(dev')
      BY <3>2, <3>3, LowerGood
    <3>5. ClocksSound(dev') /\ IndicesSound(dev')
      BY <3>1, <3>4 DEF EthGood, ClocksSound, IndicesSound, EthSame, EthFields
    <3> QED BY <3>4, <3>5 DEF EthGood
  <2> QED BY <1>2, <2>1, <2>2 DEF EthWriteInts
<1>3. CASE EthWriteNum
  <2>1. PICK v \in EthNums : dev' = WriteNum(dev, v)
    BY <1>3 DEF EthWriteNum
  <2> DEFINE n == IF dev.top > TxLimit(v) THEN dev.top ELSE TxLimit(v)
  <2>2. TxAt(v, dev.txi, n) /\ RxAt(v, v)
    <3>1. v \in 0 .. 2 * ETH_BDS - 1 /\ ETH_BDS \in Nat /\ ETH_BDS >= 2
      BY EthAssumption
    <3>2. TxLimit(v) \in 1 .. 2 * ETH_BDS /\ TxLimit(0) = 2 * ETH_BDS
      BY <3>1 DEF TxLimit
    <3>3. TxAt(dev.num, dev.txi, dev.top)
      BY DEF EthGood, IndicesSound
    <3>4. TxAt(v, dev.txi, n)
      BY <3>1, <3>2, <3>3 DEF TxAt
    <3> QED BY <3>1, <3>4 DEF RxAt
  <2>3. /\ EthSame(dev, dev', {"num", "rxi", "top"}) /\ dev'.num = v /\ dev'.rxi = v
        /\ dev'.top = n
    BY <2>1 DEF WriteNum, EthGood, EthShape, EthSame, EthFields
  <2> HIDE DEF n
  <2>4. dev'.txi = dev.txi
    BY <2>3 DEF EthSame, EthFields
  <2>5. EthShape(dev') /\ LineSound(dev') /\ ClocksSound(dev')
    BY <2>3 DEF EthGood, EthShape, LineSound, ClocksSound, EthSame, EthFields
  <2>6. IndicesSound(dev')
    BY <2>2, <2>3, <2>4 DEF IndicesSound
  <2> QED BY <2>5, <2>6 DEF EthGood
<1>4. CASE EthWriteBd
  <2>1. PICK i \in 0 .. ETH_BDS - 1, b \in EthBds : dev' = [dev EXCEPT !.bd[i] = b]
    BY <1>4 DEF EthWriteBd
  <2>2. EthSame(dev, dev', {"bd"})
    BY <2>1 DEF EthGood, EthShape, EthSame, EthFields
  <2>3. EthShape(dev') /\ LineSound(dev')
    BY <2>2 DEF EthGood, EthShape, LineSound, EthSame, EthFields
  <2>4. EthSame(dev, dev', {"waiting", "bd", "source", "line", "irq", "orphan"})
    BY <2>2 DEF EthSame
  <2> QED BY <2>3, <2>4, SameGood
<1>5. CASE EthArrive
  BY <1>5, WaitingGood DEF EthArrive
<1>6. CASE eth_controller_tx_clock
  BY <1>6, FlushGood DEF eth_controller_tx_clock
<1>7. CASE eth_controller_rx_clock
  BY <1>7, RxClockGood DEF eth_controller_rx_clock
<1>8. CASE EthReset
  <2> DEFINE u == eth_reset(dev)
  <2>1. dev' = [u EXCEPT !.irq = FALSE, !.orphan = FALSE, !.rxjobs = 0, !.txjobs = 0]
    BY <1>8 DEF EthReset
  <2>2. /\ EthSame(dev, u, {"source", "mask", "num", "txi", "rxi", "top", "line",
                            "mod", "bd"})
        /\ IndicesSound(u) /\ u.line = FALSE /\ u.mod = {}
    BY ResetGood DEF EthGood, EthShape
  <2> HIDE DEF u
  <2>3. /\ EthSame(u, dev', {"irq", "orphan", "rxjobs", "txjobs"})
        /\ dev'.irq = FALSE /\ dev'.orphan = FALSE /\ dev'.rxjobs = 0
        /\ dev'.txjobs = 0
    BY <2>1, <2>2 DEF EthSame, EthFields
  <2>6. dev'.kind = dev.kind /\ dev'.line = FALSE /\ dev'.mod = {}
    BY <2>2, <2>3 DEF EthSame, EthFields
  <2>4. EthShape(dev') /\ LineSound(dev')
    BY <2>2, <2>3, <2>6 DEF EthGood, EthShape, LineSound, EthSame
  <2>5. ClocksSound(dev') /\ IndicesSound(dev')
    BY <2>2, <2>3, <2>6 DEF ClocksSound, IndicesSound, EthSame, EthFields, Bit
  <2> QED BY <2>4, <2>5 DEF EthGood
<1>9. CASE UNCHANGED dev
  BY <1>9
<1> QED BY <1>1, <1>2, <1>3, <1>4, <1>5, <1>6, <1>7, <1>8, <1>9 DEF EthNext

(* For every number of descriptors and every TX_BD_NUM, written at any     *)
(* time: each half has one clock while enabled, the transmitter stays      *)
(* below the largest bound it has had and the receiver behind its first    *)
(* descriptor, and the interrupt line has its source.                      *)
THEOREM EthAlwaysSound == EthSpec => []EthSound
<1>1. EthGood(dev) => EthSound
  BY DEF EthGood, EthSound, EthOneClock, EthLineHasSource, EthIndices, EthShape,
         LineSound, ClocksSound, IndicesSound, TxAt, RxAt
<1> QED BY <1>1, EthStarts, EthStep, PTL DEF EthSpec

-----------------------------------------------------------------------------
(* The ATA host and its two devices.                                       *)

(* The fields of one ATA device.                                           *)
DiskFields ==
  {"stream", "packet", "size", "dev", "status", "state", "intrq", "ien", "rst",
   "sel", "heads", "sectors", "addr", "cnt", "nr", "end", "jobs"}

(* A disk whose buffer pointer is in bounds;                               *)
Bounded(v) ==
  /\ DOMAIN v = DiskFields /\ v.jobs \in Nat
  /\ "DRQ" \in v.status => v.cnt \in 1 .. AtaWords

(* ... and that will be ready.                                             *)
Ends(v) == "BSY" \in v.status => v.jobs > 0 \/ v.state # "IDLE"

(* The invariant of one disk.                                              *)
DiskGood(v) == Bounded(v) /\ Ends(v)

(* The invariant of the host and its disks.                                *)
AtaGood(s) ==
  /\ DOMAIN s = {"kind", "cmds", "en", "ideis", "d"} /\ s.kind = "ata"
  /\ DOMAIN s.d = AtaIds
  /\ \A i \in AtaIds : DiskGood(s.d[i])

(* A command that schedules its completion will be completed.              *)
LEMMA AddJobGood ==
  ASSUME NEW v, Bounded(v), NEW w, w = AtaAddJob(v)
  PROVE  DiskGood(w)
<1>1. v.jobs + 1 \in Nat /\ v.jobs + 1 > 0
  BY DEF Bounded
<1>2. /\ DOMAIN w = DiskFields /\ w.jobs = v.jobs + 1 /\ w.status = v.status
      /\ w.cnt = v.cnt
  BY DEF Bounded, DiskFields, AtaAddJob
<1> QED BY <1>1, <1>2 DEF DiskGood, Bounded, Ends

(* The signature of a device touches neither its status nor its job.       *)
LEMMA SignatureGood ==
  ASSUME NEW v, Bounded(v), NEW w, w = AtaSignature(v)
  PROVE  /\ Bounded(w) /\ w.status = v.status /\ w.jobs = v.jobs
         /\ w.state = v.state /\ w.cnt = v.cnt /\ w.packet = v.packet
BY DEF Bounded, DiskFields, AtaSignature

(* The diagnostics leave a disk no busier than it was.                     *)
LEMMA DiagnosticsGood ==
  ASSUME NEW v, Bounded(v), NEW w, w = ata_execute_device_diagnostics(v)
  PROVE  /\ Bounded(w) /\ w.status \subseteq v.status /\ w.jobs = v.jobs
         /\ w.state = v.state
<1> DEFINE u == AtaSignature(v)
           st == IF v.packet THEN u.status \ {"ERR"} ELSE u.status \cap {"BSY"}
<1>1. w = [u EXCEPT !.rst = FALSE, !.sel = FALSE, !.addr.lba = FALSE,
                    !.addr.head = 0, !.status = st]
  BY DEF ata_execute_device_diagnostics
<1>2. /\ Bounded(u) /\ u.status = v.status /\ u.jobs = v.jobs /\ u.state = v.state
      /\ st \subseteq u.status
  BY SignatureGood
<1> HIDE DEF u, st
<1>3. /\ DOMAIN w = DiskFields /\ w.status = st /\ w.jobs = u.jobs
      /\ w.state = u.state /\ w.cnt = u.cnt
  BY <1>1, <1>2 DEF Bounded, DiskFields
<1> QED BY <1>2, <1>3 DEF Bounded

(* A buffer just filled is in bounds.                                      *)
LEMMA FullBuffer == AtaWords \in 1 .. AtaWords
BY AtaAssumption

(* Reading a sector offers a full buffer.                                  *)
LEMMA ReadSectGood ==
  ASSUME NEW v, DiskGood(v), NEW w, w = ata_read_sect(v)
  PROVE  DiskGood(w)
<1>1. CASE v.nr = 0
  BY <1>1 DEF ata_read_sect
<1>2. CASE v.nr # 0
  <2> DEFINE u == [v EXCEPT !.status = {"DRDY", "DRQ"}, !.cnt = AtaWords,
                            !.nr = @ - 1]
  <2>1. w = AtaAddJob(u)
    BY <1>2 DEF ata_read_sect
  <2>2. Bounded(u)
    BY FullBuffer DEF DiskGood, Bounded, DiskFields
  <2> QED BY <2>1, <2>2, AddJobGood
<1> QED BY <1>1, <1>2

(* Writing a sector asks for a full buffer.                                *)
LEMMA WriteSectGood ==
  ASSUME NEW v, DiskGood(v), NEW w, w = ata_write_sect(v)
  PROVE  DiskGood(w)
<1>1. CASE v.nr = 0
  <2>1. w = [v EXCEPT !.status = {"DRDY"}]
    BY <1>1 DEF ata_write_sect
  <2> QED BY <2>1 DEF DiskGood, Bounded, DiskFields, Ends
<1>2. CASE v.nr # 0
  <2> DEFINE st == {"DRDY", "DSC", "BSY"} \cup (IF v.nr > 1 THEN {"DRQ"} ELSE {})
             u == [v EXCEPT !.status = st, !.cnt = AtaWords, !.nr = @ - 1]
  <2>1. w = AtaAddJob(u)
    BY <1>2 DEF ata_write_sect
  <2> HIDE DEF st
  <2>2. Bounded(u)
    BY FullBuffer DEF DiskGood, Bounded, DiskFields
  <2> QED BY <2>1, <2>2, AddJobGood
<1> QED BY <1>1, <1>2

(* IDENTIFY DEVICE offers a full buffer.                                   *)
LEMMA IdentifyGood ==
  ASSUME NEW v, DiskGood(v), NEW w, w = ata_identify_device(v)
  PROVE  DiskGood(w)
<1> DEFINE u == [v EXCEPT !.cnt = AtaWords, !.end = "none"]
           x == AtaSignature(u)
<1>1. Bounded(u) /\ u.cnt = AtaWords
  BY FullBuffer DEF DiskGood, Bounded, DiskFields
<1>2. w = [x EXCEPT !.status = {"ERR"}] \/ w = [u EXCEPT !.status = {"DRDY", "DRQ"}]
  BY DEF ata_identify_device
<1> HIDE DEF u
<1>3. Bounded(x)
  BY <1>1, SignatureGood
<1> HIDE DEF x
<1>4. CASE w = [x EXCEPT !.status = {"ERR"}]
  BY <1>3, <1>4 DEF DiskGood, Bounded, DiskFields, Ends
<1>5. CASE w = [u EXCEPT !.status = {"DRDY", "DRQ"}]
  BY <1>1, <1>5, FullBuffer DEF DiskGood, Bounded, DiskFields, Ends
<1> QED BY <1>2, <1>4, <1>5

(* An aborted command leaves the disk ready.                               *)
LEMMA RefusedGood ==
  ASSUME NEW v, DiskGood(v), NEW w, w = AtaRefused(v)
  PROVE  DiskGood(w)
<1> DEFINE u == IF v.packet THEN AtaSignature(v) ELSE v
<1>1. Bounded(u)
  BY SignatureGood DEF DiskGood
<1>2. w = [u EXCEPT !.status = {"ERR", "DRDY"}]
  BY DEF AtaRefused
<1> HIDE DEF u
<1> QED BY <1>1, <1>2 DEF DiskGood, Bounded, DiskFields, Ends

(* A command that moves sectors remembers how many and what ends it.       *)
LEMMA TransferGood ==
  ASSUME NEW v, DiskGood(v), NEW n, NEW end, NEW w, w = AtaTransfer(v, n, end)
  PROVE  DiskGood(w)
BY DEF AtaTransfer, DiskGood, Bounded, DiskFields, Ends

(* Every command of ata_device_execute_cmd() keeps a disk in bounds and,   *)
(* if it leaves it busy, has scheduled its completion.                     *)
LEMMA CommandGood ==
  ASSUME NEW v, DiskGood(v), NEW cmd, NEW n,
         NEW w, w = ata_device_execute_cmd(v, cmd, n)
  PROVE  DiskGood(w)
<1>1. ASSUME NEW st, "DRQ" \notin st, NEW u, u = [v EXCEPT !.status = st],
             w = AtaAddJob(u)
      PROVE  DiskGood(w)
  <2>1. Bounded(u)
    BY <1>1 DEF DiskGood, Bounded, DiskFields
  <2> QED BY <1>1, <2>1, AddJobGood
<1>2. CASE cmd \in {"RESET", "DIAG"}
  <2>1. w = AtaAddJob(ata_execute_device_diagnostics(v))
    BY <1>2 DEF ata_device_execute_cmd
  <2>2. Bounded(ata_execute_device_diagnostics(v))
    BY DiagnosticsGood DEF DiskGood
  <2> QED BY <2>1, <2>2, AddJobGood
<1>3. CASE cmd = "IDENTIFY"
  BY <1>3, IdentifyGood DEF ata_device_execute_cmd
<1>4. CASE cmd = "INIT_PARAMS"
  <2> DEFINE u == ata_initialize_device_parameters(v, n)
  <2>1. Bounded(u)
    BY DEF ata_initialize_device_parameters, DiskGood, Bounded, DiskFields
  <2>2. w = AtaAddJob(u)
    BY <1>4 DEF ata_device_execute_cmd
  <2> QED BY <2>1, <2>2, AddJobGood
<1>5. CASE cmd = "READ"
  <2>1. \/ w = ata_read_sect(AtaTransfer(v, n, "read")) \/ w = AtaRefused(v)
    BY <1>5 DEF ata_device_execute_cmd, ata_read_sectors
  <2>2. DiskGood(AtaTransfer(v, n, "read"))
    BY TransferGood
  <2> QED BY <2>1, <2>2, ReadSectGood, RefusedGood
<1>6. CASE cmd = "WRITE"
  <2>1. PICK u : w = AtaAddJob(u) /\ u = ata_write_sectors(v, n)
    BY <1>6 DEF ata_device_execute_cmd
  <2> DEFINE x == AtaTransfer(v, n, "write")
  <2>2. \/ u = [x EXCEPT !.cnt = AtaWords, !.status = {"BSY", "DRDY", "DRQ"}]
        \/ u = AtaRefused(v)
    BY <2>1 DEF ata_write_sectors
  <2>3. DiskGood(x)
    BY TransferGood
  <2> HIDE DEF x
  <2>4. CASE u = [x EXCEPT !.cnt = AtaWords, !.status = {"BSY", "DRDY", "DRQ"}]
    <3>1. Bounded(u)
      BY <2>3, <2>4, FullBuffer DEF DiskGood, Bounded, DiskFields
    <3> QED BY <2>1, <3>1, AddJobGood
  <2>5. CASE u = AtaRefused(v)
    BY <2>1, <2>5, RefusedGood, AddJobGood DEF DiskGood
  <2> QED BY <2>2, <2>4, <2>5
<1>7. CASE cmd = "NATIVE_MAX"
  <2>1. PICK u : w = AtaAddJob(u) /\ u = ata_read_native_max_addr(v)
    BY <1>7 DEF ata_device_execute_cmd
  <2> DEFINE new == ata_set_sect(v.addr.lba, (v.size * 2^11) % AtaWrap)
  <2>2. u = [v EXCEPT !.status = {"DRDY", "BSY"}, !.addr = new]
    BY <2>1 DEF ata_read_native_max_addr
  <2> HIDE DEF new
  <2>3. Bounded(u)
    BY <2>2 DEF DiskGood, Bounded, DiskFields
  <2> QED BY <2>1, <2>3, AddJobGood
<1>8. CASE cmd \in {"SET_MODE", "SET_OTHER"}
  <2> DEFINE st == {"DRDY", "BSY"}
                     \cup (IF cmd = "SET_MODE" THEN {"DSC"} ELSE {"ERR"})
  <2>1. "DRQ" \notin st
    OBVIOUS
  <2>2. w = AtaAddJob([v EXCEPT !.status = st])
    BY <1>8 DEF ata_device_execute_cmd, ata_set_features
  <2> HIDE DEF st
  <2> QED BY <1>1, <2>1, <2>2
<1>9. CASE cmd \notin {"RESET", "DIAG", "IDENTIFY", "INIT_PARAMS", "READ", "WRITE",
                       "NATIVE_MAX", "SET_MODE", "SET_OTHER"}
  <2>1. w = AtaAddJob([v EXCEPT !.status = {"ERR", "BSY", "DRDY"}])
    BY <1>9 DEF ata_device_execute_cmd
  <2> QED BY <1>1, <2>1
<1> QED BY <1>2, <1>3, <1>4, <1>5, <1>6, <1>7, <1>8, <1>9

(* One word of the data register moves the pointer inside the buffer, and  *)
(* the last word ends the transfer or schedules the next sector.           *)
LEMMA DataWordGood ==
  ASSUME NEW v, DiskGood(v), NEW w, w = AtaDataWord(v)
  PROVE  DiskGood(w)
<1> DEFINE u == [v EXCEPT !.cnt = @ - 1]
           e == [u EXCEPT !.status = @ \ {"DRQ"}]
<1>1. /\ DOMAIN u = DiskFields /\ u.cnt = v.cnt - 1 /\ u.status = v.status
      /\ u.jobs = v.jobs /\ u.state = v.state
  BY DEF DiskGood, Bounded, DiskFields
<1>2. \/ w = v
      \/ "DRQ" \in v.status /\ u.cnt # 0 /\ w = u
      \/ w = ata_read_sect(e) \/ w = ata_write_sect(e) \/ w = e
  BY DEF AtaDataWord
<1> HIDE DEF u
<1>3. DiskGood(e)
  <2>1. /\ DOMAIN e = DiskFields /\ e.status = v.status \ {"DRQ"}
        /\ e.jobs = v.jobs /\ e.state = v.state
    BY <1>1 DEF DiskFields
  <2> HIDE DEF e
  <2> QED BY <2>1 DEF DiskGood, Bounded, Ends
<1> HIDE DEF e
<1>4. CASE "DRQ" \in v.status /\ u.cnt # 0 /\ w = u
  <2>1. u.cnt \in 1 .. AtaWords
    BY <1>1, <1>4, AtaAssumption DEF DiskGood, Bounded
  <2> QED BY <1>1, <1>4, <2>1 DEF DiskGood, Bounded, Ends
<1> QED BY <1>2, <1>3, <1>4, ReadSectGood, WriteSectGood

(* A disk whose job has run is ready.                                      *)
LEMMA ReadyGood ==
  ASSUME NEW v, Bounded(v), NEW w, w = AtaReady(v)
  PROVE  DiskGood(w)
<1> DEFINE u == ata_execute_device_diagnostics(v)
           st == (u.status \ {"BSY"}) \cup (IF v.packet THEN {} ELSE {"DRDY"})
<1>1. Bounded(u)
  BY DiagnosticsGood
<1>2. w = [u EXCEPT !.state = "IDLE", !.status = st]
  BY DEF AtaReady
<1>3. "BSY" \notin st /\ ("DRQ" \in st => "DRQ" \in u.status)
  OBVIOUS
<1> HIDE DEF u, st
<1> QED BY <1>1, <1>2, <1>3 DEF DiskGood, Bounded, DiskFields, Ends

(* A disk stopped by a reset is busy only for the reset.                   *)
LEMMA StopGood ==
  ASSUME NEW v, Bounded(v), NEW state, state # "IDLE",
         NEW w, w = AtaStop(v, state)
  PROVE  DiskGood(w)
<1>1. /\ DOMAIN w = DiskFields /\ w.status = v.status \cup {"BSY"}
      /\ w.jobs = v.jobs /\ w.state = state /\ w.cnt = v.cnt
  BY DEF AtaStop, Bounded, DiskFields
<1> QED BY <1>1 DEF DiskGood, Bounded, Ends

(* The hardware reset line, up or down, keeps a disk in bounds.            *)
LEMMA HwResetGood ==
  ASSUME NEW v, DiskGood(v), NEW signal, NEW w, w = ata_device_hw_reset(v, signal)
  PROVE  DiskGood(w)
<1> DEFINE u == [v EXCEPT !.sectors = AtaSectors, !.heads = AtaHeads]
<1>1. Bounded(u)
  BY DEF DiskGood, Bounded, DiskFields
<1>2. w = v \/ w = AtaReady(u) \/ w = AtaStop(v, "HW_RST")
  BY DEF ata_device_hw_reset
<1> QED BY <1>1, <1>2, ReadyGood, StopGood DEF DiskGood

(* The reset of the simulator drops the job of a disk and holds the disk   *)
(* in its hardware reset.                                                  *)
LEMMA SimResetGood ==
  ASSUME NEW v, DiskGood(v), NEW u, u = [v EXCEPT !.jobs = 0],
         NEW w, w = ata_device_hw_reset(u, TRUE)
  PROVE  DiskGood(w)
<1>1. Bounded(u)
  BY DEF DiskGood, Bounded, DiskFields
<1>2. CASE u.state = "HW_RST"
  BY <1>1, <1>2 DEF ata_device_hw_reset, DiskGood, Ends
<1>3. CASE u.state # "HW_RST"
  <2>1. w = AtaStop(u, "HW_RST")
    BY <1>3 DEF ata_device_hw_reset
  <2> QED BY <1>1, <2>1, StopGood
<1> QED BY <1>2, <1>3

(* The control register, with the software reset in it, keeps a disk in    *)
(* bounds.                                                                 *)
LEMMA ControlGood ==
  ASSUME NEW v, DiskGood(v), NEW w, w = ata_device_do_control_register(v)
  PROVE  DiskGood(w)
<1>1. w = v \/ w = AtaReady(v) \/ w = AtaStop(v, "SW_RST")
  BY DEF ata_device_do_control_register
<1> QED BY <1>1, ReadyGood, StopGood DEF DiskGood

(* From s to t only disk i has changed.                                    *)
OneDisk(s, t, i) ==
  /\ DOMAIN t = DOMAIN s /\ t.kind = s.kind /\ DOMAIN t.d = AtaIds
  /\ \A j \in AtaIds \ {i} : t.d[j] = s.d[j]
  /\ DOMAIN t.d[i] = DiskFields

(* The completion of a command (ata_cmd_complete) makes the disk that      *)
(* asked for it ready.                                                     *)
LEMMA CompleteGood ==
  ASSUME NEW s, AtaGood(s), NEW i \in AtaIds, s.d[i].jobs > 0,
         NEW t, t = ata_cmd_complete(s, i)
  PROVE  AtaGood(t)
<1> DEFINE v == s.d[i]
           a == [s EXCEPT !.d[i].jobs = s.d[i].jobs - 1]
           b == [a EXCEPT !.d[i].status = s.d[i].status \ {"BSY"}]
           c == [b EXCEPT !.d[i].intrq = TRUE]
<1>1. DiskGood(v) /\ v.jobs \in Nat /\ v.jobs > 0 /\ DOMAIN v = DiskFields
  BY DEF AtaGood, DiskGood, Bounded
<1>2. t = b \/ t = [c EXCEPT !.ideis = TRUE]
  BY DEF ata_cmd_complete, ata_int
<1>3. /\ OneDisk(s, a, i) /\ a.d[i].jobs = v.jobs - 1
      /\ a.d[i].status = v.status /\ a.d[i].cnt = v.cnt
  BY <1>1 DEF AtaGood, OneDisk, DiskFields
<1> HIDE DEF a
<1>4. /\ OneDisk(s, b, i) /\ b.d[i].jobs = v.jobs - 1
      /\ b.d[i].status = v.status \ {"BSY"} /\ b.d[i].cnt = v.cnt
  BY <1>3 DEF AtaGood, OneDisk, DiskFields
<1> HIDE DEF b
<1>5. /\ OneDisk(s, c, i) /\ c.d[i].jobs = v.jobs - 1
      /\ c.d[i].status = v.status \ {"BSY"} /\ c.d[i].cnt = v.cnt
  BY <1>4 DEF AtaGood, OneDisk, DiskFields
<1> HIDE DEF c
<1>6. /\ OneDisk(s, t, i) /\ t.d[i].jobs = v.jobs - 1
      /\ t.d[i].status = v.status \ {"BSY"} /\ t.d[i].cnt = v.cnt
  BY <1>2, <1>4, <1>5 DEF AtaGood, OneDisk
<1>7. v.jobs - 1 \in Nat
  BY <1>1
<1>8. DiskGood(t.d[i])
  BY <1>1, <1>6, <1>7 DEF OneDisk, DiskGood, Bounded, Ends
<1> QED BY <1>6, <1>8 DEF AtaGood, OneDisk

(* What is good for each disk is good for both.                            *)
LEMMA EachGood ==
  ASSUME NEW s, AtaGood(s), NEW e, \A i \in AtaIds : DiskGood(e[i]),
         NEW t, t = AtaEach(s, e)
  PROVE  AtaGood(t)
BY DEF AtaEach, AtaGood

(* One disk is replaced.                                                   *)
LEMMA PutGood ==
  ASSUME NEW s, AtaGood(s), NEW i, NEW v, i \in AtaIds => DiskGood(v),
         NEW t, t = [s EXCEPT !.d[i] = v]
  PROVE  AtaGood(t)
BY DEF AtaGood

(* A fresh host satisfies the invariant.                                   *)
LEMMA AtaStarts == AtaInit => AtaGood(dev)
<1> SUFFICES ASSUME NEW c \in AtaCables,
                    dev = AtaEach(Ata(c), [i \in AtaIds |->
                            ata_device_hw_reset(Ata(c).d[i], TRUE)])
             PROVE  AtaGood(dev)
  BY DEF AtaInit
<1> DEFINE s == Ata(c)
           e == [i \in AtaIds |-> ata_device_hw_reset(s.d[i], TRUE)]
<1>1. AtaGood(s)
  BY DEF Ata, ata_device_init, AtaGood, DiskGood, Bounded, Ends, DiskFields
<1>2. dev = AtaEach(s, e)
  OBVIOUS
<1> HIDE DEF s
<1>3. ASSUME NEW i \in AtaIds PROVE DiskGood(e[i])
  BY <1>1, HwResetGood DEF AtaGood
<1> HIDE DEF e
<1> QED BY <1>1, <1>2, <1>3, EachGood

(* Every register access, data word, completion and reset of the ATA host  *)
(* keeps the invariant.                                                    *)
LEMMA AtaStep == AtaGood(dev) /\ [AtaNext]_dev => AtaGood(dev)'
<1> SUFFICES ASSUME AtaGood(dev), [AtaNext]_dev PROVE AtaGood(dev')
  OBVIOUS
<1>1. \A i \in AtaIds : DiskGood(dev.d[i])
  BY DEF AtaGood
<1>2. CASE AtaWriteCtrl
  <2>1. PICK rst \in BOOLEAN, en \in BOOLEAN :
          dev' = AtaEach([dev EXCEPT !.en = en],
                   [i \in AtaIds |-> ata_device_hw_reset(dev.d[i], rst)])
    BY <1>2 DEF AtaWriteCtrl
  <2> DEFINE s == [dev EXCEPT !.en = en]
             e == [i \in AtaIds |-> ata_device_hw_reset(dev.d[i], rst)]
  <2>2. AtaGood(s)
    BY DEF AtaGood
  <2>3. ASSUME NEW i \in AtaIds PROVE DiskGood(e[i])
    BY <1>1, HwResetGood
  <2> HIDE DEF s, e
  <2>4. dev' = AtaEach(s, e)
    BY <2>1 DEF s, e
  <2> QED BY <2>2, <2>3, <2>4, EachGood
<1>3. CASE AtaWriteStat
  BY <1>3 DEF AtaWriteStat, AtaGood
<1>4. CASE AtaWriteDcr
  <2>1. PICK rst \in BOOLEAN, ien \in BOOLEAN :
          dev' = AtaEach(dev, [i \in AtaIds |-> ata_device_do_control_register(
                              [dev.d[i] EXCEPT !.rst = rst, !.ien = ien])])
    BY <1>4 DEF AtaWriteDcr
  <2> DEFINE e == [i \in AtaIds |-> ata_device_do_control_register(
                     [dev.d[i] EXCEPT !.rst = rst, !.ien = ien])]
  <2>2. ASSUME NEW i \in AtaIds PROVE DiskGood(e[i])
    <3> DEFINE v == [dev.d[i] EXCEPT !.rst = rst, !.ien = ien]
    <3>1. DiskGood(v)
      BY <1>1 DEF DiskGood, Bounded, Ends, DiskFields
    <3>2. e[i] = ata_device_do_control_register(v)
      OBVIOUS
    <3> HIDE DEF v, e
    <3> QED BY <3>1, <3>2, ControlGood
  <2> HIDE DEF e
  <2>3. dev' = AtaEach(dev, e)
    BY <2>1 DEF e
  <2> QED BY <2>2, <2>3, EachGood
<1>5. CASE AtaSelect
  <2>1. PICK sel \in BOOLEAN :
          dev' = AtaEach(dev, [i \in AtaIds |-> [dev.d[i] EXCEPT !.sel = sel]])
    BY <1>5 DEF AtaSelect
  <2> DEFINE e == [i \in AtaIds |-> [dev.d[i] EXCEPT !.sel = sel]]
  <2>2. ASSUME NEW i \in AtaIds PROVE DiskGood(e[i])
    BY <1>1 DEF DiskGood, Bounded, Ends, DiskFields
  <2> HIDE DEF e
  <2>3. dev' = AtaEach(dev, e)
    BY <2>1 DEF e
  <2> QED BY <2>2, <2>3, EachGood
<1>6. CASE AtaCommand
  <2>1. PICK c \in dev.cmds, n \in AtaCounts :
          \/ dev' = AtaEach(dev, [i \in AtaIds |->
                      ata_device_do_command_register(dev.d[i], c, n)])
          \/ \E a \in AtaAddrs :
               dev' = AtaEach(dev, [i \in AtaIds |->
                        ata_device_do_command_register(
                          [dev.d[i] EXCEPT !.addr = a], c, n)])
    BY <1>6 DEF AtaCommand
  <2>2. ASSUME NEW v, DiskGood(v)
        PROVE  DiskGood(ata_device_do_command_register(v, c, n))
    <3>1. \/ ata_device_do_command_register(v, c, n) = v
          \/ ata_device_do_command_register(v, c, n) = ata_device_execute_cmd(v, c, n)
      BY DEF ata_device_do_command_register
    <3> QED BY <2>2, <3>1, CommandGood
  <2>3. CASE dev' = AtaEach(dev, [i \in AtaIds |->
                      ata_device_do_command_register(dev.d[i], c, n)])
    <3> DEFINE e == [i \in AtaIds |->
                       ata_device_do_command_register(dev.d[i], c, n)]
    <3>1. ASSUME NEW i \in AtaIds PROVE DiskGood(e[i])
      BY <1>1, <2>2
    <3> HIDE DEF e
    <3>2. dev' = AtaEach(dev, e)
      BY <2>3 DEF e
    <3> QED BY <3>1, <3>2, EachGood
  <2>4. ASSUME NEW a, dev' = AtaEach(dev, [i \in AtaIds |->
                        ata_device_do_command_register(
                          [dev.d[i] EXCEPT !.addr = a], c, n)])
        PROVE  AtaGood(dev')
    <3> DEFINE e == [i \in AtaIds |-> ata_device_do_command_register(
                       [dev.d[i] EXCEPT !.addr = a], c, n)]
    <3>1. ASSUME NEW i \in AtaIds PROVE DiskGood(e[i])
      <4> DEFINE v == [dev.d[i] EXCEPT !.addr = a]
      <4>1. DiskGood(v)
        BY <1>1 DEF DiskGood, Bounded, Ends, DiskFields
      <4>2. e[i] = ata_device_do_command_register(v, c, n)
        OBVIOUS
      <4> HIDE DEF v, e
      <4> QED BY <4>1, <4>2, <2>2
    <3> HIDE DEF e
    <3>2. dev' = AtaEach(dev, e)
      BY <2>4 DEF e
    <3> QED BY <3>1, <3>2, EachGood
  <2> QED BY <2>1, <2>3, <2>4
<1>7. CASE AtaReadData
  <2> DEFINE a == AtaActive(dev)
             v == AtaDataWord(dev.d[a])
  <2>1. dev' = [dev EXCEPT !.d[a] = v]
    BY <1>7 DEF AtaReadData
  <2>2. a \in AtaIds => DiskGood(v)
    BY <1>1, DataWordGood
  <2> HIDE DEF a, v
  <2> QED BY <2>1, <2>2, PutGood
<1>8. CASE AtaWriteData
  <2> DEFINE e == [i \in AtaIds |-> AtaDataWord(dev.d[i])]
  <2>1. dev' = AtaEach(dev, e)
    BY <1>8 DEF AtaWriteData
  <2>2. ASSUME NEW i \in AtaIds PROVE DiskGood(e[i])
    BY <1>1, DataWordGood
  <2> HIDE DEF e
  <2> QED BY <2>1, <2>2, EachGood
<1>9. CASE AtaReadSr
  <2> DEFINE a == AtaActive(dev)
             v == [dev.d[a] EXCEPT !.intrq = FALSE]
  <2>1. dev' = [dev EXCEPT !.d[a].intrq = FALSE]
    BY <1>9 DEF AtaReadSr
  <2>2. a \in AtaIds => DiskGood(v)
    BY <1>1 DEF DiskGood, Bounded, Ends, DiskFields
  <2>3. dev' = [dev EXCEPT !.d[a] = v]
    BY <2>1
  <2> HIDE DEF a, v
  <2> QED BY <2>2, <2>3, PutGood
<1>10. CASE AtaJob
  BY <1>10, CompleteGood DEF AtaJob
<1>11. CASE AtaReset
  <2> DEFINE s == [dev EXCEPT !.en = FALSE, !.ideis = FALSE]
             e == [i \in AtaIds |->
                     ata_device_hw_reset([dev.d[i] EXCEPT !.jobs = 0], TRUE)]
  <2>1. AtaGood(s)
    BY DEF AtaGood
  <2>2. ASSUME NEW i \in AtaIds PROVE DiskGood(e[i])
    BY <1>1, SimResetGood
  <2> HIDE DEF s, e
  <2>3. dev' = AtaEach(s, e)
    BY <1>11 DEF AtaReset, s, e
  <2> QED BY <2>1, <2>2, <2>3, EachGood
<1>12. CASE UNCHANGED dev
  BY <1>12
<1> QED BY <1>2, <1>3, <1>4, <1>5, <1>6, <1>7, <1>8, <1>9, <1>10, <1>11, <1>12
     DEF AtaNext

(* The shifts of ata_calc_lba() as numbers.                                *)
LEMMA Powers == 2^8 = 256 /\ 2^16 = 65536 /\ 2^24 = 16777216
BY SMT

(* The four fields of a linear address.                                    *)
LEMMA FourFields ==
  ASSUME NEW n \in Nat, n < 16 * (256 * (256 * 256))
  PROVE  ((n \div 2^24) % 16) * 2^24 + ((n \div 2^16) % 256) * 2^16
           + ((n \div 2^8) % 256) * 2^8 + (n % 256) = n
<1> DEFINE a == n \div 256
           b == a \div 256
           c == b \div 256
<1>1. a \in Nat /\ n = 256 * a + (n % 256) /\ n % 256 \in 0 .. 255
  BY SMT
<1>2. b \in Nat /\ a = 256 * b + (a % 256) /\ a % 256 \in 0 .. 255
  BY <1>1, SMT
<1>3. c \in Nat /\ b = 256 * c + (b % 256) /\ b % 256 \in 0 .. 255
  BY <1>2, SMT
<1>4. n \div 65536 = b
  BY <1>1, <1>2, SMT
<1>5. n \div 16777216 = c
  BY <1>1, <1>2, <1>3, SMT
<1>6. c < 16
  BY <1>1, <1>2, <1>3, SMT
<1>7. c % 16 = c
  BY <1>3, <1>6, SMT
<1> QED BY <1>1, <1>2, <1>3, <1>4, <1>5, <1>7, Powers, SMT

(* Cylinder, head and sector of a sector: the high byte of the cylinder is *)
(* multiplied by 2^16 where 2^8 was meant.                                 *)
LEMMA ThreeFields ==
  ASSUME NEW H \in 1 .. 16, NEW S \in 1 .. 255, NEW n \in Nat,
         n < 2^16 * (H * S)
  PROVE  /\ n \div ((H * S) * 256) \in Nat
         /\ ((((n \div ((H * S) * 256)) % 256) * 2^16 + ((n \div (H * S)) % 256)) * H
             + (((n % (H * S)) \div S) % 16)) * S + (((n % (H * S)) % S) + 1) - 1
              = n + (n \div ((H * S) * 256)) * ((2^16 - 2^8) * (H * S))
<1> DEFINE per == H * S
           r == n % per
           q == n \div per
           h == r \div S
           x == r % S
<1>1. per \in Nat \ {0}
  BY SMT
<1>2. n = per * q + r /\ r \in 0 .. per - 1 /\ q \in Nat
  BY <1>1, NatDivMod
<1> HIDE DEF q
<1>3. q < 65536
  BY <1>1, <1>2, Powers, SMT
<1> HIDE DEF r
<1>4. r = S * h + x /\ x \in 0 .. S - 1 /\ h \in Nat
  <2>1. r \in Nat /\ S \in Nat \ {0}
    BY <1>1, <1>2, SMT
  <2> QED BY <2>1, NatDivMod
<1> HIDE DEF h
<1>5. h < H
  BY <1>2, <1>4, SMT
<1> HIDE DEF x
<1> DEFINE high == q \div 256
           low == q % 256
<1>6. q = 256 * high + low /\ high \in 0 .. 255 /\ low \in 0 .. 255
  BY <1>2, <1>3, SMT
<1> HIDE DEF high, low
<1>7. n \div (per * 256) = high
  <2> DEFINE m == per * 256
             y == per * low + r
  <2>1. m \in Nat \ {0} /\ y \in Nat
    BY <1>1, <1>2, <1>6, SMT
  <2>2. n = m * high + y
    <3>1. per * (256 * high + low) = (per * 256) * high + per * low
      BY <1>1, <1>6, SMT
    <3> HIDE DEF per
    <3> QED BY <1>1, <1>2, <1>6, <3>1, SMT
  <2>3. y < m
    <3>1. per * low \in Nat /\ per * low + per <= per * 256
      BY <1>1, <1>6, SMT
    <3> HIDE DEF per
    <3> QED BY <1>1, <1>2, <3>1, SMT
  <2>4. n = m * (n \div m) + (n % m) /\ n \div m \in Nat /\ n % m \in 0 .. m - 1
    BY <2>1, NatDivMod
  <2> HIDE DEF per, m, y
  <2> DEFINE k == n \div m
             z == n % m
  <2>5. m * k + z = m * high + y /\ k \in Nat /\ z \in Nat /\ z < m
    BY <2>1, <2>2, <2>4
  <2> HIDE DEF k, z
  <2>6. k = high
    <3>1. ASSUME NEW a \in Nat, NEW b \in Nat, a < b PROVE m * a + m <= m * b
      <4>1. a + 1 <= b
        BY <3>1
      <4> QED BY <2>1, <4>1, SMT
    <3>2. ~(k < high)
      BY <1>6, <2>1, <2>5, <3>1, SMT
    <3>3. ~(high < k)
      BY <1>6, <2>1, <2>3, <2>5, <3>1, SMT
    <3> QED BY <1>6, <2>5, <3>2, <3>3
  <2> QED BY <2>6 DEF k, m
<1>8. high % 256 = high /\ h % 16 = h
  BY <1>4, <1>5, <1>6, SMT
<1>9. ((high * 65536 + low) * H + h) * S + (x + 1) - 1
        = per * q + r + high * (65280 * per)
  <2>1. ((high * 65536 + low) * H + h) * S
          = (high * 65536 + low) * (H * S) + h * S
    BY <1>4, <1>6, SMT
  <2>2. (high * 65536 + low) * per = (256 * high + low) * per + high * (65280 * per)
    BY <1>1, <1>6, SMT
  <2>3. (256 * high + low) * per = per * q /\ h * S = S * h
    BY <1>1, <1>2, <1>4, <1>6, SMT
  <2>4. /\ (high * 65536 + low) * per \in Nat /\ (256 * high + low) * per \in Nat
        /\ high * (65280 * per) \in Nat /\ h * S \in Nat
    BY <1>1, <1>4, <1>6, SMT
  <2>5. ((high * 65536 + low) * H + h) * S
          = per * q + high * (65280 * per) + S * h
    BY <2>1, <2>2, <2>3, <2>4
  <2> DEFINE A == ((high * 65536 + low) * H + h) * S
             B == per * q
             C == high * (65280 * per)
             E == S * h
  <2>6. A = B + C + E /\ B \in Nat /\ C \in Nat /\ E \in Nat /\ r = E + x
    BY <1>4, <2>3, <2>4, <2>5
  <2> HIDE DEF A, B, C, E
  <2>7. A + (x + 1) - 1 = B + r + C
    BY <1>4, <2>6, SMT
  <2> QED BY <2>7 DEF A, B, C
<1> QED
  <2>1. ((n \div (per * 256)) % 256) * 2^16 + ((n \div per) % 256)
          = high * 65536 + low
    BY <1>7, <1>8, Powers DEF q, low
  <2>2. (r \div S) % 16 = h /\ r % S = x
    BY <1>8 DEF h, x
  <2>3. ((high * 65536 + low) * H + h) * S + (x + 1) - 1
          = n + high * ((2^16 - 2^8) * per)
    <3>1. 2^16 - 2^8 = 65280
      BY Powers, SMT
    <3>2. per * q + r = n
      BY <1>2
    <3> QED BY <1>9, <3>1, <3>2
  <2>4. n \div (per * 256) \in Nat
    BY <1>6, <1>7
  <2>5. ((((n \div (per * 256)) % 256) * 2^16 + ((n \div per) % 256)) * H
          + ((r \div S) % 16)) * S + ((r % S) + 1) - 1
         = n + (n \div (per * 256)) * ((2^16 - 2^8) * per)
    <3> DEFINE far == n \div (per * 256)
               cyl == (far % 256) * 2^16 + ((n \div per) % 256)
               hd == (r \div S) % 16
               sn == r % S
               one == (2^16 - 2^8) * per
    <3>1. far = high
      BY <1>7
    <3>2. cyl = high * 65536 + low
      BY <2>1
    <3>3. hd = h /\ sn = x
      BY <2>2
    <3>4. ((high * 65536 + low) * H + h) * S + (x + 1) - 1 = n + high * one
      BY <2>3
    <3> HIDE DEF far, cyl, hd, sn, one
    <3>5. (cyl * H + hd) * S + (sn + 1) - 1 = n + far * one
      BY <3>1, <3>2, <3>3, <3>4
    <3> QED BY <3>5, Zenon DEF far, cyl, hd, sn, one
  <2> QED BY <2>4, <2>5, Zenon DEF r

(* The sector that the registers name is the sector ata_calc_lba() reads   *)
(* from them, or as far behind it as the wrong shift takes it.             *)
LEMMA Addressed == AtaAddressing
<1> SUFFICES ASSUME NEW v, NEW lba \in BOOLEAN, NEW n \in AtaSample,
                    v.heads = AtaHeads, v.sectors = AtaSectors
             PROVE  LET per == AtaHeads * AtaSectors
                        high == n \div (per * 256)
                    IN  ata_calc_lba(v, ata_set_sect(lba, n))
                          = IF lba \/ high = 0 THEN n
                            ELSE (n + high * ((2^16 - 2^8) * per)) % AtaWrap
  BY DEF AtaAddressing
<1> DEFINE per == AtaHeads * AtaSectors
           high == n \div (per * 256)
<1>1. n \in Nat /\ n < 2^16 * per
  <2>1. 2^16 * per \in Nat
    BY AtaAssumption, Powers, SMT
  <2> QED BY <2>1, AtaAssumption
<1>2. n < 16 * (256 * (256 * 256))
  <2>1. per \in Nat /\ per <= 4080
    BY AtaAssumption, SMT
  <2> HIDE DEF per
  <2> QED BY <1>1, <2>1, Powers, SMT
<1>3. CASE lba
  <2>2. ((n \div 2^24) % 16) * 2^24 + ((n \div 2^16) % 256) * 2^16
          + ((n \div 2^8) % 256) * 2^8 + (n % 256) = n
    BY <1>1, <1>2, FourFields
  <2> QED BY <1>3, <2>2 DEF ata_calc_lba, ata_set_sect
<1>4. CASE ~lba
  <2> DEFINE r == n % per
             cyl == (high % 256) * 2^16 + ((n \div per) % 256)
             c == (cyl * AtaHeads + ((r \div AtaSectors) % 16)) * AtaSectors
                    + ((r % AtaSectors) + 1) - 1
             far == high * ((2^16 - 2^8) * per)
  <2>1. high \in Nat /\ c = n + far
    <3>1. AtaHeads \in 1 .. 16 /\ AtaSectors \in 1 .. 255
      BY AtaAssumption
    <3> QED BY <1>1, <3>1, ThreeFields, ZenonT(60)
  <2>2. ata_calc_lba(v, ata_set_sect(lba, n)) = c % AtaWrap
    BY <1>4 DEF ata_calc_lba, ata_set_sect
  <2>3. high = 0 => n + far = n
    <3>1. (2^16 - 2^8) * per \in Int
      BY AtaAssumption, Powers, SMT
    <3> DEFINE m == (2^16 - 2^8) * per
    <3> HIDE DEF m
    <3>2. 0 * m = 0
      BY <3>1, SMT DEF m
    <3> QED BY <1>1, <3>2 DEF m
  <2>4. n % AtaWrap = n
    <3>1. AtaWrap \in Nat /\ n < AtaWrap
      <4>1. 2^28 = 268435456
        BY SMT
      <4> QED BY <1>1, <1>2, <4>1, AtaAssumption, SMT
    <3> QED BY <1>1, <3>1, SMT
  <2> HIDE DEF c, far, high
  <2>5. ata_calc_lba(v, ata_set_sect(lba, n))
          = IF lba \/ high = 0 THEN n ELSE (n + far) % AtaWrap
    BY <1>4, <2>1, <2>2, <2>3, <2>4
  <2> QED BY <2>5 DEF far, high
<1> QED BY <1>3, <1>4

(* For every geometry and every buffer size, a busy disk will be ready,    *)
(* the buffer pointer stays in the buffer, and the disk finds the sector   *)
(* that the address registers name in the LBA form and in the first 256    *)
(* cylinders, and behind them one that lies 65280 cylinders further for    *)
(* every 256.                                                              *)
THEOREM AtaAlwaysSound == AtaSpec => []AtaSound
<1>1. AtaGood(dev) => AtaSound
  BY Addressed DEF AtaGood, DiskGood, Bounded, Ends, AtaSound, AtaBusyEnds,
       AtaBufferInBounds
<1> QED BY <1>1, AtaStarts, AtaStep, PTL DEF AtaSpec

-----------------------------------------------------------------------------
(* The frame buffer and the VGA controller.                                *)

(* Pixels of the screen are read from different bytes of one block.        *)
LEMMA PixelsApart ==
  ASSUME NEW addr \in Nat, NEW x \in 0 .. FB_SIZEX - 1, NEW y \in 0 .. FB_SIZEY - 1
  PROVE  /\ PixelAddr(addr, x, y) \div FB_WRAP = addr \div FB_WRAP
         /\ \A u \in 0 .. FB_SIZEX - 1, v \in 0 .. FB_SIZEY - 1 :
              PixelAddr(addr, x, y) = PixelAddr(addr, u, v) => x = u /\ y = v
<1> USE DisplayAssumption
<1> DEFINE W == FB_WRAP
           k == addr \div W
           Off(i, j) == j * FB_SIZEX + i
<1>1. W \in Nat \ {0} /\ addr = W * k + (addr % W) /\ addr % W \in 0 .. W - 1
        /\ k \in Nat
  BY NatDivMod
<1>2. ASSUME NEW i \in 0 .. FB_SIZEX - 1, NEW j \in 0 .. FB_SIZEY - 1
      PROVE  Off(i, j) \in 0 .. W - 1
  <2>1. (j + 1) * FB_SIZEX <= FB_SIZEY * FB_SIZEX
    BY SMT
  <2>2. (j + 1) * FB_SIZEX = j * FB_SIZEX + FB_SIZEX
    BY SMT
  <2>3. FB_SIZEY * FB_SIZEX = FB_SIZEX * FB_SIZEY /\ j * FB_SIZEX \in Nat
    BY SMT
  <2> QED BY <2>1, <2>2, <2>3
<1>3. ASSUME NEW i \in 0 .. FB_SIZEX - 1, NEW j \in 0 .. FB_SIZEY - 1
      PROVE  /\ PixelAddr(addr, i, j) = k * W + ((addr + Off(i, j)) % W)
             /\ (addr + Off(i, j)) % W \in 0 .. W - 1
  <2>1. addr - (addr % W) = k * W
    BY <1>1, SMT
  <2>2. addr + Off(i, j) \in Nat /\ (addr + j * FB_SIZEX) + i = addr + Off(i, j)
    BY <1>2, SMT
  <2> HIDE DEF Off
  <2>3. (addr + Off(i, j)) % W \in 0 .. W - 1
    BY <1>1, <2>2, NatDivMod
  <2>4. PixelAddr(addr, i, j) = (addr - (addr % W)) + (((addr + j * FB_SIZEX) + i) % W)
    BY DEF PixelAddr
  <2> QED BY <2>1, <2>2, <2>3, <2>4
<1> HIDE DEF k, Off
<1>4. PixelAddr(addr, x, y) \div W = k
  <2> DEFINE m == (addr + Off(x, y)) % W
             n == k * W + m
  <2>1. m \in 0 .. W - 1 /\ PixelAddr(addr, x, y) = n
    BY <1>3
  <2> HIDE DEF m, W
  <2>2. n \in Nat
    BY <1>1, <2>1, SMT
  <2>3. n = W * (n \div W) + (n % W) /\ n % W \in 0 .. W - 1 /\ n \div W \in Nat
    <3> HIDE DEF n
    <3> QED BY <1>1, <2>2, NatDivMod
  <2>4. (n \div W) * W + (n % W) = k * W + m
    <3>1. W * (n \div W) = (n \div W) * W
      BY <1>1, <2>3, SMT
    <3> QED BY <2>3, <3>1
  <2>5. n \div W = k
    BY <1>1, <2>1, <2>3, <2>4, Unique
  <2> QED BY <2>1, <2>5
<1>5. ASSUME NEW u \in 0 .. FB_SIZEX - 1, NEW v \in 0 .. FB_SIZEY - 1,
             PixelAddr(addr, x, y) = PixelAddr(addr, u, v)
      PROVE  x = u /\ y = v
  <2> DEFINE a == addr + Off(x, y)
             b == addr + Off(u, v)
  <2>1. a \in Nat /\ b \in Nat /\ a - b < W /\ b - a < W
    BY <1>2
  <2>2. a % W = b % W
    <3>1. a % W \in Int /\ b % W \in Int /\ k * W \in Int
      BY <1>1, <1>3
    <3>2. k * W + (a % W) = k * W + (b % W)
      BY <1>3, <1>5
    <3> QED BY <3>1, <3>2
  <2>3. a = b
    <3> HIDE DEF a, b, W
    <3>1. a = W * (a \div W) + (a % W) /\ a \div W \in Nat /\ a % W \in 0 .. W - 1
      BY <1>1, <2>1, NatDivMod
    <3>2. b = W * (b \div W) + (b % W) /\ b \div W \in Nat
      BY <1>1, <2>1, NatDivMod
    <3>3. a \div W = b \div W
      BY <1>1, <2>1, <2>2, <3>1, <3>2, SMT
    <3> QED BY <2>2, <3>1, <3>2, <3>3
  <2>4. Off(x, y) \in Nat /\ Off(u, v) \in Nat
    BY <1>2
  <2>5. y * FB_SIZEX + x = v * FB_SIZEX + u
    BY <2>3, <2>4 DEF Off
  <2>6. FB_SIZEX \in Nat \ {0} /\ y \in Nat /\ v \in Nat
    OBVIOUS
  <2> QED BY <2>5, <2>6, Unique
<1> QED BY <1>4, <1>5 DEF k

(* A dump that is complete and reads one block.                            *)
DumpGood(d) ==
  /\ d.size = d.bytes
  /\ \A r, q \in d.reads : /\ r[1] # q[1] => r[2] # q[2]
                           /\ r[2] \div FB_WRAP = q[2] \div FB_WRAP

(* The pixels of a dump are read from different bytes of one block.        *)
LEMMA ReadsGood ==
  ASSUME NEW addr \in Nat, NEW P \in SUBSET Screen,
         NEW R, R = {<<p, PixelAddr(addr, p[1], p[2])>> : p \in P}
  PROVE  \A r, q \in R : /\ r[1] # q[1] => r[2] # q[2]
                         /\ r[2] \div FB_WRAP = q[2] \div FB_WRAP
<1> SUFFICES ASSUME NEW p \in P, NEW o \in P
             PROVE  /\ p # o => PixelAddr(addr, p[1], p[2]) # PixelAddr(addr, o[1], o[2])
                    /\ PixelAddr(addr, p[1], p[2]) \div FB_WRAP
                         = PixelAddr(addr, o[1], o[2]) \div FB_WRAP
  OBVIOUS
<1>1. /\ p[1] \in 0 .. FB_SIZEX - 1 /\ p[2] \in 0 .. FB_SIZEY - 1
      /\ o[1] \in 0 .. FB_SIZEX - 1 /\ o[2] \in 0 .. FB_SIZEY - 1
      /\ p = <<p[1], p[2]>> /\ o = <<o[1], o[2]>>
  BY DEF Screen
<1> QED BY <1>1, PixelsApart

(* The screen has width times height pixels.                               *)
LEMMA ScreenSize == Cardinality(Screen) = FB_SIZEX * FB_SIZEY
<1>1. /\ IsFiniteSet(0 .. FB_SIZEX - 1) /\ Cardinality(0 .. FB_SIZEX - 1) = FB_SIZEX
      /\ IsFiniteSet(0 .. FB_SIZEY - 1) /\ Cardinality(0 .. FB_SIZEY - 1) = FB_SIZEY
  <2>1. ASSUME NEW n \in Nat
        PROVE  IsFiniteSet(0 .. n - 1) /\ Cardinality(0 .. n - 1) = n
    <3>1. 0 \in Int /\ n - 1 \in Int
      OBVIOUS
    <3>2. /\ IsFiniteSet(0 .. n - 1)
          /\ Cardinality(0 .. n - 1) = IF 0 > n - 1 THEN 0 ELSE (n - 1) - 0 + 1
      BY <3>1, FS_Interval, Zenon
    <3>3. (IF 0 > n - 1 THEN 0 ELSE (n - 1) - 0 + 1) = n
      BY SMT
    <3> QED BY <3>2, <3>3
  <2> QED BY <2>1, DisplayAssumption
<1>2. Cardinality((0 .. FB_SIZEX - 1) \X (0 .. FB_SIZEY - 1))
        = Cardinality(0 .. FB_SIZEX - 1) * Cardinality(0 .. FB_SIZEY - 1)
  BY <1>1, FS_Product, Zenon
<1> QED BY <1>1, <1>2 DEF Screen

(* The dump of the 8-bit frame buffer is complete.                         *)
LEMMA Dump8Good ==
  ASSUME NEW s, s.addr \in Nat PROVE DumpGood(fb_dump_image8(s))
<1> DEFINE d == fb_dump_image8(s)
<1>1. FramePixels(s) \in SUBSET Screen
  BY DEF FramePixels
<1>2. d.reads = {<<p, PixelAddr(s.addr, p[1], p[2])>> : p \in FramePixels(s)}
  BY DEF fb_dump_image8
<1>3. \A r, q \in d.reads : /\ r[1] # q[1] => r[2] # q[2]
                            /\ r[2] \div FB_WRAP = q[2] \div FB_WRAP
  BY <1>1, <1>2, ReadsGood
<1>4. d.size = d.bytes
  <2>1. (4 - FB_SIZEX) % 4 = 0
    BY DisplayAssumption, SMT
  <2>2. FB_SIZEX * FB_SIZEY \in Nat /\ FB_SIZEY * FB_SIZEX = FB_SIZEX * FB_SIZEY
          /\ FB_SIZEX + 0 = FB_SIZEX
    BY DisplayAssumption, SMT
  <2>3. /\ d.size = 14 + 40 + FB_SIZEX * FB_SIZEY + 1024
        /\ d.bytes = 14 + 40 + 1024 + FB_SIZEY * (FB_SIZEX + ((4 - FB_SIZEX) % 4))
    BY SMT DEF fb_dump_image8
  <2>4. d.bytes = 14 + 40 + 1024 + FB_SIZEX * FB_SIZEY
    BY <2>1, <2>2, <2>3, SMT
  <2> QED BY <2>2, <2>3, <2>4, SMT
<1> QED BY <1>3, <1>4 DEF DumpGood

(* The dump of the 24-bit frame buffer is complete.                        *)
LEMMA Dump24Good ==
  ASSUME NEW s, s.addr \in Nat PROVE DumpGood(fb_dump_image24(s))
<1> DEFINE d == fb_dump_image24(s)
<1>1. FramePixels(s) \in SUBSET Screen
  BY DEF FramePixels
<1>2. d.reads = {<<p, PixelAddr(s.addr, p[1], p[2])>> : p \in FramePixels(s)}
  BY DEF fb_dump_image24
<1>3. \A r, q \in d.reads : /\ r[1] # q[1] => r[2] # q[2]
                            /\ r[2] \div FB_WRAP = q[2] \div FB_WRAP
  BY <1>1, <1>2, ReadsGood
<1>4. d.size = d.bytes
  BY ScreenSize DEF fb_dump_image24
<1> QED BY <1>3, <1>4 DEF DumpGood

(* So is the absence of a dump.                                            *)
LEMMA NoDumpGood == DumpGood(NoDump)
BY DEF DumpGood, NoDump

(* The invariant: the last dump is complete, and the VGA controller has    *)
(* not been told how long its lines are.                                   *)
DisplayInv ==
  \/ /\ DOMAIN dev = DOMAIN FbFresh /\ dev.kind = "fb" /\ dev.addr \in Nat
     /\ DumpGood(dev.dump)
  \/ /\ DOMAIN dev = DOMAIN VgaFresh /\ dev.kind = "vga" /\ dev.vlen = 0
     /\ dev.dump = NoDump

(* The displays start with it.                                             *)
LEMMA DisplayStarts == DisplayInit => DisplayInv
BY NoDumpGood DEF DisplayInit, DisplayInv, FbFresh, VgaFresh

(* Every register write, refresh and dump of the two displays keeps it.    *)
LEMMA DisplayStep == DisplayInv /\ [DisplayNext]_dev => DisplayInv'
<1> SUFFICES ASSUME DisplayInv, [DisplayNext]_dev PROVE DisplayInv'
  OBVIOUS
<1>1. CASE fb_write32
  <2>1. /\ DOMAIN dev = DOMAIN FbFresh /\ dev.kind = "fb" /\ dev.addr \in Nat
        /\ DumpGood(dev.dump)
    BY <1>1 DEF fb_write32, DisplayInv, Is
  <2>2. /\ DOMAIN dev' = DOMAIN FbFresh /\ dev'.kind = "fb" /\ dev'.addr \in Nat
        /\ dev'.dump = dev.dump
    BY <1>1, <2>1, DisplayAssumption DEF fb_write32, FbFresh
  <2> QED BY <2>1, <2>2 DEF DisplayInv
<1>2. CASE FbJob
  <2>1. /\ DOMAIN dev = DOMAIN FbFresh /\ dev.kind = "fb" /\ dev.addr \in Nat
        /\ DumpGood(dev.dump)
    BY <1>2 DEF FbJob, DisplayInv, Is
  <2>2. PICK how \in Outcomes : dev' = fb_job(dev, how)
    BY <1>2 DEF FbJob
  <2>3. PICK s : /\ DOMAIN s = DOMAIN FbFresh /\ s.kind = "fb" /\ s.addr \in Nat
                 /\ DumpGood(s.dump) /\ \E b : dev' = [s EXCEPT !.refresh = b]
    <3>1. CASE dev' = [dev EXCEPT !.refresh = TRUE] \/ dev' = [dev EXCEPT !.refresh = FALSE]
      BY <2>1, <3>1
    <3>2. CASE dev' = [FbDump(dev, how) EXCEPT !.refresh = FALSE]
      <4> DEFINE s == FbDump(dev, how)
      <4>1. \/ \E d : DumpGood(d) /\ s = [dev EXCEPT !.pic = @ + 1, !.dump = d]
            \/ s = [dev EXCEPT !.pic = @ + 1] \/ s = [dev EXCEPT !.dead = TRUE]
        BY <2>1, Dump8Good, Dump24Good DEF FbDump, Outcomes
      <4> HIDE DEF s
      <4>2. /\ DOMAIN s = DOMAIN FbFresh /\ s.kind = "fb" /\ s.addr \in Nat
            /\ DumpGood(s.dump)
        BY <2>1, <4>1 DEF FbFresh
      <4>3. dev' = [s EXCEPT !.refresh = FALSE]
        BY <3>2 DEF s
      <4> QED BY <4>2, <4>3
    <3> QED BY <2>2, <3>1, <3>2 DEF fb_job
  <2>4. /\ DOMAIN dev' = DOMAIN FbFresh /\ dev'.kind = "fb" /\ dev'.addr \in Nat
        /\ dev'.dump = s.dump
    BY <2>3 DEF FbFresh
  <2> QED BY <2>3, <2>4 DEF DisplayInv
<1>3. CASE fb_reset
  <2>1. dev' = [FbFresh EXCEPT !.cam = dev.cam, !.dead = dev.dead]
    BY <1>3 DEF fb_reset
  <2>2. /\ DOMAIN dev' = DOMAIN FbFresh /\ dev'.kind = "fb" /\ dev'.addr \in Nat
        /\ dev'.dump = NoDump
    BY <2>1 DEF FbFresh
  <2> QED BY <2>2, NoDumpGood DEF DisplayInv
<1>4. CASE vga_write32
  <2>1. /\ DOMAIN dev = DOMAIN VgaFresh /\ dev.kind = "vga" /\ dev.vlen = 0
        /\ dev.dump = NoDump
    BY <1>4 DEF vga_write32, DisplayInv, Is
  <2>2. /\ DOMAIN dev' = DOMAIN VgaFresh /\ dev'.kind = "vga" /\ dev'.vlen = 0
        /\ dev'.dump = NoDump
    BY <1>4, <2>1 DEF vga_write32, VgaFresh
  <2> QED BY <2>2 DEF DisplayInv
<1>5. CASE VgaJob
  <2>1. /\ DOMAIN dev = DOMAIN VgaFresh /\ dev.kind = "vga" /\ dev.vlen = 0
        /\ dev.dump = NoDump
    BY <1>5 DEF VgaJob, DisplayInv, Is
  <2>2. PICK how \in Outcomes : dev' = vga_job(dev, how)
    BY <1>5 DEF VgaJob
  <2> DEFINE s == [dev EXCEPT !.pics = @ + 1]
  <2>3. /\ DOMAIN s = DOMAIN VgaFresh /\ s.kind = "vga" /\ s.vlen = 0
        /\ s.dump = NoDump
    BY <2>1 DEF VgaFresh
  <2>4. dev' = vga_dump_image(s, how)
    BY <2>2 DEF vga_job
  <2> HIDE DEF s
  <2>5. dev' = s
    BY <2>3, <2>4 DEF vga_dump_image
  <2> QED BY <2>3, <2>5 DEF DisplayInv
<1>6. CASE vga_reset
  BY <1>6 DEF vga_reset, VgaFresh, DisplayInv
<1>7. CASE UNCHANGED dev
  BY <1>7 DEF DisplayInv
<1> QED BY <1>1, <1>2, <1>3, <1>4, <1>5, <1>6, <1>7 DEF DisplayNext

(* For every screen whose bytes fit one block, a dump has the bytes its    *)
(* header promises and no two of its pixels are read from the same byte or *)
(* from outside the block.                                                 *)
THEOREM DisplayAlwaysSound == DisplaySpec => []DisplaySound
<1>1. DisplayInv => DisplaySound
  BY DEF DisplayInv, DumpGood, NoDump, DisplaySound, PictureComplete, PixelsInBlock, Is
<1> QED BY <1>1, DisplayStarts, DisplayStep, PTL DEF DisplaySpec

-----------------------------------------------------------------------------
(* The generic peripheral.                                                 *)

(* The byte of memory that byte i of a value of n bytes belongs to, by the *)
(* byte order of the model.                                                *)
ByteAt(full, n, i) == full + (IF GenericBig THEN i ELSE n - 1 - i)

(* An address that is aligned in the peripheral is aligned in memory.      *)
LEMMA AlignedThere ==
  ASSUME NEW addr \in Nat, NEW base \in Nat, base % 4 = 0,
         NEW n \in {1, 2, 4}, addr % n = 0
  PROVE  addr + base \in Nat /\ (addr + base) % n = 0
<1>1. CASE n = 1 BY <1>1
<1>2. CASE n = 2 BY <1>2
<1>3. CASE n = 4 BY <1>3
<1> QED BY <1>1, <1>2, <1>3

(* generic_write_byte(), _hw() and _word() and their reads put byte i of   *)
(* the value on the lane that the mask selects: for an aligned access that *)
(* is the byte of memory the processor means.                              *)
LEMMA LaneRight ==
  ASSUME NEW full \in Nat, NEW n \in {1, 2, 4}, full % n = 0,
         NEW i \in 0 .. n - 1
  PROVE  WordAddr(full) + Lane(full, n, i) = ByteAt(full, n, i)
<1> DEFINE first == CASE n = 1 -> full % 4
                      [] n = 2 -> 2 * ((full \div 2) % 2)
                      [] n = 4 -> 0
<1>1. full % 4 \in 0 .. 3
  OBVIOUS
<1>2. first = full % 4
  <2>1. CASE n = 1 BY <2>1
  <2>2. CASE n = 2
    <3>1. PICK q \in Nat : full = 2 * q
      BY <1>1, <2>2
    <3>2. full \div 2 = q
      BY <3>1
    <3>3. full % 4 = 2 * (q % 2)
      BY <3>1
    <3> QED BY <2>2, <3>2, <3>3
  <2>3. CASE n = 4 BY <1>1, <2>3
  <2> QED BY <2>1, <2>2, <2>3
<1>3. Lane(full, n, i) = first + (IF GenericBig THEN i ELSE n - 1 - i)
  BY DEF Lane
<1> HIDE DEF first
<1>4. full - (full % 4) + ((full % 4) + (IF GenericBig THEN i ELSE n - 1 - i))
        = full + (IF GenericBig THEN i ELSE n - 1 - i)
  BY <1>1
<1> QED BY <1>2, <1>3, <1>4 DEF WordAddr, ByteAt

(* The states of the peripheral, and the external program's memory in      *)
(* agreement with the one the processor means.                             *)
GenericInv ==
  /\ dev.kind = "generic" /\ dev.base \in GenericBases
  /\ dev = [kind |-> "generic", base |-> dev.base, mem |-> dev.mem,
            ref |-> dev.ref, got |-> dev.got, want |-> dev.want]
  /\ dev.mem = dev.ref /\ dev.got = dev.want

(* A write of n aligned bytes changes the two memories alike.              *)
LEMMA GenericWriteKeeps ==
  ASSUME GenericInv, NEW addr \in Nat, NEW n \in {1, 2, 4},
         NEW v \in [1 .. n -> GenericBytes], NEW ok \in BOOLEAN,
         GenericWrite(addr, v, ok)
  PROVE  GenericInv'
<1> DEFINE full == addr + dev.base
           put == [i \in 0 .. n - 1 |-> WordAddr(full) + Lane(full, n, i)]
           new == [a \in DOMAIN dev.mem |->
                     IF \E i \in DOMAIN put : put[i] = a
                     THEN v[1 + CHOOSE i \in DOMAIN put : put[i] = a]
                     ELSE dev.mem[a]]
           meant == [a \in DOMAIN dev.ref |->
                       IF a \in full .. full + n - 1
                       THEN v[IF GenericBig THEN a - full + 1 ELSE n - (a - full)]
                       ELSE dev.ref[a]]
<1>1. Len(v) = n
  OBVIOUS
<1>2. CASE ~Allowed(addr, n) \/ ~ok
  BY <1>1, <1>2 DEF GenericWrite, GenericInv
<1>3. CASE Allowed(addr, n) /\ ok
  <2>1. dev' = [dev EXCEPT !.mem = new, !.ref = meant]
    BY <1>1, <1>3 DEF GenericWrite
  <2>2. dev.base \in Nat /\ dev.base % 4 = 0 /\ addr % n = 0
    BY <1>3, GenericAssumption DEF GenericInv, Allowed
  <2>3. full \in Nat /\ full % n = 0
    BY <2>2, AlignedThere
  <2>4. \A i \in 0 .. n - 1 : put[i] = ByteAt(full, n, i)
    <3> SUFFICES ASSUME NEW i \in 0 .. n - 1 PROVE put[i] = ByteAt(full, n, i)
      OBVIOUS
    <3> HIDE DEF full
    <3>1. WordAddr(full) + Lane(full, n, i) = ByteAt(full, n, i)
      BY <2>3, LaneRight
    <3> QED BY <3>1
  <2>5. full \in Nat /\ n \in Nat
    BY <2>3
  <2>6. new = meant
    <3> HIDE DEF full
    <3> SUFFICES ASSUME NEW a \in DOMAIN dev.mem PROVE new[a] = meant[a]
      BY DEF GenericInv
    <3>1. CASE a \in full .. full + n - 1
      <4> DEFINE j == IF GenericBig THEN a - full ELSE n - 1 - (a - full)
      <4>1. j \in 0 .. n - 1 /\ put[j] = a
        BY <2>4, <2>5, <3>1 DEF ByteAt
      <4>2. \A i \in 0 .. n - 1 : put[i] = a => i = j
        BY <2>4, <2>5, <3>1 DEF ByteAt
      <4> HIDE DEF j
      <4>3. (CHOOSE i \in DOMAIN put : put[i] = a) = j
        BY <4>1, <4>2
      <4>4. new[a] = v[1 + j]
        BY <4>1, <4>3
      <4>5. 1 + j = IF GenericBig THEN a - full + 1 ELSE n - (a - full)
        BY <2>5, <3>1 DEF j
      <4> QED BY <3>1, <4>4, <4>5 DEF GenericInv
    <3>2. CASE a \notin full .. full + n - 1
      <4>1. \A i \in 0 .. n - 1 : put[i] # a
        BY <2>4, <2>5, <3>2 DEF ByteAt
      <4>2. new[a] = dev.mem[a]
        BY <4>1
      <4> QED BY <3>2, <4>2 DEF GenericInv
    <3> QED BY <3>1, <3>2
  <2> HIDE DEF new, meant
  <2> QED BY <2>1, <2>6 DEF GenericInv
<1> QED BY <1>2, <1>3

(* A read returns what the processor means to read.                        *)
LEMMA GenericReadKeeps ==
  ASSUME GenericInv, NEW addr \in Nat, NEW n \in {1, 2, 4}, NEW ok \in BOOLEAN,
         GenericRead(addr, n, ok)
  PROVE  GenericInv'
<1> DEFINE full == addr + dev.base
           fine == Allowed(addr, n) /\ ok
           got == [i \in 1 .. n |->
              IF fine THEN dev.mem[WordAddr(full) + Lane(full, n, i - 1)] ELSE 0]
           want == [i \in 1 .. n |->
              IF fine THEN dev.ref[full + (IF GenericBig THEN i - 1 ELSE n - i)]
              ELSE 0]
<1>1. dev' = [dev EXCEPT !.got = got, !.want = want]
  BY DEF GenericRead
<1>2. dev.base \in Nat /\ dev.base % 4 = 0
  BY GenericAssumption DEF GenericInv
<1>3. ASSUME NEW i \in 1 .. n, fine PROVE got[i] = want[i]
  <2>1. i - 1 \in 0 .. n - 1 /\ addr % n = 0
    BY <1>3 DEF Allowed
  <2>2. WordAddr(full) + Lane(full, n, i - 1) = ByteAt(full, n, i - 1)
    <3>1. full \in Nat /\ full % n = 0
      BY <1>2, <2>1, AlignedThere
    <3> HIDE DEF full
    <3> QED BY <2>1, <3>1, LaneRight
  <2>3. ByteAt(full, n, i - 1) = full + (IF GenericBig THEN i - 1 ELSE n - i)
    BY <1>2 DEF ByteAt
  <2> QED BY <1>3, <2>2, <2>3 DEF GenericInv
<1>4. got = want
  <2> HIDE DEF full
  <2> SUFFICES ASSUME NEW i \in 1 .. n PROVE got[i] = want[i]
    OBVIOUS
  <2>1. CASE fine BY <1>3, <2>1
  <2>2. CASE ~fine BY <2>2
  <2> QED BY <2>1, <2>2
<1> HIDE DEF got, want
<1> QED BY <1>1, <1>4 DEF GenericInv

(* Accesses of one, two and four bytes see one memory in the processor's   *)
(* byte order, for every size and base address of the peripheral and in    *)
(* both byte orders; an access that is unaligned, outside or refused       *)
(* changes nothing and reads 0.                                            *)
THEOREM GenericAlwaysOneMemory == GenericSpec => []GenericOneMemory
<1>1. GenericInit => GenericInv
  BY DEF GenericInit, GenericInv
<1>2. GenericInv /\ [GenericNext]_dev => GenericInv'
  <2> SUFFICES ASSUME GenericInv, [GenericNext]_dev PROVE GenericInv'
    OBVIOUS
  <2>1. CASE UNCHANGED dev
    BY <2>1 DEF GenericInv
  <2>2. ASSUME NEW addr \in 0 .. GenericSize, NEW n \in {1, 2, 4},
               NEW ok \in BOOLEAN, GenericRead(addr, n, ok)
        PROVE  GenericInv'
    BY <2>2, GenericReadKeeps
  <2>3. ASSUME NEW addr \in 0 .. GenericSize, NEW n \in {1, 2, 4},
               NEW ok \in BOOLEAN, NEW v \in [1 .. n -> GenericBytes],
               GenericWrite(addr, v, ok)
        PROVE  GenericInv'
    <3>1. addr \in Nat
      BY GenericAssumption
    <3> QED BY <2>3, <3>1, GenericWriteKeeps, Zenon
  <2> QED BY <2>1, <2>2, <2>3 DEF GenericNext
<1>3. GenericInv => GenericOneMemory
  BY DEF GenericInv, GenericOneMemory
<1> QED BY <1>1, <1>2, <1>3, PTL DEF GenericSpec
-----------------------------------------------------------------------------
(* The memory controller.                                                  *)

(* The values of k steps, one after the other.                             *)
McSteps(S, a, k, F) ==
  \E f \in [0 .. k -> S] : f[0] = a /\ \A i \in 1 .. k : f[i] = F[i][f[i - 1]]

(* A sequence of steps has its values.                                     *)
LEMMA McStepsExist ==
  ASSUME NEW S, NEW a \in S, NEW k \in Nat, NEW F \in [1 .. k -> [S -> S]]
  PROVE  McSteps(S, a, k, F)
BY Iterates DEF McSteps

(* The states of the memory controllers with these areas.                  *)
McStates(c) ==
  [kind : {"mc"}, areas : {c}, nxt : [DOMAIN c -> 0 .. Len(c)],
   waiting : 0 .. Len(c), own : [McIndices -> 0 .. Len(c)],
   hung : BOOLEAN, mixed : BOOLEAN,
   csc : [McIndices -> [ChipSelects -> [en : BOOLEAN, sel : Int]]],
   mask : [McIndices -> Int],
   mem : [DOMAIN c -> [valid : BOOLEAN, cmp : Int, mask : Int]]]

McConfigSet == Seq([cs : Int, mc : Int])

(* What follows an area, or the end, on the lists.                         *)
McAfter(s, x) == IF x = 0 THEN 0 ELSE s.nxt[x]

(* A list, step by step.                                                   *)
LEMMA ListIs ==
  ASSUME NEW c \in McConfigSet, NEW s \in McStates(c), NEW a \in 0 .. Len(c)
  PROVE  LET l == McList(s, a)
         IN  /\ l \in [0 .. Len(c) -> 0 .. Len(c)] /\ l[0] = a
             /\ \A n \in 1 .. Len(c) : l[n] = McAfter(s, l[n - 1])
<1> DEFINE N == Len(c)
           S == 0 .. N
           F == [n \in 1 .. N |-> [x \in S |-> McAfter(s, x)]]
           Eq(g) == g = [n \in 0 .. N |-> IF n = 0 THEN a
                                          ELSE IF g[n - 1] = 0 THEN 0 ELSE s.nxt[g[n - 1]]]
<1>0. N \in Nat /\ DOMAIN c = 1 .. N /\ s.areas = c /\ s.nxt \in [1 .. N -> S] /\ 0 \in S
  BY DEF McStates, McConfigSet
<1> HIDE DEF N
<1>1. F \in [1 .. N -> [S -> S]]
  <2>1. ASSUME NEW x \in S PROVE McAfter(s, x) \in S
    BY <1>0 DEF McAfter
  <2> HIDE DEF S
  <2> QED BY <2>1
<1>2. \A n \in 1 .. N : \A x \in S : F[n][x] = McAfter(s, x)
  OBVIOUS
<1>3. a \in S
  BY DEF N
<1> HIDE DEF F, S
<1>4. PICK f \in [0 .. N -> S] : f[0] = a /\ \A n \in 1 .. N : f[n] = F[n][f[n - 1]]
  <2>1. N \in Nat
    BY <1>0
  <2>2. McSteps(S, a, N, F)
    BY <1>1, <1>3, <2>1, McStepsExist
  <2> QED BY <2>2 DEF McSteps
<1>5. \A n \in 1 .. N : f[n - 1] \in S /\ f[n] = McAfter(s, f[n - 1])
  <2>1. \A n \in 1 .. N : n - 1 \in 0 .. N
    BY <1>0
  <2> QED BY <1>2, <1>4, <2>1
<1>6. Eq(f)
  <2>1. \A n \in 0 .. N : f[n] = IF n = 0 THEN a ELSE IF f[n - 1] = 0 THEN 0 ELSE s.nxt[f[n - 1]]
    BY <1>0, <1>4, <1>5 DEF McAfter
  <2> QED BY <1>4, <2>1
<1> DEFINE g == CHOOSE x : Eq(x)
<1>7. McList(s, a) = g
  BY <1>0 DEF McList, N
<1> HIDE DEF Eq
<1>8. Eq(g)
  BY <1>6
<1> HIDE DEF g
<1>9. /\ g = [n \in 0 .. N |-> g[n]] /\ g[0] = a
      /\ \A n \in 1 .. N : g[n] = McAfter(s, g[n - 1])
  <2>1. \A n \in 0 .. N : g[n] = IF n = 0 THEN a
                                  ELSE IF g[n - 1] = 0 THEN 0 ELSE s.nxt[g[n - 1]]
    BY <1>8 DEF Eq
  <2>2. g = [n \in 0 .. N |-> g[n]]
    BY <1>8, Zenon DEF Eq
  <2>3. g[0] = a
    BY <1>0, <2>1
  <2>4. ASSUME NEW n \in 1 .. N PROVE g[n] = McAfter(s, g[n - 1])
    <3>1. n \in 0 .. N /\ n # 0
      BY <1>0
    <3> QED BY <2>1, <3>1, Zenon DEF McAfter
  <2> QED BY <2>2, <2>3, <2>4, Zenon
<1> DEFINE P == {n \in 0 .. N : g[n] \in S}
<1>10. 0 \in P
  BY <1>0, <1>3, <1>9
<1>11. ASSUME NEW n \in 1 .. N, n - 1 \in P PROVE n \in P
  <2>1. g[n - 1] \in S /\ g[n] = McAfter(s, g[n - 1])
    BY <1>9, <1>11
  <2>2. s.nxt \in [1 .. N -> 0 .. N] /\ g[n - 1] \in 0 .. N
    BY <1>0, <2>1 DEF S
  <2>3. g[n] \in S
    <3>1. CASE g[n - 1] = 0
      BY <1>0, <2>1, <3>1, Zenon DEF McAfter
    <3>2. CASE g[n - 1] # 0
      <4>1. g[n - 1] \in 1 .. N
        BY <1>0, <2>2, <3>2
      <4>2. g[n] = s.nxt[g[n - 1]]
        BY <2>1, <3>2, Zenon DEF McAfter
      <4> QED BY <1>0, <4>1, <4>2, Zenon
    <3> QED BY <3>1, <3>2
  <2> QED BY <1>0, <2>3
<1> HIDE DEF P
<1>12. 0 .. N \subseteq P
  BY <1>0, <1>10, <1>11, UpTo
<1>13. g \in [0 .. N -> S]
  BY <1>9, <1>12 DEF P
<1> QED BY <1>7, <1>9, <1>13 DEF N, S

(* The areas on a list are areas, and a list that ends has what follows    *)
(* each of them.                                                           *)
LEMMA ListClosed ==
  ASSUME NEW c \in McConfigSet, NEW s \in McStates(c), NEW a \in 0 .. Len(c)
  PROVE  /\ OnList(s, a) \subseteq DOMAIN c
         /\ a # 0 => a \in OnList(s, a)
         /\ ~Cyclic(s, a) => \A x \in OnList(s, a) : s.nxt[x] # 0 => s.nxt[x] \in OnList(s, a)
<1> DEFINE N == Len(c)
           l == McList(s, a)
<1>0. N \in Nat /\ DOMAIN c = 1 .. N /\ s.areas = c
  BY DEF McStates, McConfigSet
<1>1. l \in [0 .. N -> 0 .. N] /\ l[0] = a /\ \A n \in 1 .. N : l[n] = McAfter(s, l[n - 1])
  BY ListIs
<1>2. OnList(s, a) = {l[n] : n \in 0 .. N} \ {0} /\ (Cyclic(s, a) <=> l[N] # 0)
  BY <1>0 DEF OnList, Cyclic
<1> HIDE DEF N, l
<1>3. ASSUME l[N] = 0, NEW n \in 0 .. N, l[n] # 0, s.nxt[l[n]] # 0
      PROVE  \E k \in 0 .. N : l[k] = s.nxt[l[n]]
  <2>1. n + 1 \in 1 .. N /\ n + 1 \in 0 .. N /\ (n + 1) - 1 = n
    BY <1>0, <1>3
  <2>2. l[n + 1] = s.nxt[l[n]]
    BY <1>1, <1>3, <2>1 DEF McAfter
  <2> QED BY <2>1, <2>2
<1>4. OnList(s, a) \subseteq DOMAIN c
  <2> SUFFICES ASSUME NEW n \in 0 .. N, l[n] # 0 PROVE l[n] \in 1 .. N
    BY <1>0, <1>2, Zenon
  <2>1. l[n] \in 0 .. N
    BY <1>1, Zenon
  <2> QED BY <1>0, <2>1
<1>5. ASSUME a # 0 PROVE a \in OnList(s, a)
  <2>1. 0 \in 0 .. N
    BY <1>0
  <2> QED BY <1>1, <1>2, <1>5, <2>1, Zenon
<1>6. ASSUME ~Cyclic(s, a), NEW x \in OnList(s, a), s.nxt[x] # 0 PROVE s.nxt[x] \in OnList(s, a)
  <2>1. PICK n \in 0 .. N : x = l[n] /\ l[n] # 0
    BY <1>2, Zenon
  <2>2. \E k \in 0 .. N : l[k] = s.nxt[x]
    BY <1>2, <1>3, <1>6, <2>1, Zenon
  <2> QED BY <1>2, <1>6, <2>2, Zenon
<1> QED BY <1>4, <1>5, <1>6

(* Two states that agree on what follows the areas of a list have the same *)
(* list.                                                                   *)
LEMMA ListSame ==
  ASSUME NEW c \in McConfigSet, NEW s \in McStates(c), NEW t \in McStates(c),
         NEW a \in 0 .. Len(c), \A x \in OnList(s, a) : t.nxt[x] = s.nxt[x]
  PROVE  McList(t, a) = McList(s, a) /\ OnList(t, a) = OnList(s, a)
         /\ (Cyclic(t, a) <=> Cyclic(s, a))
<1> DEFINE N == Len(c)
           l == McList(s, a)
           k == McList(t, a)
<1>0. N \in Nat /\ s.areas = c /\ t.areas = c
  BY DEF McStates, McConfigSet
<1>1. /\ l \in [0 .. N -> 0 .. N] /\ l[0] = a /\ \A n \in 1 .. N : l[n] = McAfter(s, l[n - 1])
      /\ k \in [0 .. N -> 0 .. N] /\ k[0] = a /\ \A n \in 1 .. N : k[n] = McAfter(t, k[n - 1])
  BY ListIs
<1>2. \A n \in 0 .. N : l[n] # 0 => t.nxt[l[n]] = s.nxt[l[n]]
  BY <1>0 DEF OnList
<1> HIDE DEF N, l, k
<1> DEFINE P == {n \in 0 .. N : l[n] = k[n]}
<1>3. 0 \in P
  BY <1>0, <1>1
<1>4. ASSUME NEW n \in 1 .. N, n - 1 \in P PROVE n \in P
  <2>1. n - 1 \in 0 .. N /\ l[n - 1] = k[n - 1]
    BY <1>0, <1>4
  <2>2. McAfter(t, k[n - 1]) = McAfter(s, l[n - 1])
    BY <1>2, <2>1 DEF McAfter
  <2> QED BY <1>1, <2>2
<1> HIDE DEF P
<1>5. 0 .. N \subseteq P
  BY <1>0, <1>3, <1>4, UpTo
<1>6. l = k
  <2>1. \A n \in 0 .. N : l[n] = k[n]
    BY <1>5 DEF P
  <2>2. l \in [0 .. N -> 0 .. N] /\ k \in [0 .. N -> 0 .. N]
    BY <1>1
  <2>3. l = [n \in 0 .. N |-> l[n]] /\ k = [n \in 0 .. N |-> k[n]]
    BY <2>2
  <2>4. [n \in 0 .. N |-> l[n]] = [n \in 0 .. N |-> k[n]]
    BY <2>1
  <2> QED BY <2>3, <2>4, Zenon
<1> QED BY <1>0, <1>6 DEF l, k, OnList, Cyclic

(* The area of a chip select is on the list and has that chip select, and  *)
(* depends on the list and the chip selects only.                          *)
LEMMA SelectedIs ==
  ASSUME NEW c \in McConfigSet, NEW s \in McStates(c), NEW m \in McIndices, NEW cs
  PROVE  LET a == McSelected(s, m, cs)
         IN  /\ a \in 0 .. Len(c)
             /\ a # 0 => a \in OnList(s, s.own[m]) /\ a \in DOMAIN c /\ c[a].cs = cs
<1> DEFINE N == Len(c)
           l == McList(s, s.own[m])
           hits == {n \in 0 .. N : l[n] # 0 /\ c[l[n]].cs = cs}
<1>0. N \in Nat /\ s.areas = c /\ DOMAIN c = 1 .. N /\ s.own[m] \in 0 .. N
  BY DEF McStates, McConfigSet
<1>1. l \in [0 .. N -> 0 .. N]
  BY <1>0, ListIs
<1>2. OnList(s, s.own[m]) = {l[n] : n \in 0 .. N} \ {0}
  BY <1>0 DEF OnList
<1>3. McSelected(s, m, cs) = IF hits = {} THEN 0 ELSE l[CHOOSE n \in hits : \A k \in hits : n <= k]
  BY <1>0 DEF McSelected
<1> HIDE DEF N, l
<1>4. CASE hits = {}
  <2>1. McSelected(s, m, cs) = 0
    BY <1>3, <1>4, Zenon
  <2> QED BY <1>0, <2>1 DEF N
<1>5. CASE hits # {}
  <2>1. hits \in SUBSET Nat
    BY <1>0
  <2>2. \E n \in hits : \A k \in hits : n <= k
    BY <1>5, <2>1, LeastNat
  <2> DEFINE n == CHOOSE n \in hits : \A k \in hits : n <= k
  <2>3. n \in hits
    BY <2>2
  <2>4. McSelected(s, m, cs) = l[n]
    BY <1>3, <1>5
  <2> HIDE DEF n
  <2>5. l[n] \in 0 .. N /\ l[n] # 0 /\ c[l[n]].cs = cs /\ n \in 0 .. N
    BY <1>1, <2>3
  <2> QED BY <1>0, <1>2, <2>4, <2>5 DEF N
<1> QED BY <1>4, <1>5

(* It is the same in two states with the same list.                        *)
LEMMA SelectedSame ==
  ASSUME NEW s, NEW t, NEW m, NEW cs, t.areas = s.areas,
         McList(t, t.own[m]) = McList(s, s.own[m])
  PROVE  McSelected(t, m, cs) = McSelected(s, m, cs)
BY DEF McSelected

(* The loop of mc_reset(): its states, and what it keeps of s while m      *)
(* takes its areas.  X are areas of other controllers with what follows    *)
(* them.                                                                   *)
GrabStates(c) == [s : McStates(c), prev : 0 .. Len(c), cur : 0 .. Len(c)]

GrabOthers(c, s, m, X) ==
  \A x \in X : /\ x \in DOMAIN c /\ c[x].mc # m
               /\ s.nxt[x] # 0 => s.nxt[x] \in X

GrabLeaves(c, s, m, X, w) ==
  /\ w.s.csc = s.csc /\ w.s.mask = s.mask /\ w.s.mem = s.mem
  /\ w.s.hung = s.hung /\ w.s.mixed = s.mixed
  /\ \A k \in McIndices : k # m => w.s.own[k] = s.own[k]
  /\ \A x \in X : w.s.nxt[x] = s.nxt[x]
  /\ w.prev # 0 /\ c[w.prev].mc # m => w.s.nxt[w.prev] = w.cur

(* One round of it.                                                        *)
LEMMA GrabStepKeeps ==
  ASSUME NEW c \in McConfigSet, NEW m \in McIndices, NEW w \in GrabStates(c)
  PROVE  /\ GrabStep(w, m) \in GrabStates(c)
         /\ \A s, X : GrabOthers(c, s, m, X) /\ GrabLeaves(c, s, m, X, w)
                        => GrabLeaves(c, s, m, X, GrabStep(w, m))
<1> DEFINE N == Len(c)
           g == w.s
           q == w.cur
           p == w.prev
           u == GrabStep(w, m)
<1>0. /\ N \in Nat /\ DOMAIN c = 1 .. N /\ g \in McStates(c) /\ q \in 0 .. N /\ p \in 0 .. N
      /\ g.areas = c /\ g.nxt \in [1 .. N -> 0 .. N] /\ g.own \in [McIndices -> 0 .. N]
      /\ g.waiting \in 0 .. N
  <2>1. g \in McStates(c) /\ q \in 0 .. N /\ p \in 0 .. N
    BY DEF GrabStates
  <2>2. N \in Nat /\ DOMAIN c = 1 .. N
    BY DEF McConfigSet
  <2> HIDE DEF g, q, p, N
  <2>3. /\ g.areas = c /\ g.nxt \in [1 .. N -> 0 .. N] /\ g.own \in [McIndices -> 0 .. N]
        /\ g.waiting \in 0 .. N
    BY <2>1, <2>2 DEF McStates, N
  <2> QED BY <2>1, <2>2, <2>3
<1>1. CASE q = 0
  BY <1>1 DEF GrabStep
<1>2. CASE q # 0 /\ c[q].mc # m
  <2>1. u = [w EXCEPT !.prev = q, !.cur = g.nxt[q]]
    BY <1>0, <1>2 DEF GrabStep
  <2>2. g.nxt[q] \in 0 .. N
    BY <1>0, <1>2
  <2> DEFINE v == g.nxt[q]
  <2>3. u = [w EXCEPT !.prev = q, !.cur = v]
    BY <2>1
  <2> HIDE DEF v
  <2>4. u.s = w.s /\ u.prev = q /\ u.cur = v
    BY <2>3 DEF GrabStates
  <2>5. u \in GrabStates(c)
    BY <1>0, <2>2, <2>3 DEF GrabStates, N, v
  <2> HIDE DEF u
  <2>6. u.cur = u.s.nxt[u.prev]
    BY <2>4 DEF v
  <2> QED BY <2>4, <2>5, <2>6 DEF GrabLeaves, u
<1>3. CASE q # 0 /\ c[q].mc = m
  <2> DEFINE nx1 == IF p # 0 THEN [g.nxt EXCEPT ![p] = g.nxt[q]] ELSE g.nxt
             nx == [nx1 EXCEPT ![q] = g.own[m]]
             wt == IF p # 0 THEN g.waiting ELSE g.nxt[q]
             ow == [g.own EXCEPT ![m] = q]
             h == [g EXCEPT !.nxt = nx, !.own = ow, !.waiting = wt]
             v == g.nxt[q]
  <2>1. u = [s |-> h, prev |-> q, cur |-> v]
    <3>1. CASE p # 0
      <4>1. u = [s |-> [[g EXCEPT !.nxt[p] = g.nxt[q]] EXCEPT !.nxt[q] = g.own[m], !.own[m] = q],
                 prev |-> q, cur |-> v]
        BY <1>0, <1>3, <3>1 DEF GrabStep, McStates
      <4>2. [[g EXCEPT !.nxt[p] = g.nxt[q]] EXCEPT !.nxt[q] = g.own[m], !.own[m] = q] = h
        BY <3>1, <1>0 DEF McStates
      <4> QED BY <4>1, <4>2
    <3>2. CASE p = 0
      <4>1. u = [s |-> [[g EXCEPT !.waiting = g.nxt[q]] EXCEPT !.nxt[q] = g.own[m], !.own[m] = q],
                 prev |-> q, cur |-> v]
        BY <1>0, <1>3, <3>2 DEF GrabStep, McStates
      <4>2. [[g EXCEPT !.waiting = g.nxt[q]] EXCEPT !.nxt[q] = g.own[m], !.own[m] = q] = h
        BY <3>2, <1>0 DEF McStates
      <4> QED BY <4>1, <4>2
    <3> QED BY <3>1, <3>2
  <2>2. /\ v \in 0 .. N /\ wt \in 0 .. N /\ ow \in [McIndices -> 0 .. N]
        /\ nx \in [1 .. N -> 0 .. N]
    <3> HIDE DEF N, g, q, p
    <3>1. q \in 1 .. N /\ (p # 0 => p \in 1 .. N)
      BY <1>0, <1>3
    <3>2. v \in 0 .. N /\ g.own[m] \in 0 .. N
      BY <1>0, <3>1
    <3>3. nx1 \in [1 .. N -> 0 .. N]
      BY <1>0, <3>1, <3>2
    <3>4. nx \in [1 .. N -> 0 .. N]
      <4> HIDE DEF nx1
      <4> QED BY <3>1, <3>2, <3>3
    <3>5. ow \in [McIndices -> 0 .. N]
      BY <1>0, <1>3
    <3> QED BY <1>0, <3>2, <3>4, <3>5
  <2>3. \A k \in McIndices : k # m => ow[k] = g.own[k]
    BY <1>0
  <2>4. \A x \in 1 .. N : x # q /\ x # p => nx[x] = g.nxt[x]
    BY <1>0
  <2> HIDE DEF nx, ow, wt, v
  <2>5. h \in McStates(c)
    BY <1>0, <2>2 DEF McStates, N
  <2>6. /\ h.csc = g.csc /\ h.mask = g.mask /\ h.mem = g.mem /\ h.hung = g.hung
        /\ h.mixed = g.mixed /\ h.own = ow /\ h.nxt = nx
    BY <1>0 DEF McStates
  <2> HIDE DEF h
  <2>7. u.s = h /\ u.prev = q /\ u.cur = v
    BY <2>1
  <2>8. u \in GrabStates(c)
    BY <1>0, <2>1, <2>2, <2>5 DEF GrabStates, N
  <2>9. ASSUME NEW s, NEW X, GrabOthers(c, s, m, X), GrabLeaves(c, s, m, X, w), NEW x \in X
        PROVE  nx[x] = s.nxt[x]
    <3>1. x \in 1 .. N /\ c[x].mc # m /\ g.nxt[x] = s.nxt[x]
      BY <1>0, <2>9 DEF GrabOthers, GrabLeaves
    <3>2. x # q
      BY <1>3, <3>1
    <3>3. CASE x = p
      <4>1. g.nxt[x] = q
        BY <1>0, <2>9, <3>1, <3>3 DEF GrabLeaves
      <4>2. q \in X
        BY <1>3, <2>9, <3>1, <4>1 DEF GrabOthers
      <4> QED BY <1>3, <2>9, <4>2 DEF GrabOthers
    <3> QED BY <2>4, <3>1, <3>2, <3>3
  <2> HIDE DEF u
  <2>10. ASSUME NEW s, NEW X, GrabOthers(c, s, m, X), GrabLeaves(c, s, m, X, w)
         PROVE  GrabLeaves(c, s, m, X, u)
    <3>1. \A x \in X : u.s.nxt[x] = s.nxt[x]
      BY <2>6, <2>7, <2>9, <2>10
    <3>2. \A k \in McIndices : k # m => u.s.own[k] = s.own[k]
      BY <2>3, <2>6, <2>7, <2>10 DEF GrabLeaves
    <3>3. c[u.prev].mc = m
      BY <1>3, <2>7
    <3> QED BY <2>6, <2>7, <2>10, <3>1, <3>2, <3>3 DEF GrabLeaves
  <2> QED BY <2>8, <2>10 DEF u
<1> QED BY <1>1, <1>2, <1>3

(* All of its rounds.                                                      *)
LEMMA GrabRounds ==
  ASSUME NEW c \in McConfigSet, NEW s \in McStates(c), NEW m \in McIndices
  PROVE  \E w \in GrabStates(c) :
           /\ McGrab(s, m) = [w.s EXCEPT !.hung = w.cur # 0 \/ Cyclic(w.s, w.s.own[m]),
                                         !.mixed = @ \/ McMixed(w.s)]
           /\ \A X : GrabOthers(c, s, m, X) => GrabLeaves(c, s, m, X, w)
<1> DEFINE R == Len(s.areas) + 1
           S == GrabStates(c)
           a == [s |-> s, prev |-> 0, cur |-> s.waiting]
           F == [n \in 1 .. R |-> [x \in S |-> GrabStep(x, m)]]
           Eq(g) == g = [n \in 0 .. R |-> IF n = 0 THEN a ELSE GrabStep(g[n - 1], m)]
<1>0. R \in Nat /\ s.waiting \in 0 .. Len(c) /\ 0 \in 0 .. Len(c)
  BY DEF McStates, McConfigSet
<1>0a. a \in S
  BY <1>0 DEF GrabStates
<1>1. F \in [1 .. R -> [S -> S]]
  <2>1. ASSUME NEW x \in S PROVE GrabStep(x, m) \in S
    BY GrabStepKeeps
  <2> HIDE DEF S, R
  <2> QED BY <2>1
<1>2. \A n \in 1 .. R : \A x \in S : F[n][x] = GrabStep(x, m)
  OBVIOUS
<1>3. \A X : GrabOthers(c, s, m, X) => GrabLeaves(c, s, m, X, a)
  BY DEF GrabLeaves
<1> DEFINE g == CHOOSE x : Eq(x)
<1>4. McGrab(s, m) = [g[R].s EXCEPT !.hung = g[R].cur # 0 \/ Cyclic(g[R].s, g[R].s.own[m]),
                                    !.mixed = @ \/ McMixed(g[R].s)]
  BY DEF McGrab
<1> HIDE DEF F, S, R, a
<1>5. PICK f \in [0 .. R -> S] : f[0] = a /\ \A n \in 1 .. R : f[n] = F[n][f[n - 1]]
  <2>1. R \in Nat
    BY <1>0
  <2>2. McSteps(S, a, R, F)
    BY <1>0a, <1>1, <2>1, McStepsExist
  <2> QED BY <2>2 DEF McSteps
<1>6. Eq(f)
  <2>1. \A n \in 1 .. R : n - 1 \in 0 .. R
    BY <1>0
  <2>2. \A n \in 1 .. R : f[n] = GrabStep(f[n - 1], m)
    BY <1>2, <1>5, <2>1
  <2>3. \A n \in 0 .. R : f[n] = IF n = 0 THEN a ELSE GrabStep(f[n - 1], m)
    BY <1>0, <1>5, <2>2
  <2> QED BY <1>5, <2>3
<1> HIDE DEF Eq
<1>7. Eq(g)
  BY <1>6
<1> HIDE DEF g
<1>8. g[0] = a /\ \A n \in 1 .. R : g[n] = GrabStep(g[n - 1], m)
  <2>1. \A n \in 0 .. R : g[n] = IF n = 0 THEN a ELSE GrabStep(g[n - 1], m)
    BY <1>7 DEF Eq
  <2> QED BY <1>0, <2>1
<1> DEFINE P == {n \in 0 .. R : /\ g[n] \in S
                               /\ \A X : GrabOthers(c, s, m, X) => GrabLeaves(c, s, m, X, g[n])}
<1>9. 0 \in P
  BY <1>0, <1>0a, <1>3, <1>8
<1>10. ASSUME NEW n \in 1 .. R, n - 1 \in P PROVE n \in P
  <2>1. /\ g[n - 1] \in GrabStates(c)
        /\ \A X : GrabOthers(c, s, m, X) => GrabLeaves(c, s, m, X, g[n - 1])
    BY <1>10 DEF S
  <2>2. g[n] = GrabStep(g[n - 1], m)
    BY <1>8
  <2>3. g[n] \in S /\ \A X : GrabOthers(c, s, m, X) => GrabLeaves(c, s, m, X, g[n])
    BY <2>1, <2>2, GrabStepKeeps DEF S
  <2> QED BY <1>0, <2>3
<1> HIDE DEF P
<1>11. 0 .. R \subseteq P
  BY <1>0, <1>9, <1>10, UpTo
<1>12. R \in P
  BY <1>0, <1>11
<1> QED BY <1>4, <1>12 DEF P, S

(* The lists of a state depend on areas, pointers and heads only.          *)
LEMMA ListsOf ==
  ASSUME NEW s, NEW t, t.areas = s.areas, t.nxt = s.nxt, t.own = s.own
  PROVE  /\ \A a : /\ McList(t, a) = McList(s, a) /\ OnList(t, a) = OnList(s, a)
                   /\ (Cyclic(t, a) <=> Cyclic(s, a))
         /\ \A m, cs : McSelected(t, m, cs) = McSelected(s, m, cs)
         /\ McMixed(t) <=> McMixed(s)
<1>1. \A a : McList(t, a) = McList(s, a)
  BY DEF McList
<1>2. \A a : OnList(t, a) = OnList(s, a) /\ (Cyclic(t, a) <=> Cyclic(s, a))
  BY <1>1 DEF OnList, Cyclic
<1>3. \A m, cs : McSelected(t, m, cs) = McSelected(s, m, cs)
  BY <1>1, SelectedSame
<1> QED BY <1>1, <1>2, <1>3 DEF McMixed

(* What the loop did: the controller's list ends unless it hung, and has   *)
(* no area of another unless that is noted; the registers, the memories    *)
(* and the areas in X are as before.                                       *)
LEMMA GrabDoes ==
  ASSUME NEW c \in McConfigSet, NEW s \in McStates(c), NEW m \in McIndices
  PROVE  LET t == McGrab(s, m)
         IN  /\ t \in McStates(c) /\ t.csc = s.csc /\ t.mask = s.mask /\ t.mem = s.mem
             /\ ~t.hung => ~Cyclic(t, t.own[m])
             /\ ~t.mixed => ~s.mixed /\ ~McMixed(t)
             /\ \A k \in McIndices : k # m => t.own[k] = s.own[k]
             /\ \A X : GrabOthers(c, s, m, X) => \A x \in X : t.nxt[x] = s.nxt[x]
<1>1. PICK w \in GrabStates(c) :
           /\ McGrab(s, m) = [w.s EXCEPT !.hung = w.cur # 0 \/ Cyclic(w.s, w.s.own[m]),
                                         !.mixed = @ \/ McMixed(w.s)]
           /\ \A X : GrabOthers(c, s, m, X) => GrabLeaves(c, s, m, X, w)
  BY GrabRounds
<1> DEFINE g == w.s
           t == McGrab(s, m)
           hu == w.cur # 0 \/ Cyclic(g, g.own[m])
           mi == g.mixed \/ McMixed(g)
<1>2. g \in McStates(c) /\ hu \in BOOLEAN /\ mi \in BOOLEAN
  BY DEF GrabStates, McStates, Cyclic, McMixed
<1>3. t = [g EXCEPT !.hung = hu, !.mixed = mi]
  BY <1>1
<1>4. GrabOthers(c, s, m, {})
  BY DEF GrabOthers
<1>5. GrabLeaves(c, s, m, {}, w)
  BY <1>1, <1>4
<1>6. hu = FALSE => ~Cyclic(g, g.own[m])
  OBVIOUS
<1>7. mi = FALSE => g.mixed = FALSE /\ ~McMixed(g)
  BY <1>2 DEF McStates
<1> HIDE DEF hu, mi, t
<1>8. t \in McStates(c) /\ t.hung = hu /\ t.mixed = mi
  BY <1>2, <1>3 DEF McStates
<1>9. /\ t.areas = g.areas /\ t.nxt = g.nxt /\ t.own = g.own /\ t.csc = g.csc
      /\ t.mask = g.mask /\ t.mem = g.mem
  BY <1>2, <1>3 DEF McStates
<1>10. Cyclic(t, t.own[m]) <=> Cyclic(g, g.own[m])
  BY <1>9, ListsOf
<1>11. McMixed(t) <=> McMixed(g)
  BY <1>9, ListsOf
<1>12. \A X : GrabOthers(c, s, m, X) => \A x \in X : t.nxt[x] = s.nxt[x]
  BY <1>1, <1>9 DEF GrabLeaves
<1>13. /\ t.csc = s.csc /\ t.mask = s.mask /\ t.mem = s.mem /\ g.mixed = s.mixed
       /\ \A k \in McIndices : k # m => t.own[k] = s.own[k]
  BY <1>5, <1>9 DEF GrabLeaves
<1>14. ~t.hung => ~Cyclic(t, t.own[m])
  BY <1>2, <1>6, <1>8, <1>10
<1>15. ~t.mixed => ~s.mixed /\ ~McMixed(t)
  BY <1>2, <1>7, <1>8, <1>11, <1>13
<1> QED BY <1>8, <1>12, <1>13, <1>14, <1>15 DEF t

(* What the registers of m say of the area of a chip select.               *)
CscRight(s, m, cs, a) ==
  /\ s.mem[a].valid = s.csc[m][cs].en
  /\ s.mem[a].valid => s.mem[a].cmp = s.csc[m][cs].sel /\ s.mem[a].mask = s.mask[m]

McFollows(s, m) ==
  \A cs \in ChipSelects :
    LET a == McSelected(s, m, cs) IN a # 0 => CscRight(s, m, cs, a)

(* States that differ in their memories only.                              *)
McOnlyMem(s, t) ==
  /\ t.areas = s.areas /\ t.nxt = s.nxt /\ t.own = s.own /\ t.waiting = s.waiting
  /\ t.csc = s.csc /\ t.mask = s.mask /\ t.hung = s.hung /\ t.mixed = s.mixed

(* set_csc_tms() sets the area of its chip select and no other.            *)
LEMMA SetDoes ==
  ASSUME NEW c \in McConfigSet, NEW s \in McStates(c), NEW m \in McIndices, NEW cs \in ChipSelects
  PROVE  LET t == set_csc_tms(s, m, cs)
             a == McSelected(s, m, cs)
         IN  /\ t \in McStates(c) /\ McOnlyMem(s, t)
             /\ \A x \in DOMAIN c : x # a => t.mem[x] = s.mem[x]
             /\ a # 0 => CscRight(t, m, cs, a)
<1> DEFINE t == set_csc_tms(s, m, cs)
           a == McSelected(s, m, cs)
           e == [valid |-> s.csc[m][cs].en, cmp |-> s.csc[m][cs].sel, mask |-> s.mask[m]]
           mm == [s.mem EXCEPT ![a] = e]
<1>1. CASE a = 0
  BY <1>1 DEF set_csc_tms, McOnlyMem
<1>2. CASE a # 0
  <2>1. t = [s EXCEPT !.mem = mm]
    BY <1>2 DEF set_csc_tms
  <2>2. a \in DOMAIN c
    BY <1>2, SelectedIs
  <2>3. /\ s.mem \in [DOMAIN c -> [valid : BOOLEAN, cmp : Int, mask : Int]]
        /\ s.csc[m] \in [ChipSelects -> [en : BOOLEAN, sel : Int]] /\ s.mask[m] \in Int
    BY DEF McStates
  <2>4. s.csc[m][cs] \in [en : BOOLEAN, sel : Int]
    BY <2>3
  <2>5. e \in [valid : BOOLEAN, cmp : Int, mask : Int]
    BY <2>3, <2>4
  <2>6. e.valid = s.csc[m][cs].en /\ e.cmp = s.csc[m][cs].sel /\ e.mask = s.mask[m]
    OBVIOUS
  <2> HIDE DEF a, e
  <2>7. /\ mm \in [DOMAIN c -> [valid : BOOLEAN, cmp : Int, mask : Int]]
        /\ mm[a] = e /\ \A x \in DOMAIN c : x # a => mm[x] = s.mem[x]
    BY <2>2, <2>3, <2>5
  <2> HIDE DEF mm, t
  <2>8. t \in McStates(c)
    BY <2>1, <2>7 DEF McStates
  <2>9. McOnlyMem(s, t) /\ t.mem = mm
    BY <2>1 DEF McOnlyMem, McStates
  <2>10. CscRight(t, m, cs, a)
    BY <2>6, <2>7, <2>9 DEF CscRight, McOnlyMem
  <2> QED BY <2>7, <2>8, <2>9, <2>10 DEF t, a
<1> QED BY <1>1, <1>2

(* The memory controllers: every list ends and has areas of its controller *)
(* only, so that no area is on two.                                        *)
ListsGood(c, s) ==
  \A m \in McIndices :
    /\ ~Cyclic(s, s.own[m])
    /\ \A a \in OnList(s, s.own[m]) : c[a].mc = m

(* The controllers in D have set the decoders of their areas.              *)
McGood(c, s, D) ==
  /\ s \in McStates(c)
  /\ ~s.hung /\ ~s.mixed => ListsGood(c, s) /\ \A m \in D : McFollows(s, m)

(* Selected areas of different chip selects or controllers are different.  *)
LEMMA SelectedApart ==
  ASSUME NEW c \in McConfigSet, NEW s \in McStates(c), ListsGood(c, s),
         NEW m \in McIndices, NEW k \in McIndices, NEW cs, NEW ds,
         McSelected(s, m, cs) # 0, McSelected(s, m, cs) = McSelected(s, k, ds)
  PROVE  m = k /\ cs = ds
BY SelectedIs DEF ListsGood

(* A controller whose list, registers and memories are the same follows    *)
(* them as before.                                                         *)
LEMMA FollowsStill ==
  ASSUME NEW s, NEW t, NEW m, McFollows(s, m),
         \A cs \in ChipSelects : McSelected(t, m, cs) = McSelected(s, m, cs),
         t.csc[m] = s.csc[m], t.mask[m] = s.mask[m],
         \A cs \in ChipSelects : McSelected(s, m, cs) # 0
            => t.mem[McSelected(s, m, cs)] = s.mem[McSelected(s, m, cs)]
  PROVE  McFollows(t, m)
BY DEF McFollows, CscRight

(* Every area but those of the chip selects in E is set as the registers   *)
(* say.                                                                    *)
RightBut(s, E) ==
  \A k \in McIndices, ds \in ChipSelects :
    LET a == McSelected(s, k, ds) IN <<k, ds>> \notin E /\ a # 0 => CscRight(s, k, ds, a)

(* With none left every controller's areas are set.                        *)
LEMMA RightAll ==
  ASSUME NEW s
  PROVE  RightBut(s, {}) <=> \A m \in McIndices : McFollows(s, m)
BY DEF RightBut, McFollows

(* Lists are as good after a change of memories or registers.              *)
LEMMA ListsStill ==
  ASSUME NEW c \in McConfigSet, NEW s, NEW t, t.areas = s.areas, t.nxt = s.nxt, t.own = s.own
  PROVE  ListsGood(c, t) <=> ListsGood(c, s)
BY ListsOf DEF ListsGood

(* set_csc_tms() settles one of them.                                      *)
LEMMA SetOne ==
  ASSUME NEW c \in McConfigSet, NEW s \in McStates(c), ListsGood(c, s), NEW E, RightBut(s, E),
         NEW m \in McIndices, NEW cs \in ChipSelects
  PROVE  RightBut(set_csc_tms(s, m, cs), E \ {<<m, cs>>})
<1> DEFINE t == set_csc_tms(s, m, cs)
           b == McSelected(s, m, cs)
<1>1. /\ McOnlyMem(s, t)
      /\ \A x \in DOMAIN c : x # b => t.mem[x] = s.mem[x]
      /\ b # 0 => CscRight(t, m, cs, b)
  BY SetDoes
<1> HIDE DEF t
<1> SUFFICES ASSUME NEW k \in McIndices, NEW ds \in ChipSelects, <<k, ds>> \notin E \ {<<m, cs>>},
                    McSelected(t, k, ds) # 0
             PROVE  CscRight(t, k, ds, McSelected(t, k, ds))
  BY DEF RightBut, t
<1> DEFINE a == McSelected(s, k, ds)
<1>2. McSelected(t, k, ds) = a
  BY <1>1, ListsOf DEF McOnlyMem
<1>3. CASE k = m /\ ds = cs
  BY <1>1, <1>2, <1>3
<1>4. CASE ~(k = m /\ ds = cs)
  <2>1. a # b
    BY <1>2, <1>4, SelectedApart
  <2>2. a \in DOMAIN c
    BY <1>2, SelectedIs
  <2>3. <<k, ds>> \notin E
    BY <1>4
  <2>4. CscRight(s, k, ds, a)
    BY <1>2, <2>3 DEF RightBut
  <2>5. t.mem[a] = s.mem[a] /\ t.csc = s.csc /\ t.mask = s.mask
    BY <1>1, <2>1, <2>2 DEF McOnlyMem
  <2> HIDE DEF a
  <2> QED BY <1>2, <2>4, <2>5 DEF CscRight
<1> QED BY <1>3, <1>4

(* A write to a chip select's register.                                    *)
LEMMA WriteCscKeeps ==
  ASSUME NEW c \in McConfigSet, McGood(c, dev, McIndices), ~dev.hung, McWriteCsc
  PROVE  McGood(c, dev', McIndices)
<1>1. PICK m \in McIndices, d \in ChipSelects, e \in BOOLEAN, v \in McSelects :
        dev' = set_csc_tms([dev EXCEPT !.csc[m][d] = [en |-> e, sel |-> v]], m, d)
  BY DEF McWriteCsc
<1> DEFINE r == [en |-> e, sel |-> v]
           row == [dev.csc[m] EXCEPT ![d] = r]
           cc == [dev.csc EXCEPT ![m] = row]
           s == [dev EXCEPT !.csc = cc]
<1>2. dev \in McStates(c)
  BY DEF McGood
<1>3. dev' = set_csc_tms(s, m, d)
  BY <1>1
<1>4. r \in [en : BOOLEAN, sel : Int]
  BY McAssumption
<1>5. /\ dev.csc \in [McIndices -> [ChipSelects -> [en : BOOLEAN, sel : Int]]]
      /\ dev.csc[m] \in [ChipSelects -> [en : BOOLEAN, sel : Int]]
  BY <1>2 DEF McStates
<1> HIDE DEF r
<1>6. /\ row \in [ChipSelects -> [en : BOOLEAN, sel : Int]]
      /\ \A ds \in ChipSelects : ds # d => row[ds] = dev.csc[m][ds]
  BY <1>4, <1>5
<1> HIDE DEF row
<1>7. /\ cc \in [McIndices -> [ChipSelects -> [en : BOOLEAN, sel : Int]]] /\ cc[m] = row
      /\ \A k \in McIndices : k # m => cc[k] = dev.csc[k]
  BY <1>5, <1>6
<1> HIDE DEF cc
<1>8. s \in McStates(c)
  BY <1>2, <1>7 DEF McStates
<1>9. /\ s.areas = dev.areas /\ s.nxt = dev.nxt /\ s.own = dev.own /\ s.csc = cc
      /\ s.mask = dev.mask /\ s.mem = dev.mem /\ s.hung = dev.hung /\ s.mixed = dev.mixed
  BY <1>2 DEF McStates
<1> HIDE DEF s
<1>10. dev' \in McStates(c) /\ McOnlyMem(s, dev')
  BY <1>3, <1>8, SetDoes
<1>11. ASSUME ~dev'.mixed PROVE ListsGood(c, dev') /\ \A k \in McIndices : McFollows(dev', k)
  <2>1. ~dev.mixed
    BY <1>9, <1>10, <1>11 DEF McOnlyMem
  <2>2. ListsGood(c, dev) /\ RightBut(dev, {})
    BY <2>1, RightAll DEF McGood
  <2>3. ListsGood(c, s)
    BY <1>9, <2>2, ListsStill
  <2>4. \A k, ds : McSelected(s, k, ds) = McSelected(dev, k, ds)
    BY <1>9, ListsOf
  <2>5. RightBut(s, {<<m, d>>})
    <3> SUFFICES ASSUME NEW k \in McIndices, NEW ds \in ChipSelects, <<k, ds>> # <<m, d>>,
                        McSelected(s, k, ds) # 0
                 PROVE  CscRight(s, k, ds, McSelected(s, k, ds))
      BY DEF RightBut
    <3>1. s.csc[k][ds] = dev.csc[k][ds]
      BY <1>6, <1>7, <1>9
    <3>2. CscRight(dev, k, ds, McSelected(dev, k, ds))
      BY <2>2, <2>4 DEF RightBut
    <3> QED BY <1>9, <2>4, <3>1, <3>2 DEF CscRight
  <2>6. RightBut(dev', {<<m, d>>} \ {<<m, d>>})
    BY <1>3, <1>8, <2>3, <2>5, SetOne
  <2>7. {<<m, d>>} \ {<<m, d>>} = {}
    OBVIOUS
  <2>8. ListsGood(c, dev')
    BY <1>10, <2>3, ListsStill DEF McOnlyMem
  <2> QED BY <2>6, <2>7, <2>8, RightAll
<1> QED BY <1>10, <1>11 DEF McGood

(* The chip selects of m from n on.                                        *)
FromOn(m, n) == {<<m, ds>> : ds \in n .. N_CE - 1}

(* set_csc_tms() for one after the other.                                  *)
LEMMA SetAllDoes ==
  ASSUME NEW c \in McConfigSet, NEW s \in McStates(c), NEW m \in McIndices
  PROVE  /\ SetAll(s, m) \in McStates(c) /\ McOnlyMem(s, SetAll(s, m))
         /\ ListsGood(c, s) /\ RightBut(s, FromOn(m, 0)) => RightBut(SetAll(s, m), {})
<1> DEFINE S == McStates(c)
           F == [n \in 1 .. N_CE |-> [x \in S |-> set_csc_tms(x, m, n - 1)]]
           Eq(g) == g = [n \in 0 .. N_CE |-> IF n = 0 THEN s ELSE set_csc_tms(g[n - 1], m, n - 1)]
           g == CHOOSE x : Eq(x)
<1>0. N_CE \in Nat /\ N_CE # 0 /\ \A n \in 1 .. N_CE : n - 1 \in ChipSelects /\ n - 1 \in 0 .. N_CE
  BY McAssumption DEF ChipSelects
<1>1. F \in [1 .. N_CE -> [S -> S]]
  <2>1. ASSUME NEW n \in 1 .. N_CE, NEW x \in S PROVE set_csc_tms(x, m, n - 1) \in S
    BY <1>0, SetDoes
  <2> HIDE DEF S
  <2> QED BY <2>1
<1>2. \A n \in 1 .. N_CE : \A x \in S : F[n][x] = set_csc_tms(x, m, n - 1)
  OBVIOUS
<1>3. SetAll(s, m) = g[N_CE]
  BY DEF SetAll
<1> HIDE DEF F, S
<1>4. PICK f \in [0 .. N_CE -> S] : f[0] = s /\ \A n \in 1 .. N_CE : f[n] = F[n][f[n - 1]]
  <2>1. N_CE \in Nat /\ s \in S
    BY <1>0 DEF S
  <2>2. McSteps(S, s, N_CE, F)
    BY <1>1, <2>1, McStepsExist
  <2> QED BY <2>2 DEF McSteps
<1>5. Eq(f)
  <2>1. \A n \in 1 .. N_CE : f[n] = set_csc_tms(f[n - 1], m, n - 1)
    BY <1>0, <1>2, <1>4
  <2>2. \A n \in 0 .. N_CE : f[n] = IF n = 0 THEN s ELSE set_csc_tms(f[n - 1], m, n - 1)
    BY <1>0, <1>4, <2>1
  <2> QED BY <1>4, <2>2
<1> HIDE DEF Eq
<1>6. Eq(g)
  BY <1>5
<1> HIDE DEF g
<1>7. g[0] = s /\ \A n \in 1 .. N_CE : g[n] = set_csc_tms(g[n - 1], m, n - 1)
  <2>1. \A n \in 0 .. N_CE : g[n] = IF n = 0 THEN s ELSE set_csc_tms(g[n - 1], m, n - 1)
    BY <1>6 DEF Eq
  <2> QED BY <1>0, <2>1
<1> DEFINE P == {n \in 0 .. N_CE :
                   /\ g[n] \in McStates(c) /\ McOnlyMem(s, g[n])
                   /\ ListsGood(c, s) /\ RightBut(s, FromOn(m, 0)) => RightBut(g[n], FromOn(m, n))}
<1>8. 0 \in P
  BY <1>0, <1>7 DEF McOnlyMem
<1>9. ASSUME NEW n \in 1 .. N_CE, n - 1 \in P PROVE n \in P
  <2> DEFINE x == g[n - 1]
             d == n - 1
  <2>1. /\ x \in McStates(c) /\ McOnlyMem(s, x) /\ d \in ChipSelects /\ g[n] = set_csc_tms(x, m, d)
        /\ ListsGood(c, s) /\ RightBut(s, FromOn(m, 0)) => RightBut(x, FromOn(m, d))
    BY <1>0, <1>7, <1>9
  <2>2. FromOn(m, n) = FromOn(m, d) \ {<<m, d>>}
    BY <1>0 DEF FromOn
  <2> HIDE DEF x, d
  <2>3. g[n] \in McStates(c) /\ McOnlyMem(x, g[n])
    BY <2>1, SetDoes
  <2>4. McOnlyMem(s, g[n])
    BY <2>1, <2>3 DEF McOnlyMem
  <2>5. ASSUME ListsGood(c, s), RightBut(s, FromOn(m, 0)) PROVE RightBut(g[n], FromOn(m, n))
    <3>1. ListsGood(c, x)
      BY <2>1, <2>5, ListsStill DEF McOnlyMem
    <3> QED BY <2>1, <2>2, <2>5, <3>1, SetOne
  <2> QED BY <1>0, <2>3, <2>4, <2>5
<1> HIDE DEF P
<1>10. 0 .. N_CE \subseteq P
  BY <1>0, <1>8, <1>9, UpTo
<1>11. N_CE \in P
  BY <1>0, <1>10
<1>12. FromOn(m, N_CE) = {}
  BY <1>0 DEF FromOn
<1> QED BY <1>3, <1>11, <1>12 DEF P

(* A write to the mask.                                                    *)
LEMMA WriteMaskKeeps ==
  ASSUME NEW c \in McConfigSet, McGood(c, dev, McIndices), ~dev.hung, McWriteMask
  PROVE  McGood(c, dev', McIndices)
<1>1. PICK m \in McIndices, v \in McMasks : dev' = SetAll([dev EXCEPT !.mask[m] = v], m)
  BY DEF McWriteMask
<1> DEFINE mk == [dev.mask EXCEPT ![m] = v]
           s == [dev EXCEPT !.mask = mk]
<1>2. dev \in McStates(c)
  BY DEF McGood
<1>3. dev' = SetAll(s, m)
  BY <1>1
<1>4. mk \in [McIndices -> Int] /\ \A k \in McIndices : k # m => mk[k] = dev.mask[k]
  BY <1>2, McAssumption DEF McStates
<1> HIDE DEF mk
<1>8. s \in McStates(c)
  BY <1>2, <1>4 DEF McStates
<1>9. /\ s.areas = dev.areas /\ s.nxt = dev.nxt /\ s.own = dev.own /\ s.csc = dev.csc
      /\ s.mask = mk /\ s.mem = dev.mem /\ s.hung = dev.hung /\ s.mixed = dev.mixed
  BY <1>2 DEF McStates
<1> HIDE DEF s
<1>10. dev' \in McStates(c) /\ McOnlyMem(s, dev')
  BY <1>3, <1>8, SetAllDoes
<1>11. ASSUME ~dev'.mixed PROVE ListsGood(c, dev') /\ \A k \in McIndices : McFollows(dev', k)
  <2>1. ~dev.mixed
    BY <1>9, <1>10, <1>11 DEF McOnlyMem
  <2>2. ListsGood(c, dev) /\ RightBut(dev, {})
    BY <2>1, RightAll DEF McGood
  <2>3. ListsGood(c, s)
    BY <1>9, <2>2, ListsStill
  <2>4. \A k, ds : McSelected(s, k, ds) = McSelected(dev, k, ds)
    BY <1>9, ListsOf
  <2>5. RightBut(s, FromOn(m, 0))
    <3> SUFFICES ASSUME NEW k \in McIndices, NEW ds \in ChipSelects, <<k, ds>> \notin FromOn(m, 0),
                        McSelected(s, k, ds) # 0
                 PROVE  CscRight(s, k, ds, McSelected(s, k, ds))
      BY DEF RightBut
    <3>1. k # m
      BY DEF FromOn, ChipSelects
    <3>2. CscRight(dev, k, ds, McSelected(dev, k, ds))
      BY <2>2, <2>4 DEF RightBut
    <3> QED BY <1>4, <1>9, <2>4, <3>1, <3>2 DEF CscRight
  <2>6. RightBut(dev', {})
    BY <1>3, <1>8, <2>3, <2>5, SetAllDoes
  <2>8. ListsGood(c, dev')
    BY <1>10, <2>3, ListsStill DEF McOnlyMem
  <2> QED BY <2>6, <2>8, RightAll
<1> QED BY <1>10, <1>11 DEF McGood

(* The registers after a reset.                                            *)
CscFresh == [d \in ChipSelects |-> [en |-> d = 0, sel |-> 0]]

(* One controller is reset: it takes its areas and sets their decoders,    *)
(* and those that were reset before keep theirs.                           *)
LEMMA ResetKeeps ==
  ASSUME NEW c \in McConfigSet, NEW s, NEW D \in SUBSET McIndices, McGood(c, s, D), ~s.hung,
         NEW m \in McIndices
  PROVE  McGood(c, mc_reset(s, m), D \cup {m})
<1> DEFINE mk == [s.mask EXCEPT ![m] = 0]
           cc == [s.csc EXCEPT ![m] = CscFresh]
           r == [s EXCEPT !.mask = mk, !.csc = cc]
           g == McGrab(r, m)
           owned == OnList(g, g.own[m])
           mo == [a \in McAreas(s) |-> [g.mem[a] EXCEPT !.valid = @ /\ a \notin owned]]
           off == [g EXCEPT !.mem = mo]
           t == mc_reset(s, m)
<1>0. s \in McStates(c) /\ 0 \in ChipSelects
  BY McAssumption DEF McGood, ChipSelects
<1>1. t = IF g.hung THEN g ELSE set_csc_tms(off, m, 0)
  BY DEF mc_reset, CscFresh
<1>2. CscFresh \in [ChipSelects -> [en : BOOLEAN, sel : Int]]
  BY DEF CscFresh
<1>3. /\ mk \in [McIndices -> Int] /\ mk[m] = 0
      /\ \A k \in McIndices : k # m => mk[k] = s.mask[k]
  BY <1>0 DEF McStates
<1>4. /\ cc \in [McIndices -> [ChipSelects -> [en : BOOLEAN, sel : Int]]] /\ cc[m] = CscFresh
      /\ \A k \in McIndices : k # m => cc[k] = s.csc[k]
  BY <1>0, <1>2 DEF McStates
<1> HIDE DEF mk, cc
<1>5. r \in McStates(c)
  BY <1>0, <1>3, <1>4 DEF McStates
<1>6. /\ r.areas = s.areas /\ r.nxt = s.nxt /\ r.own = s.own /\ r.csc = cc /\ r.mask = mk
      /\ r.mem = s.mem /\ r.mixed = s.mixed /\ s.areas = c
  BY <1>0 DEF McStates
<1> HIDE DEF r
<1>7. /\ g \in McStates(c) /\ g.csc = cc /\ g.mask = mk /\ g.mem = s.mem
      /\ ~g.hung => ~Cyclic(g, g.own[m])
      /\ ~g.mixed => ~s.mixed /\ ~McMixed(g)
      /\ \A k \in McIndices : k # m => g.own[k] = s.own[k]
      /\ \A X : GrabOthers(c, r, m, X) => \A x \in X : g.nxt[x] = r.nxt[x]
  BY <1>5, <1>6, GrabDoes
<1> HIDE DEF g
<1>8. CASE g.hung
  BY <1>1, <1>7, <1>8 DEF McGood
<1>9. CASE ~g.hung
  <2>1. /\ mo \in [DOMAIN c -> [valid : BOOLEAN, cmp : Int, mask : Int]]
        /\ \A a \in DOMAIN c : a \in owned => mo[a].valid = FALSE
        /\ \A a \in DOMAIN c : a \notin owned => mo[a] = s.mem[a]
    <3>1. McAreas(s) = DOMAIN c /\ g.mem \in [DOMAIN c -> [valid : BOOLEAN, cmp : Int, mask : Int]]
      BY <1>6, <1>7 DEF McAreas, McStates
    <3> HIDE DEF owned
    <3>2. ASSUME NEW a \in DOMAIN c
          PROVE  LET e == [g.mem[a] EXCEPT !.valid = @ /\ a \notin owned]
                 IN  /\ e \in [valid : BOOLEAN, cmp : Int, mask : Int]
                     /\ a \in owned => e.valid = FALSE
                     /\ a \notin owned => e = g.mem[a]
      <4>1. g.mem[a] \in [valid : BOOLEAN, cmp : Int, mask : Int]
        BY <3>1
      <4> QED BY <4>1
    <3> QED BY <1>7, <3>1, <3>2
  <2> HIDE DEF mo
  <2>2. off \in McStates(c)
    BY <1>7, <2>1 DEF McStates
  <2>3. McOnlyMem(g, off) /\ off.mem = mo
    BY <1>7 DEF McOnlyMem, McStates
  <2> HIDE DEF off
  <2>4. t = set_csc_tms(off, m, 0)
    BY <1>1, <1>9
  <2> DEFINE b == McSelected(off, m, 0)
  <2>5. /\ t \in McStates(c) /\ McOnlyMem(off, t)
        /\ \A x \in DOMAIN c : x # b => t.mem[x] = off.mem[x]
        /\ b # 0 => CscRight(t, m, 0, b)
    BY <1>0, <2>2, <2>4, SetDoes
  <2> HIDE DEF t
  <2>6. /\ McOnlyMem(g, t) /\ t.areas = g.areas /\ t.nxt = g.nxt /\ t.own = g.own
    BY <2>3, <2>5 DEF McOnlyMem
  <2>7. ASSUME ~t.mixed PROVE ListsGood(c, t) /\ \A k \in D \cup {m} : McFollows(t, k)
    <3>1. ~s.mixed /\ ~McMixed(g) /\ ~Cyclic(g, g.own[m]) /\ g.areas = c
      BY <1>7, <1>9, <2>6, <2>7 DEF McOnlyMem, McStates
    <3>2. ListsGood(c, s) /\ \A k \in D : McFollows(s, k)
      BY <3>1 DEF McGood
    <3>3. \A k \in McIndices : \A a \in OnList(g, g.own[k]) : c[a].mc = k
      BY <3>1 DEF McMixed
    <3>4. ASSUME NEW k \in McIndices, k # m
          PROVE  /\ g.own[k] = s.own[k] /\ McList(g, g.own[k]) = McList(s, s.own[k])
                 /\ ~Cyclic(g, g.own[k])
      <4> DEFINE X == OnList(s, s.own[k])
      <4>1. s.own[k] \in 0 .. Len(c)
        BY <1>0 DEF McStates
      <4>2. /\ X \subseteq DOMAIN c /\ ~Cyclic(s, s.own[k])
            /\ \A x \in X : s.nxt[x] # 0 => s.nxt[x] \in X
            /\ \A x \in X : c[x].mc = k
        BY <1>0, <3>2, <4>1, ListClosed DEF ListsGood
      <4> HIDE DEF X
      <4>3. GrabOthers(c, r, m, X)
        BY <1>6, <3>4, <4>2 DEF GrabOthers
      <4>4. \A x \in X : g.nxt[x] = s.nxt[x]
        BY <1>6, <1>7, <4>3
      <4>5. McList(g, s.own[k]) = McList(s, s.own[k]) /\ ~Cyclic(g, s.own[k])
        BY <1>0, <1>7, <4>1, <4>2, <4>4, ListSame DEF X
      <4> QED BY <1>7, <3>4, <4>5
    <3>5. ListsGood(c, g)
      BY <3>1, <3>3, <3>4 DEF ListsGood
    <3>6. ListsGood(c, t)
      BY <2>6, <3>5, ListsStill
    <3>7. \A k, ds : /\ McSelected(t, k, ds) = McSelected(g, k, ds)
                     /\ McSelected(off, k, ds) = McSelected(g, k, ds)
      BY <2>3, <2>6, ListsOf DEF McOnlyMem
    <3>8. t.csc = cc /\ t.mask = mk
      BY <1>7, <2>6 DEF McOnlyMem
    <3>9. McFollows(t, m)
      <4> SUFFICES ASSUME NEW ds \in ChipSelects, McSelected(t, m, ds) # 0
                   PROVE  CscRight(t, m, ds, McSelected(t, m, ds))
        BY DEF McFollows
      <4>1. CASE ds = 0
        BY <2>5, <3>7, <4>1
      <4>2. CASE ds # 0
        <5> DEFINE a == McSelected(g, m, ds)
        <5>1. a # 0 /\ a \in owned /\ a \in DOMAIN c
          BY <1>7, <3>7, SelectedIs
        <5>2. b = McSelected(g, m, 0)
          BY <3>7
        <5>3. a # b
          BY <1>7, <3>5, <4>2, <5>1, <5>2, SelectedApart
        <5>4. t.mem[a].valid = FALSE
          BY <2>1, <2>3, <2>5, <5>1, <5>3
        <5>5. t.csc[m][ds].en = FALSE
          BY <1>4, <3>8, <4>2 DEF CscFresh
        <5> HIDE DEF a
        <5>6. CscRight(t, m, ds, a)
          BY <5>4, <5>5 DEF CscRight
        <5> QED BY <3>7, <5>6 DEF a
      <4> QED BY <4>1, <4>2
    <3>10. ASSUME NEW k \in D, k # m PROVE McFollows(t, k)
      <4>0. k \in McIndices /\ McFollows(s, k)
        BY <3>2
      <4>1. \A ds \in ChipSelects : McSelected(g, k, ds) = McSelected(s, k, ds)
        BY <1>6, <3>1, <3>4, <3>10, <4>0, SelectedSame
      <4>2. t.csc[k] = s.csc[k] /\ t.mask[k] = s.mask[k]
        BY <1>3, <1>4, <3>8, <3>10, <4>0
      <4>3. ASSUME NEW ds \in ChipSelects, McSelected(s, k, ds) # 0
            PROVE  t.mem[McSelected(s, k, ds)] = s.mem[McSelected(s, k, ds)]
        <5> DEFINE a == McSelected(g, k, ds)
        <5>1. a # 0 /\ a \in OnList(g, g.own[k]) /\ a \in DOMAIN c
          BY <1>7, <4>0, <4>1, <4>3, SelectedIs
        <5>2. c[a].mc = k
          BY <3>3, <4>0, <5>1
        <5>3. a \notin owned
          BY <3>3, <3>10, <5>2
        <5>4. a # b
          BY <1>7, <3>5, <3>7, <3>10, <4>0, <5>1, <1>0, SelectedApart
        <5>5. t.mem[a] = s.mem[a]
          BY <2>1, <2>3, <2>5, <5>1, <5>3, <5>4
        <5> QED BY <4>1, <5>5
      <4> QED BY <3>7, <4>0, <4>1, <4>2, <4>3, FollowsStill
    <3> QED BY <3>6, <3>9, <3>10
  <2> QED BY <2>5, <2>7 DEF McGood, t
<1> QED BY <1>8, <1>9

(* The first n controllers.                                                *)
McFirst(n) == {McControllers[i] : i \in 1 .. n}

(* A reset of the simulator: every controller in turn, from a state in     *)
(* which nothing is known of the decoders.                                 *)
LEMMA ResetAllKeeps ==
  ASSUME NEW c \in McConfigSet, NEW s, McGood(c, s, {}), ~s.hung
  PROVE  McGood(c, McResetAll(s), McIndices)
<1> DEFINE R == Len(McControllers)
           S == McStates(c)
           st(x, n) == IF x.hung THEN x ELSE mc_reset(x, McControllers[n])
           U == {x \in S : McGood(c, x, {})}
           F == [n \in 1 .. R |-> [x \in U |-> st(x, n)]]
           Eq(g) == g = [n \in 0 .. R |-> IF n = 0 THEN s
                                          ELSE IF g[n - 1].hung THEN g[n - 1]
                                               ELSE mc_reset(g[n - 1], McControllers[n])]
           g == CHOOSE x : Eq(x)
<1>0. /\ R \in Nat /\ DOMAIN McControllers = 1 .. R /\ McIndices = McFirst(R)
      /\ \A n \in 1 .. R : McControllers[n] \in McIndices /\ n - 1 \in 0 .. R
  BY McAssumption DEF McIndices, McFirst
<1>1. F \in [1 .. R -> [U -> U]]
  <2>1. ASSUME NEW n \in 1 .. R, NEW x \in U PROVE st(x, n) \in U
    <3>1. CASE x.hung
      BY <3>1
    <3>2. CASE ~x.hung
      <4>1. McGood(c, mc_reset(x, McControllers[n]), {} \cup {McControllers[n]})
        BY <1>0, <3>2, ResetKeeps
      <4> QED BY <3>2, <4>1 DEF McGood
    <3> QED BY <3>1, <3>2
  <2> HIDE DEF U, st, R
  <2> QED BY <2>1
<1>2. \A n \in 1 .. R : \A x \in U : F[n][x] = st(x, n)
  OBVIOUS
<1>3. McResetAll(s) = g[R]
  BY DEF McResetAll
<1>3a. s \in U
  BY DEF McGood
<1> HIDE DEF F, U, R, st
<1>4. PICK f \in [0 .. R -> U] : f[0] = s /\ \A n \in 1 .. R : f[n] = F[n][f[n - 1]]
  <2>1. R \in Nat
    BY <1>0
  <2>2. McSteps(U, s, R, F)
    BY <1>1, <1>3a, <2>1, McStepsExist
  <2> QED BY <2>2 DEF McSteps
<1>5. Eq(f)
  <2>1. \A n \in 1 .. R : f[n] = st(f[n - 1], n)
    BY <1>0, <1>2, <1>4
  <2>2. \A n \in 0 .. R : f[n] = IF n = 0 THEN s
                                 ELSE IF f[n - 1].hung THEN f[n - 1]
                                      ELSE mc_reset(f[n - 1], McControllers[n])
    <3> SUFFICES ASSUME NEW n \in 0 .. R, n # 0
                 PROVE  f[n] = IF f[n - 1].hung THEN f[n - 1]
                               ELSE mc_reset(f[n - 1], McControllers[n])
      BY <1>4, Zenon
    <3>1. n \in 1 .. R
      BY <1>0
    <3>2. f[n] = st(f[n - 1], n)
      BY <2>1, <3>1
    <3> QED BY <3>2, Zenon DEF st
  <2> QED BY <1>4, <2>2
<1> HIDE DEF Eq
<1>6. Eq(g)
  BY <1>5
<1> HIDE DEF g
<1>7. g[0] = s /\ \A n \in 1 .. R : g[n] = IF g[n - 1].hung THEN g[n - 1]
                                            ELSE mc_reset(g[n - 1], McControllers[n])
  <2>1. \A n \in 0 .. R : g[n] = IF n = 0 THEN s
                                 ELSE IF g[n - 1].hung THEN g[n - 1]
                                      ELSE mc_reset(g[n - 1], McControllers[n])
    BY <1>6 DEF Eq
  <2> QED BY <1>0, <2>1
<1> DEFINE P == {n \in 0 .. R : McGood(c, g[n], McFirst(n))}
<1>8. 0 \in P
  <2>1. McFirst(0) = {}
    BY DEF McFirst
  <2>2. McGood(c, g[0], McFirst(0))
    BY <1>7, <2>1, Zenon
  <2>3. 0 \in 0 .. R
    BY <1>0
  <2> QED BY <2>2, <2>3, Zenon
<1>9. ASSUME NEW n \in 1 .. R, n - 1 \in P PROVE n \in P
  <2> DEFINE x == g[n - 1]
             m == McControllers[n]
             A == McFirst(n - 1)
  <2>1. McGood(c, x, A) /\ g[n] = (IF x.hung THEN x ELSE mc_reset(x, m)) /\ m \in McIndices
    BY <1>0, <1>7, <1>9
  <2>2. McFirst(n) = A \cup {m} /\ A \in SUBSET McIndices
    <3>1. 1 .. n = (1 .. n - 1) \cup {n} /\ 1 .. n - 1 \subseteq 1 .. R
      BY <1>0
    <3>2. McFirst(n) = A \cup {m}
      BY <3>1, Zenon DEF McFirst
    <3>3. A \subseteq McIndices
      BY <1>0, <3>1, Zenon DEF McFirst
    <3> QED BY <3>2, <3>3
  <2> HIDE DEF x, m, A
  <2>3. CASE x.hung
    BY <1>0, <2>1, <2>3 DEF McGood
  <2>4. CASE ~x.hung
    <3>1. McGood(c, mc_reset(x, m), A \cup {m})
      BY <2>1, <2>2, <2>4, ResetKeeps
    <3>2. g[n] = mc_reset(x, m)
      BY <2>1, <2>4, Zenon
    <3>3. McGood(c, g[n], McFirst(n))
      BY <2>2, <3>1, <3>2, Zenon
    <3>4. n \in 0 .. R
      BY <1>0
    <3> QED BY <3>3, <3>4, Zenon
  <2> QED BY <2>3, <2>4
<1> HIDE DEF P
<1>10. 0 .. R \subseteq P
  BY <1>0, <1>8, <1>9, UpTo
<1>11. R \in P
  BY <1>0, <1>10
<1> QED BY <1>0, <1>3, <1>11 DEF P

(* Before the first reset every controller's list is empty.                *)
LEMMA RegisteredGood ==
  ASSUME NEW c \in McConfigSet
  PROVE  McGood(c, mc_reg_mem_area(c), {}) /\ ~mc_reg_mem_area(c).hung
<1> DEFINE s == mc_reg_mem_area(c)
           N == Len(c)
<1>0. N \in Nat /\ DOMAIN c = 1 .. N /\ 0 \in 0 .. N /\ N \in 0 .. N
      /\ \A a \in DOMAIN c : a - 1 \in 0 .. N
  BY DEF McConfigSet
<1>1. s \in McStates(c)
  BY <1>0 DEF mc_reg_mem_area, McStates
<1>2. s.areas = c /\ ~s.hung /\ \A m \in McIndices : s.own[m] = 0
  BY DEF mc_reg_mem_area
<1> HIDE DEF s
<1> DEFINE l == McList(s, 0)
<1>3. l \in [0 .. N -> 0 .. N] /\ l[0] = 0 /\ \A n \in 1 .. N : l[n] = McAfter(s, l[n - 1])
  BY <1>0, <1>1, ListIs
<1>4. OnList(s, 0) = {l[n] : n \in 0 .. N} \ {0} /\ (Cyclic(s, 0) <=> l[N] # 0)
  BY <1>2 DEF OnList, Cyclic
<1> HIDE DEF l, N
<1> DEFINE P == {n \in 0 .. N : l[n] = 0}
<1>5. 0 \in P
  BY <1>0, <1>3
<1>6. ASSUME NEW n \in 1 .. N, n - 1 \in P PROVE n \in P
  BY <1>0, <1>3, <1>6 DEF McAfter
<1> HIDE DEF P
<1>7. 0 .. N \subseteq P
  BY <1>0, <1>5, <1>6, UpTo
<1>8. OnList(s, 0) = {} /\ ~Cyclic(s, 0)
  BY <1>0, <1>4, <1>7 DEF P
<1>9. ListsGood(c, s)
  BY <1>2, <1>8 DEF ListsGood
<1> QED BY <1>1, <1>2, <1>9 DEF McGood, s

(* The invariant.                                                          *)
McInv == \E c \in McConfigSet : McGood(c, dev, McIndices)

(* As long as no reset has mixed up the lists of two controllers, the      *)
(* decoder of every area that a controller has taken is what its registers *)
(* say (set_csc_tms, mc_reset), for any number of memories, controllers    *)
(* and chip selects.                                                       *)
THEOREM McAlwaysFollows == McSpec => []McDecoderFollows
<1>1. McInit => McInv
  <2> SUFFICES ASSUME NEW c \in McConfigs, dev = McResetAll(mc_reg_mem_area(c)) PROVE McInv
    BY DEF McInit
  <2>1. c \in McConfigSet
    BY McAssumption DEF McConfigSet
  <2> QED BY <2>1, RegisteredGood, ResetAllKeeps DEF McInv
<1>2. McInv /\ [McNext]_dev => McInv'
  <2> SUFFICES ASSUME NEW c \in McConfigSet, McGood(c, dev, McIndices), [McNext]_dev
               PROVE  McGood(c, dev', McIndices)
    BY DEF McInv
  <2>1. CASE UNCHANGED dev
    BY <2>1
  <2>2. CASE McWriteCsc
    BY <2>2, WriteCscKeeps DEF McWriteCsc
  <2>3. CASE McWriteMask
    BY <2>3, WriteMaskKeeps DEF McWriteMask
  <2>4. CASE McReset
    <3>1. McGood(c, dev, {}) /\ ~dev.hung /\ dev' = McResetAll(dev)
      BY <2>4 DEF McReset, McGood
    <3> QED BY <3>1, ResetAllKeeps
  <2> QED BY <2>1, <2>2, <2>3, <2>4 DEF McNext
<1>3. McInv => McDecoderFollows
  BY DEF McInv, McGood, McDecoderFollows, McFollows, CscRight
<1> QED BY <1>1, <1>2, <1>3, PTL DEF McSpec
=============================================================================
