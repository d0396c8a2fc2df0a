-------------------------------- MODULE Dma --------------------------------
(***************************************************************************)
(* The DMA controller (peripheral/dma.c).  A channel's CSR is the set of   *)
(* its flags; the addresses, their masks and the data are left out.  A     *)
(* channel's "jobs" are the entries of dma_channel_clock in the scheduler. *)
(* "restarted" and "acked" are history: the channel has run into the       *)
(* auto-restart, software has overwritten INT_SRC_A.                       *)
(***************************************************************************)
EXTENDS Device

CONSTANTS
  DmaChannels,   \* the channels software uses
  DmaCsrs,       \* values software writes to a channel's CSR
  DmaMasks,      \* values software writes to INT_MSK_A
  DmaSizes,      \* values of SZ: records [tot, chk]
  DmaDescs,      \* the linked list in memory: a function from addresses
  DmaFirst,      \* the address software writes to DESC
  DmaPeers       \* the channels some device drives (dma_req_i, dma_nd_i)

WriteMask == {"CH_EN", "MODE", "ARS", "USE_ED", "SZ_WB",
              "STOP", "INE_ERR", "INE_DONE"}

DmaFresh ==
  [kind |-> "dma", msk |-> {}, src |-> {}, irq |-> FALSE, dead |-> FALSE,
   acked |-> FALSE,
   ch |-> [c \in DmaChannels |->
     [csr |-> {}, sz |-> [tot |-> 0, chk |-> 0], desc |-> DmaFirst,
      more |-> FALSE, tot |-> 0, chk |-> 0, words |-> 0,
      req |-> FALSE, nd |-> FALSE, ack |-> FALSE, jobs |-> 0,
      restarted |-> FALSE]]]

DmaInit == dev = DmaFresh
-----------------------------------------------------------------------------
Flag(s, c, f) == f \in s.ch[c].csr
SetFlags(s, c, on, off) == [s EXCEPT !.ch[c].csr = (@ \ off) \union on]
DmaSched(s, c) == [s EXCEPT !.ch[c].jobs = @ + 1]

ChannelNdI(s, c) == {"MODE", "USE_ED"} \subseteq s.ch[c].csr /\ s.ch[c].nd

DmaInterrupt(s, c, enable, flag) ==
  IF Flag(s, c, enable) /\ c \in s.msk
  THEN [SetFlags(s, c, {flag}, {}) EXCEPT !.src = {c}, !.irq = TRUE]
  ELSE s

dma_load_descriptor(s, c) ==
  LET d == DmaDescs[s.ch[c].desc]
  IN  [s EXCEPT
        !.ch[c].more = ~d.eol, !.ch[c].sz.tot = d.tot, !.ch[c].desc = d.next]

dma_init_transfer(s, c) ==
  LET sz == s.ch[c].sz
  IN  [s EXCEPT !.ch[c].words = 0,
                !.ch[c].tot = sz.tot,
                !.ch[c].chk = IF sz.chk = 0 \/ sz.chk > sz.tot
                              THEN sz.tot ELSE sz.chk]

WriteBack(s, c) ==
  IF {"SZ_WB", "USE_ED"} \subseteq s.ch[c].csr
  THEN [s EXCEPT !.ch[c].sz.tot = s.ch[c].tot - s.ch[c].words]
  ELSE s

NextDescriptorStill(s, c) == dma_init_transfer(dma_load_descriptor(s, c), c)
NextDescriptor(s, c) ==
  DmaSched(dma_init_transfer(dma_load_descriptor(s, c), c), c)

dma_channel_terminate_transfer(s, c, interrupt) ==
  IF s.ch[c].more THEN NextDescriptor(s, c)
  ELSE IF Flag(s, c, "ARS")
  THEN [dma_init_transfer(s, c) EXCEPT !.ch[c].restarted = TRUE]
  ELSE LET t == SetFlags(WriteBack(s, c), c, {"DONE"}, {"CH_EN", "ERR", "BUSY"})
       IN  IF interrupt THEN DmaInterrupt(t, c, "INE_DONE", "INT_DONE") ELSE t

Abort(s, c) ==
  DmaInterrupt(SetFlags(s, c, {"ERR"}, {"CH_EN", "BUSY"}), c,
               "INE_ERR", "INT_ERR")

StartTransfer(s, c) ==
  LET t == SetFlags(s, c, {"BUSY"}, {"DONE", "ERR"})
  IN  dma_init_transfer(IF Flag(s, c, "USE_ED") THEN dma_load_descriptor(t, c)
                        ELSE [t EXCEPT !.ch[c].more = FALSE], c)

Finished(k) == k.words >= k.tot

(* One word is moved; the remainder by a chunk size of 0 kills the         *)
(* simulator.                                                              *)
TransferWord(s, c) ==
  LET t == [s EXCEPT !.ch[c].words = @ + 1]
      k == t.ch[c]
  IN  IF k.chk = 0 THEN [t EXCEPT !.dead = TRUE]
      ELSE LET w == [t EXCEPT !.ch[c].ack = k.words % k.chk = 0]
           IN  IF ChannelNdI(w, c)
               THEN dma_channel_terminate_transfer(w, c, FALSE)
               ELSE IF Finished(k)
               THEN dma_channel_terminate_transfer(w, c, TRUE)
               ELSE DmaSched(w, c)

dma_channel_clock(s, c) ==
  IF Flag(s, c, "STOP") THEN Abort(s, c)
  ELSE IF Flag(s, c, "MODE") /\ ~s.ch[c].req THEN DmaSched(s, c)
  ELSE IF Flag(s, c, "BUSY") THEN TransferWord(s, c)
  ELSE LET t == StartTransfer(s, c)
       IN  IF ChannelNdI(t, c) THEN dma_channel_terminate_transfer(t, c, FALSE)
           ELSE TransferWord(t, c)

StartOrCancel(s, c, v) ==
  IF ~Flag(s, c, "CH_EN") /\ "CH_EN" \in v
  THEN [DmaSched(s, c) EXCEPT !.ch[c].restarted = FALSE]
  ELSE IF "CH_EN" \notin v
  THEN [s EXCEPT !.ch[c].jobs = IF @ > 0 THEN @ - 1 ELSE 0]
  ELSE s

dma_write_ch_csr(s, c, v) ==
  SetFlags(StartOrCancel(s, c, v), c, v \intersect WriteMask, WriteMask)
-----------------------------------------------------------------------------
Dma == Is("dma") /\ ~dev.dead

DmaClock(c) ==
  /\ Dma /\ dev.ch[c].jobs > 0
  /\ dev' = dma_channel_clock([dev EXCEPT !.ch[c].jobs = @ - 1], c)

DmaWriteChannel(c) ==
  /\ Dma
  /\ dev' \in {dma_write_ch_csr(dev, c, v) : v \in DmaCsrs[c]}
        \union {[dev EXCEPT !.ch[c].sz = z] : z \in DmaSizes[c]}
        \union {[dev EXCEPT !.ch[c].desc = DmaFirst]}

dma_read_ch_csr(c) ==
  /\ Dma
  /\ dev' = SetFlags(dev, c, {}, {"INT_DONE", "INT_ERR", "ERR"})

DmaWriteGlobal ==
  /\ Dma
  /\ \/ \E m \in DmaMasks : dev' = [dev EXCEPT !.msk = m]
     \/ \E m \in DmaMasks \cup {{}} :
          dev' = [dev EXCEPT !.src = m, !.acked = TRUE]

ReadIntSrc(s) ==
  [s EXCEPT !.irq = @ /\ s.src = {}, !.src = {}]

DmaReadIntSrc == Dma /\ dev' = ReadIntSrc(dev)

(* set_dma_req_i() ... clear_dma_nd_i(), called by the Ethernet controller *)
DmaSignal(c) ==
  /\ Dma /\ c \in DmaPeers
  /\ \E b \in BOOLEAN : dev' \in {[dev EXCEPT !.ch[c].req = b],
                                  [dev EXCEPT !.ch[c].nd = b]}

DmaReset == Is("dma") /\ dev' = DmaFresh

DmaNext ==
  \/ DmaWriteGlobal \/ DmaReadIntSrc \/ DmaReset
  \/ \E c \in DmaChannels : \/ DmaClock(c) \/ DmaWriteChannel(c)
                            \/ dma_read_ch_csr(c) \/ DmaSignal(c)

DmaSpec == DmaInit /\ [][DmaNext]_dev
-----------------------------------------------------------------------------
(* Between two instructions the scheduler holds one dma_channel_clock for  *)
(* every enabled channel and none for the others, so that no word is moved *)
(* twice and none after software has disabled the channel; the exception   *)
(* is a channel that has reached the auto-restart, which nothing clocks    *)
(* any more.                                                               *)
DmaOneJob ==
  Is("dma") /\ ~dev.dead =>
    \A c \in DmaChannels :
      dev.ch[c].jobs = Bit(Flag(dev, c, "CH_EN") /\ ~dev.ch[c].restarted)

(* The interrupt line is high exactly while INT_SRC_A names a channel,     *)
(* whatever the order of completions and of reads, as long as software     *)
(* only reads INT_SRC_A: writing it lowers or raises nothing.              *)
DmaIrqHasSource ==
  Is("dma") /\ ~dev.acked => (dev.irq <=> dev.src # {})

(* The DMA controller in every order of register accesses, handshakes,     *)
(* clocks and resets: one job for each channel that works                  *)
(* (dma_write_ch_csr, dma_channel_clock), and a line with its source       *)
(* (dma_read32).                                                           *)
DmaSound == DmaOneJob /\ DmaIrqHasSource
=============================================================================
