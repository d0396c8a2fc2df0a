-------------------------------- MODULE Eth --------------------------------
(***************************************************************************)
(* The Ethernet controller (peripheral/eth.c): buffer descriptors (BDs),   *)
(* the transmit and receive clocks, the interrupt line and the registers   *)
(* software controls them with.  A BD keeps its flags READY, WRAP and IRQ; *)
(* packets are for this host or not.  "bd" has twice as many cells as      *)
(* there are descriptors, 0xFF + 1: as far as TX_BD_NUM reaches.  The      *)
(* second half is what lies behind the array, where the code goes when     *)
(* TX_BD_NUM is too large or software sets no WRAP flag.  "waiting" says   *)
(* that the TAP device has packets; for the type "file" packets are always *)
(* to be had.                                                              *)
(*                                                                         *)
(* History: "orphan" says that a reset through MODER has forgotten an      *)
(* interrupt that the PIC still holds; "top" is the largest number of      *)
(* transmit descriptors, 0 counting as no bound, since the transmitter was *)
(* enabled or reset.                                                       *)
(***************************************************************************)
EXTENDS Device

CONSTANTS
  ETH_BDS,    \* buffer descriptors (ETH_BD_COUNT is twice that, in words)
  EthBds,     \* descriptors software writes
  EthBehind,  \* what the memory behind the descriptors reads as
  EthMasks,   \* values software writes to INT_MASK
  EthNums     \* values software writes to TX_BD_NUM

ASSUME EthAssumption ==
  /\ ETH_BDS \in Nat /\ ETH_BDS >= 2
  /\ EthNums \subseteq 0 .. 2 * ETH_BDS - 1

(* The cells the model follows, and the number of them that TX_BD_NUM      *)
(* bounds the transmitter to: tx_bd_num - 1 is unsigned, so 0 is no bound. *)
EthCells == 0 .. 2 * ETH_BDS - 1
TxLimit(n) == IF n = 0 THEN 2 * ETH_BDS ELSE n

EmptyBd == [ready |-> FALSE, wrap |-> FALSE, irq |-> FALSE]

(* The registers that eth_reset() sets, by itself or through MODER.        *)
eth_reset(s) ==
  [s EXCEPT !.source = {}, !.mask = {}, !.num = ETH_BDS \div 2, !.txi = 0,
            !.top = ETH_BDS \div 2, !.rxi = ETH_BDS \div 2, !.line = FALSE, !.mod = {},
            !.bd = [i \in DOMAIN @ |-> IF i < ETH_BDS THEN EmptyBd ELSE @[i]]]

EthInit ==
  \E type \in {"file", "tap"}, b \in EthBehind :
    dev = eth_reset(
      [kind |-> "eth", type |-> type, waiting |-> FALSE, source |-> {},
       mask |-> {}, num |-> 0, txi |-> 0, rxi |-> 0, line |-> FALSE,
       irq |-> FALSE, mod |-> {}, rxjobs |-> 0, txjobs |-> 0,
       bd |-> [i \in EthCells |-> b], orphan |-> FALSE, top |-> 0])
-----------------------------------------------------------------------------
(* An event is always recorded; it raises the line if it is enabled and no *)
(* interrupt is in progress.                                               *)
EthEvent(s, src, wanted) ==
  LET t == [s EXCEPT !.source = @ \union {src}]
  IN  IF wanted /\ src \in s.mask /\ ~s.line
      THEN [t EXCEPT !.line = TRUE, !.irq = TRUE, !.orphan = FALSE] ELSE t

(* What eth_write_packet() returns for a file or a TAP device: the packet  *)
(* is written, or it is not.                                               *)
eth_write_packet == BOOLEAN

(* Both ways the BD is given back.                                         *)
eth_flush_bd(s, ok) ==
  LET i == s.txi
      t == EthEvent([s EXCEPT !.bd[i].ready = FALSE],
                    IF ok THEN "TXB" ELSE "TXE", s.bd[i].irq)
  IN  [t EXCEPT !.txi = IF s.bd[i].wrap \/ i >= TxLimit(s.num) - 1 THEN 0 ELSE i + 1]

NextRx(s) == IF s.bd[s.rxi].wrap \/ s.rxi >= ETH_BDS THEN s.num ELSE s.rxi + 1

(* What eth_read_packet() returns: nothing, an error (which for TAP is an  *)
(* event), or a packet, which counts if it is for us.                      *)
eth_fill_bd(s, how) ==
  LET t == IF how = "none" THEN s ELSE [s EXCEPT !.waiting = FALSE]
  IN  CASE how \in {"none", "other"} -> t
        [] how = "error" -> IF s.type = "tap" THEN EthEvent(t, "RXE", TRUE) ELSE t
        [] how = "mine"  ->
             LET f == [t EXCEPT !.bd[s.rxi].ready = FALSE, !.rxi = NextRx(s)]
             IN  EthEvent(f, "RXB", s.bd[s.rxi].irq)

Reads(s) == IF s.type = "tap" /\ ~s.waiting THEN {"none"}
            ELSE {"none", "error", "mine", "other"}

(* eth_ignore_tap_packets() reads the TAP device until nothing is left, or *)
(* gives up: poll() failed, or a read did, which is an event.  With the    *)
(* type "file" there is no TAP device: poll() with a file descriptor of -1 *)
(* finds nothing.                                                          *)
eth_ignore_tap_packets(s) ==
  LET left == [s EXCEPT !.waiting = FALSE]
  IN  IF s.type = "tap" /\ s.waiting
      THEN {s, left, EthEvent(s, "RXE", TRUE), EthEvent(left, "RXE", TRUE)}
      ELSE {s}

(* The test in front of eth_ignore_tap_packets() lets only the type "file" *)
(* through.                                                                *)
RxClocks(s) ==
  IF s.line THEN {s}
  ELSE IF s.bd[s.rxi].ready THEN {eth_fill_bd(s, how) : how \in Reads(s)}
  ELSE IF "RXEN" \in s.mod /\ s.type = "file" THEN eth_ignore_tap_packets(s)
  ELSE {s}
-----------------------------------------------------------------------------
EthRst(s) == [eth_reset(s) EXCEPT !.orphan = s.irq]

RxSwitchAlways(s, v) ==
  {IF "RXEN" \in v THEN [s EXCEPT !.rxi = s.num, !.rxjobs = @ + 1]
   ELSE [s EXCEPT !.rxjobs = IF @ > 0 THEN @ - 1 ELSE 0]}
RxSwitch(s, v) ==
  IF "RXEN" \in v \ s.mod
  THEN {[t EXCEPT !.rxi = s.num, !.rxjobs = @ + 1] : t \in eth_ignore_tap_packets(s)}
  ELSE IF "RXEN" \in s.mod \ v THEN {[s EXCEPT !.rxjobs = IF @ > 0 THEN @ - 1 ELSE 0]}
  ELSE {s}

TxSwitch(s, v) ==
  IF "TXEN" \in v \ s.mod
  THEN [s EXCEPT !.txi = 0, !.txjobs = @ + 1, !.top = TxLimit(s.num)]
  ELSE IF "TXEN" \in s.mod \ v THEN [s EXCEPT !.txjobs = IF @ > 0 THEN @ - 1 ELSE 0]
  ELSE s

WriteModer(s, v) ==
  {[(IF "RST" \in v THEN EthRst(TxSwitch(t, v)) ELSE TxSwitch(t, v))
      EXCEPT !.mod = v \ {"RST"}] : t \in RxSwitch(s, v)}

LowerLine(s) == [s EXCEPT !.line = FALSE, !.irq = @ /\ ~s.line]

WriteIntSource(s, v) ==
  LET t == [s EXCEPT !.source = @ \ v]
  IN  IF t.source \intersect s.mask = {} THEN LowerLine(t) ELSE t

WriteIntMask(s, v) == LowerLine([s EXCEPT !.mask = v])
-----------------------------------------------------------------------------
EthModer == /\ Is("eth")
            /\ \E v \in SUBSET {"RXEN", "TXEN", "RST"} : dev' \in WriteModer(dev, v)

(* A write of several bits to INT_SOURCE does what as many writes do.      *)
EthWriteInts ==
  /\ Is("eth")
  /\ \/ \E i \in dev.source : dev' = WriteIntSource(dev, {i})
     \/ \E v \in EthMasks : dev' = WriteIntMask(dev, v)

(* TX_BD_NUM can be written at any time, and neither index is checked.     *)
WriteNum(s, v) ==
  [s EXCEPT !.num = v, !.rxi = v, !.top = IF @ > TxLimit(v) THEN @ ELSE TxLimit(v)]
EthWriteNum == Is("eth") /\ \E v \in EthNums : dev' = WriteNum(dev, v)

EthWriteBd ==
  /\ Is("eth")
  /\ \E i \in 0 .. ETH_BDS - 1, b \in EthBds : dev' = [dev EXCEPT !.bd[i] = b]

(* With TX_BD_NUM = 0 the transmitter goes on behind the array for ever:   *)
(* it is followed as far as EthCells.                                      *)
eth_controller_tx_clock ==
  /\ Is("eth") /\ dev.txjobs > 0 /\ dev.txi \in EthCells
  /\ dev' \in IF dev.line \/ ~dev.bd[dev.txi].ready THEN {dev}
              ELSE {eth_flush_bd(dev, ok) : ok \in eth_write_packet}

eth_controller_rx_clock ==
  /\ Is("eth") /\ dev.rxjobs > 0
  /\ dev' \in RxClocks(dev)

EthArrive == /\ Is("eth") /\ dev.type = "tap"
             /\ dev' = [dev EXCEPT !.waiting = TRUE]

(* The reset of the simulator: scheduler and PIC are reset before.         *)
EthReset ==
  /\ Is("eth")
  /\ dev' = [eth_reset(dev) EXCEPT !.irq = FALSE, !.orphan = FALSE,
                                   !.rxjobs = 0, !.txjobs = 0]

EthNext ==
  \/ EthModer \/ EthWriteInts \/ EthWriteNum \/ EthWriteBd \/ EthArrive
  \/ eth_controller_tx_clock \/ eth_controller_rx_clock \/ EthReset

EthSpec == EthInit /\ [][EthNext]_dev
-----------------------------------------------------------------------------
(* Each clock is in the scheduler once while its half of the controller is *)
(* enabled, and not at all otherwise, whatever the order of enabling,      *)
(* disabling, resets through MODER and resets of the simulator.            *)
EthOneClock ==
  Is("eth") => /\ dev.rxjobs = Bit("RXEN" \in dev.mod)
               /\ dev.txjobs = Bit("TXEN" \in dev.mod)

(* While the controller holds its interrupt line (and therefore moves no   *)
(* packet) there is an enabled source that software can find and clear;    *)
(* and the PIC's line is the controller's, except after a reset through    *)
(* MODER, which forgets the line and leaves the PIC's.                     *)
EthLineHasSource ==
  Is("eth") => /\ dev.line => dev.source \intersect dev.mask # {}
               /\ dev.line => dev.irq
               /\ dev.irq /\ ~dev.line => dev.orphan

(* The transmitter stays below the largest TX_BD_NUM that was in force     *)
(* since it was enabled, although TX_BD_NUM may be lowered under it (0 is  *)
(* no bound); so it leaves the array only if software has written 0 or     *)
(* more than there are descriptors.  The receiver is at or behind          *)
(* TX_BD_NUM, and at most one behind the array unless TX_BD_NUM itself is. *)
EthIndices ==
  Is("eth") =>
    /\ dev.txi < dev.top \/ dev.top = TxLimit(0)
    /\ dev.rxi >= dev.num
    /\ dev.rxi <= ETH_BDS \/ dev.rxi = dev.num

(* The Ethernet controller after every order of register writes            *)
(* (eth_write32), clocks, packets and resets: its clocks, its interrupt    *)
(* line and its place among the descriptors.                               *)
EthSound == EthOneClock /\ EthLineHasSource /\ EthIndices
=============================================================================
