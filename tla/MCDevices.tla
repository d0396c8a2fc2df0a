----------------------------- MODULE MCDevices -----------------------------
(* A model-checking instance of the peripherals: every behaviour is one of *)
(* a single peripheral, driven by software and by its outside world.       *)
EXTENDS Dma, Ps2Kbd, Gpio, Mc, Generic, Display, Eth, Ata, TLC

(* DMA: channel 0 follows a list of two descriptors in hardware handshake, *)
(* channel 1 is programmed directly.                                       *)
MCDmaCsrs ==
  0 :> {{}, {"CH_EN", "MODE", "USE_ED", "SZ_WB", "INE_DONE"},
        {"CH_EN", "STOP", "INE_ERR"}}
  @@ 1 :> {{"CH_EN", "INE_DONE"}, {"CH_EN", "ARS"}}
MCDmaSizes == 0 :> {} @@ 1 :> {[tot |-> 2, chk |-> 0]}
MCDmaDescs ==
  [first |-> [eol |-> FALSE, tot |-> 2, next |-> "second"],
   second |-> [eol |-> TRUE, tot |-> 1, next |-> "first"]]

(* GPIO: interrupts on an input clocked from outside, an output that an    *)
(* auxiliary function may take over, an output next to the external clock. *)
MCGpioUses ==
  {{"in", "inte", "ptrig", "INTE", "ints", "ECLK", "clk"},
   {"in", "out", "oe", "aux", "auxin"},
   {"ECLK", "NEC", "clk", "out", "oe"}}

(* Memory controller: two memories on one controller, one on each of two,  *)
(* three memories on two controllers and on one, and four on two, which    *)
(* mixes up their lists.                                                   *)
Chip(c, m) == [cs |-> c, mc |-> m]
MCMcConfigs ==
  {<<Chip(0, 0), Chip(1, 0)>>, <<Chip(0, 0), Chip(0, 1)>>,
   <<Chip(0, 0), Chip(1, 0), Chip(0, 1)>>, <<Chip(0, 0), Chip(1, 0), Chip(0, 0)>>,
   <<Chip(0, 0), Chip(1, 0), Chip(0, 1), Chip(1, 1)>>}
MCMcControllers == <<0, 1>>

MCVgaLens == {[h |-> 2, v |-> 0], [h |-> 2, v |-> 2]}

MCEthBds ==
  {[ready |-> TRUE, wrap |-> FALSE, irq |-> TRUE],
   [ready |-> TRUE, wrap |-> TRUE, irq |-> FALSE]}
MCEthBehind == {[ready |-> TRUE, wrap |-> FALSE, irq |-> TRUE]}
MCEthMasks == {{}, {"TXB", "RXB", "RXE"}}

(* ATA: no disk and a disk, a packet device and no disk, a file that could *)
(* not be opened and a disk, a disk and a packet device.                   *)
Disk(s, p) == [typed |-> s, stream |-> s, packet |-> p, size |-> 4]
Unopened == [Disk(FALSE, FALSE) EXCEPT !.typed = TRUE]
MCAtaCables ==
  {[disks |-> <<Disk(FALSE, FALSE), Disk(TRUE, FALSE)>>,
    cmds |-> AtaCommands \ {"DIAG", "SET_MODE", "SET_OTHER"}],
   [disks |-> <<Disk(TRUE, TRUE), Disk(FALSE, FALSE)>>, cmds |-> AtaCommands],
   [disks |-> <<Unopened, Disk(TRUE, FALSE)>>, cmds |-> {"READ", "NATIVE_MAX"}],
   [disks |-> <<Disk(TRUE, FALSE), Disk(TRUE, TRUE)>>,
    cmds |-> {"DIAG", "READ"}]}
(* An address of the LBA form; a signature leaves one of the CHS form.     *)
MCAtaAddrs == {[lba |-> TRUE, head |-> 0, ch |-> 0, cl |-> 0, sn |-> 1]}

Init ==
  \/ DmaInit \/ KbdInit \/ GpioInit \/ McInit
  \/ GenericInit \/ DisplayInit \/ EthInit \/ AtaInit

Next ==
  \/ DmaNext \/ KbdNext \/ GpioNext \/ McNext
  \/ GenericNext \/ DisplayNext \/ EthNext \/ AtaNext

Spec == Init /\ [][Next]_dev
=============================================================================
