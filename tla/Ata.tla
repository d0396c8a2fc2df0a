-------------------------------- MODULE Ata ---------------------------------
(***************************************************************************)
(* The ATA host (peripheral/atahost.c) and the two disks on its cable      *)
(* (atadevice.c, atadevice-cmdi.c).  Both disks see every write; a command *)
(* is for the one whose DEV bit the device/head register holds.  A command *)
(* takes effect at once, and ata_cmd_complete(), a job of the scheduler,   *)
(* later clears BSY and interrupts.  Nothing removes these jobs: a reset   *)
(* or a new command may come before the completion of the last.            *)
(*                                                                         *)
(* Timing registers and the words of IDENTIFY DEVICE are left out.  The    *)
(* sector count matters only to the command that follows and is its input. *)
(* The device/head register is kept as its DEV bit "sel" and, in "addr"    *)
(* with the other address registers, its LBA bit and its head; that DEVICE *)
(* RESET keeps the LBA bit of a packet device, which never reads it, is    *)
(* left out.                                                               *)
(***************************************************************************)
EXTENDS Device

CONSTANTS
  AtaCables,     \* configurations: the disks of a cable, a pair of
                 \* [typed, stream, packet, size], and the commands
                 \* software issues; a disk with a type has no stream when
                 \* its file cannot be opened
  AtaWords,      \* words of a sector (BYTES_PER_SECTOR / 2)
  AtaCounts,     \* values software writes to the sector count register
  AtaFull,       \* what the count 0 stands for (256)
  AtaAddrs,      \* addresses: [lba, head, ch, cl, sn]
  AtaSample,     \* sectors whose addresses are compared
  AtaHeads, AtaSectors,   \* the configured geometry
  AtaWrap,       \* where the sector number wraps (2^32)
  AtaPending     \* bound on the completion jobs of both disks

(* The head is a field of 4 bits, the sector number a register of 8 and    *)
(* the cylinder two.                                                       *)
ASSUME AtaAssumption ==
  /\ AtaWords \in Nat \ {0}
  /\ AtaHeads \in 1 .. 16 /\ AtaSectors \in 1 .. 255
  /\ AtaWrap \in Nat /\ AtaWrap >= 2^28
  /\ AtaSample \subseteq 0 .. 2^16 * (AtaHeads * AtaSectors) - 1

AtaIds == {0, 1}
AtaCommands == {"RESET", "DIAG", "IDENTIFY", "INIT_PARAMS", "READ", "WRITE",
             "NATIVE_MAX", "SET_MODE", "SET_OTHER", "other"}

(* The registers after a signature of a disk that is no PACKET device.     *)
AtaNoAddr == [lba |-> FALSE, head |-> 0, ch |-> 0, cl |-> 0, sn |-> 1]

(* ata_devices_init(): the second disk answers to DEV only when the first  *)
(* is configured, connected or not.                                        *)
ata_device_init(disks, d) ==
  [stream |-> disks[d + 1].stream, packet |-> disks[d + 1].packet,
   size |-> disks[d + 1].size, dev |-> d = 1 /\ disks[1].typed,
   status |-> {}, state |-> "IDLE", intrq |-> FALSE, ien |-> TRUE, rst |-> FALSE,
   sel |-> FALSE, heads |-> 0, sectors |-> 0, addr |-> [AtaNoAddr EXCEPT !.sn = 0],
   cnt |-> 0, nr |-> 0, end |-> "none", jobs |-> 0]

Ata(c) ==
  [kind |-> "ata", cmds |-> c.cmds, en |-> FALSE, ideis |-> FALSE,
   d |-> [i \in AtaIds |-> ata_device_init(c.disks, i)]]

AtaConnected(s) == {i \in AtaIds : s.d[i].stream}
-----------------------------------------------------------------------------
(* The commands, as functions of one disk.                                 *)
(* The signature of a disk that is no PACKET device clears the DEV bit,    *)
(* and so does the end of the diagnostics for both.                        *)
AtaSignature(v) ==
  [v EXCEPT !.sel = @ /\ v.packet,
            !.addr = IF v.packet THEN [@ EXCEPT !.sn = 1, !.cl = 20, !.ch = 235]
                     ELSE AtaNoAddr]

ata_execute_device_diagnostics(v) ==
  [AtaSignature(v) EXCEPT !.rst = FALSE, !.sel = FALSE, !.addr.lba = FALSE,
     !.addr.head = 0,
     !.status = IF v.packet THEN @ \ {"ERR"} ELSE @ \cap {"BSY"}]

ata_calc_lba(v, a) ==
  IF a.lba THEN a.head * 2^24 + a.ch * 2^16 + a.cl * 2^8 + a.sn
  ELSE (((a.ch * 2^16 + a.cl) * v.heads + a.head) * v.sectors + a.sn - 1) % AtaWrap

ata_set_sect(lba, n) ==
  LET per == AtaHeads * AtaSectors
      r == n % per
  IN  IF lba
      THEN [lba |-> TRUE, head |-> (n \div 2^24) % 16, ch |-> (n \div 2^16) % 256,
            cl |-> (n \div 2^8) % 256, sn |-> n % 256]
      ELSE [lba |-> FALSE, head |-> (r \div AtaSectors) % 16,
            ch |-> (n \div (per * 256)) % 256, cl |-> (n \div per) % 256,
            sn |-> (r % AtaSectors) + 1]

(* SCHED_ADD (ata_cmd_complete, ...).                                      *)
AtaAddJob(v) == [v EXCEPT !.jobs = @ + 1]

ata_read_sect(v) ==
  IF v.nr = 0 THEN v
  ELSE AtaAddJob([v EXCEPT !.status = {"DRDY", "DRQ"}, !.cnt = AtaWords,
                        !.nr = @ - 1])

ata_write_sect(v) ==
  IF v.nr = 0 THEN [v EXCEPT !.status = {"DRDY"}]
  ELSE AtaAddJob([v EXCEPT !.status = {"DRDY", "DSC", "BSY"}
                                     \cup (IF v.nr > 1 THEN {"DRQ"} ELSE {}),
                        !.cnt = AtaWords, !.nr = @ - 1])

ata_identify_device(v) ==
  LET w == [v EXCEPT !.cnt = AtaWords, !.end = "none"]
  IN  IF v.packet THEN [AtaSignature(w) EXCEPT !.status = {"ERR"}]
      ELSE [w EXCEPT !.status = {"DRDY", "DRQ"}]

ata_initialize_device_parameters(v, n) ==
  [v EXCEPT !.sectors = n, !.heads = v.addr.head, !.status = {"BSY", "DRDY"}]

(* The checks that read and write share; only the first sector is compared *)
(* with the size of the disk.  The count 0 stands for 256, and unsigned    *)
(* arithmetic makes sector -1 (number 0 of cylinder 0) a very large one.   *)
AtaAccepted(v) ==
  ~v.packet /\ ata_calc_lba(v, v.addr) < v.size \div (2 * AtaWords)
AtaRefused(v) ==
  [(IF v.packet THEN AtaSignature(v) ELSE v) EXCEPT !.status = {"ERR", "DRDY"}]
AtaTransfer(v, n, end) ==
  [v EXCEPT !.nr = IF n = 0 THEN AtaFull ELSE n, !.end = end]

ata_read_sectors(v, n) ==
  IF AtaAccepted(v) THEN ata_read_sect(AtaTransfer(v, n, "read")) ELSE AtaRefused(v)

ata_write_sectors(v, n) ==
  IF AtaAccepted(v)
  THEN [AtaTransfer(v, n, "write") EXCEPT !.cnt = AtaWords,
                                          !.status = {"BSY", "DRDY", "DRQ"}]
  ELSE AtaRefused(v)

(* The size is in bytes, and shifted the wrong way.                        *)
ata_read_native_max_addr(v) ==
  [v EXCEPT !.status = {"DRDY", "BSY"},
            !.addr = ata_set_sect(@.lba, (v.size * 2^11) % AtaWrap)]

ata_set_features(v, known) ==
  [v EXCEPT !.status = {"DRDY", "BSY"} \cup (IF known THEN {"DSC"} ELSE {"ERR"})]

ata_device_execute_cmd(v, cmd, n) ==
  CASE cmd \in {"RESET", "DIAG"} -> AtaAddJob(ata_execute_device_diagnostics(v))
    [] cmd = "IDENTIFY" -> ata_identify_device(v)
    [] cmd = "INIT_PARAMS" -> AtaAddJob(ata_initialize_device_parameters(v, n))
    [] cmd = "READ" -> ata_read_sectors(v, n)
    [] cmd = "WRITE" -> AtaAddJob(ata_write_sectors(v, n))
    [] cmd = "NATIVE_MAX" -> AtaAddJob(ata_read_native_max_addr(v))
    [] cmd \in {"SET_MODE", "SET_OTHER"} ->
         AtaAddJob(ata_set_features(v, cmd = "SET_MODE"))
    [] OTHER -> AtaAddJob([v EXCEPT !.status = {"ERR", "BSY", "DRDY"}])

(* A disk that is not selected only listens to EXECUTE DEVICE DIAGNOSTICS. *)
ata_device_do_command_register(v, cmd, n) ==
  IF v.sel = v.dev \/ cmd = "DIAG" THEN ata_device_execute_cmd(v, cmd, n) ELSE v

(* A word of the data register, in either direction.                       *)
AtaDataWord(v) ==
  LET w == [v EXCEPT !.cnt = @ - 1]
      e == [w EXCEPT !.status = @ \ {"DRQ"}]
  IN  IF "DRQ" \notin v.status THEN v
      ELSE IF w.cnt # 0 THEN w
      ELSE CASE v.end = "read" -> ata_read_sect(e)
             [] v.end = "write" -> ata_write_sect(e)
             [] OTHER -> e

(* Resets.  The end of both runs the diagnostics.                          *)
AtaReady(v) ==
  LET w == ata_execute_device_diagnostics(v)
  IN  [w EXCEPT !.state = "IDLE",
                !.status = (@ \ {"BSY"}) \cup (IF v.packet THEN {} ELSE {"DRDY"})]
AtaStop(v, state) ==
  [v EXCEPT !.intrq = FALSE, !.status = @ \cup {"BSY"}, !.state = state]

ata_device_hw_reset(v, signal) ==
  IF v.state = "HW_RST"
  THEN IF signal THEN v
       ELSE AtaReady([v EXCEPT !.sectors = AtaSectors, !.heads = AtaHeads])
  ELSE IF signal THEN AtaStop(v, "HW_RST") ELSE v

ata_device_do_control_register(v) ==
  IF v.rst THEN (IF v.state = "IDLE" THEN AtaStop(v, "SW_RST") ELSE v)
  ELSE IF v.state = "SW_RST" THEN AtaReady(v) ELSE v

(* The disk that answers reads.                                            *)
AtaActive(s) ==
  IF AtaConnected(s) = AtaIds THEN Bit(s.d[1].sel) ELSE Max(AtaConnected(s))

(* The interrupt line of the host follows IDEIS.                           *)
ata_int(s) == [s EXCEPT !.ideis = TRUE]

AtaCompleteLate(s, i) ==
  LET v == s.d[i]
      c == [s EXCEPT !.d[i].jobs = @ - 1]
  IN  IF ~v.ien \/ v.sel # v.dev \/ v.intrq THEN c
      ELSE ata_int([c EXCEPT !.d[i].intrq = TRUE, !.d[i].status = @ \ {"BSY"}])
ata_cmd_complete(s, i) ==
  LET v == s.d[i]
      c == [s EXCEPT !.d[i].jobs = @ - 1, !.d[i].status = @ \ {"BSY"}]
  IN  IF ~v.ien \/ v.sel # v.dev \/ v.intrq THEN c
      ELSE ata_int([c EXCEPT !.d[i].intrq = TRUE])

(* A write reaches both disks: each one that is there becomes d[i].        *)
AtaEach(s, d) == [s EXCEPT !.d = [i \in AtaIds |->
                    IF s.d[i].stream THEN d[i] ELSE s.d[i]]]
-----------------------------------------------------------------------------
(* ata_reset() asserts the reset signal of the cable.                      *)
AtaInit ==
  \E c \in AtaCables :
    dev = AtaEach(Ata(c), [i \in AtaIds |-> ata_device_hw_reset(Ata(c).d[i], TRUE)])

AtaOn == Is("ata") /\ dev.en /\ AtaConnected(dev) # {}
AtaRoom == dev.d[0].jobs + dev.d[1].jobs < AtaPending

AtaWriteCtrl ==
  /\ Is("ata")
  /\ \E rst, en \in BOOLEAN :
       dev' = AtaEach([dev EXCEPT !.en = en],
                      [i \in AtaIds |-> ata_device_hw_reset(dev.d[i], rst)])

AtaWriteStat == Is("ata") /\ dev.ideis /\ dev' = [dev EXCEPT !.ideis = FALSE]

AtaWriteDcr ==
  /\ AtaOn
  /\ \E rst, ien \in BOOLEAN :
       dev' = AtaEach(dev, [i \in AtaIds |-> ata_device_do_control_register(
                            [dev.d[i] EXCEPT !.rst = rst, !.ien = ien])])

AtaSelect ==
  /\ AtaOn
  /\ \E sel \in BOOLEAN :
       dev' = AtaEach(dev, [i \in AtaIds |-> [dev.d[i] EXCEPT !.sel = sel]])

(* Software may write the address registers first, or leave them.          *)
AtaCommand ==
  /\ AtaOn /\ AtaRoom
  /\ \E c \in dev.cmds, n \in AtaCounts :
       \/ dev' = AtaEach(dev, [i \in AtaIds |->
                   ata_device_do_command_register(dev.d[i], c, n)])
       \/ \E a \in AtaAddrs :
            dev' = AtaEach(dev, [i \in AtaIds |->
                     ata_device_do_command_register([dev.d[i] EXCEPT !.addr = a], c, n)])

AtaReadData == AtaOn /\ AtaRoom /\ dev' = [dev EXCEPT !.d[AtaActive(dev)] = AtaDataWord(@)]
AtaWriteData ==
  AtaOn /\ AtaRoom /\ dev' = AtaEach(dev, [i \in AtaIds |-> AtaDataWord(dev.d[i])])

(* Reading the status register acknowledges the interrupt of the disk.     *)
AtaReadSr ==
  /\ AtaOn
  /\ LET a == AtaActive(dev) IN
       /\ dev.d[a].sel = dev.d[a].dev
       /\ dev' = [dev EXCEPT !.d[a].intrq = FALSE]

AtaJob ==
  /\ Is("ata")
  /\ \E i \in AtaIds : dev.d[i].jobs > 0 /\ dev' = ata_cmd_complete(dev, i)

(* The reset of the simulator: the scheduler has dropped its jobs before.  *)
AtaReset ==
  /\ Is("ata")
  /\ dev' = AtaEach([dev EXCEPT !.en = FALSE, !.ideis = FALSE],
                    [i \in AtaIds |->
                       ata_device_hw_reset([dev.d[i] EXCEPT !.jobs = 0], TRUE)])

AtaNext == \/ AtaReset \/ AtaWriteCtrl \/ AtaWriteStat \/ AtaWriteDcr \/ AtaSelect
           \/ AtaCommand \/ AtaReadData \/ AtaWriteData \/ AtaReadSr \/ AtaJob

AtaSpec == AtaInit /\ [][AtaNext]_dev
-----------------------------------------------------------------------------
(* A disk that is busy becomes ready: a completion is on its way, or it is *)
(* held in a reset that software has yet to end.  This survives commands   *)
(* to a busy disk and completions that arrive late.                        *)
AtaBusyEnds ==
  Is("ata") => \A i \in AtaIds :
    "BSY" \in dev.d[i].status => dev.d[i].jobs > 0 \/ dev.d[i].state # "IDLE"

(* While DRQ invites software to move a word the buffer pointer is inside  *)
(* the sector buffer, whatever command, reset or completion came between.  *)
AtaBufferInBounds ==
  Is("ata") => \A i \in AtaIds :
    "DRQ" \in dev.d[i].status => dev.d[i].cnt \in 1 .. AtaWords

(* The sector that ata_set_sect() puts into the registers is the one       *)
(* ata_calc_lba() reads from them for the next command, as long as the     *)
(* geometry is the configured one: always in the LBA form, and in the CHS  *)
(* form for the first 256 cylinders.  Behind them cylinder_high counts for *)
(* 2^16 cylinders, and the disk goes that much too far.                    *)
AtaAddressing ==
  Is("ata") => \A i \in AtaIds, lba \in BOOLEAN, n \in AtaSample :
    dev.d[i].heads = AtaHeads /\ dev.d[i].sectors = AtaSectors
      => LET per == AtaHeads * AtaSectors
             high == n \div (per * 256)
         IN  ata_calc_lba(dev.d[i], ata_set_sect(lba, n))
               = IF lba \/ high = 0 THEN n
                 ELSE (n + high * ((2^16 - 2^8) * per)) % AtaWrap

(* The disks after every order of commands, data words, completions and    *)
(* resets (ata_device_execute_cmd, ata_cmd_complete): ready again, in      *)
(* bounds and at the sector that was meant.                                *)
AtaSound == AtaBusyEnds /\ AtaBufferInBounds /\ AtaAddressing
=============================================================================
