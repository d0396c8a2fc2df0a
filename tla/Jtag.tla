-------------------------------- MODULE Jtag --------------------------------
(***************************************************************************)
(* The JTAG debug interface (debug/jtag.c).  A data register is modelled   *)
(* by its fields, the verdict on its CRC and its length; the placement of  *)
(* the fields in the bytes that are shifted out is modelled bit by bit.    *)
(* Each step shifts one register: a caller may not re-enter the interface. *)
(***************************************************************************)
EXTENDS DebugUnit

CONSTANTS
  JtagMem,       \* addresses that some memory area serves
  JtagAddrs,     \* addresses a WRITE_COMMAND gives
  JtagSizes,     \* bytes a WRITE_COMMAND asks for (its length field + 1)
  JtagExtra,     \* bits by which a GO_COMMAND is longer or shorter than it should be
  JtagFed,       \* ones the debugger shifts into the bits that are "ignored"
  JtagTop,       \* bound on the address
  MAX_SPRS

ASSUME JtagAssumption ==
  /\ JtagAddrs \subseteq Nat /\ JtagSizes \subseteq Nat \ {0}
  /\ JtagExtra \subseteq Int /\ JtagFed \subseteq SUBSET Int
  /\ MAX_SPRS \in Nat \ {0}

JtagAcc == [write : BOOLEAN, bytes : {1, 2, 4}]
BadAcc == [write |-> TRUE, bytes |-> 0]  \* any of the other ten codes
-----------------------------------------------------------------------------
(* A word is the set of its one bits.  The swaps exchange neighbours of    *)
(* 1, 2, 4 ... 32 bits; then only the wanted bits are kept.                *)
SwapBits(v, k) == {IF (i \div k) % 2 = 1 THEN i - k ELSE i + k : i \in v}
reverse_byte(v) == SwapBits(SwapBits(SwapBits(v, 1), 2), 4)
reverse_bits(v, n) ==
  LET byte == SwapBits(SwapBits(SwapBits(v, 1), 2), 4)
      word == SwapBits(SwapBits(SwapBits(byte, 8), 16), 32)
  IN  {i - (64 - n) : i \in {j \in word : j >= 64 - n}}

(* A word shifted right by n (left when n is negative), cut to a byte that *)
(* starts at bit "at" of the register.                                     *)
JtagByte(v, n, at) == {at + i - n : i \in {j \in v : j - n \in 0 .. 7}}

(* construct_response: the one bits of the register from the byte that     *)
(* holds the first status bit, "off" bits into it, when the bits "fed" of  *)
(* that byte were ones: the later bytes are assigned, but into this one    *)
(* the answer is only ORed.  The bits below "off" (zeros, or the last of   *)
(* the data) are not part of it.                                           *)
construct_response(fed, off, status, crc) ==
  LET st == reverse_bits(status, 4)
      cr == reverse_bits(crc, 32)
      tail == UNION {JtagByte(cr, 8 * b - 4 - off, 8 * b) : b \in 2 .. 4}
  IN  (fed \cap (off .. 7)) \cup
      IF off <= 4
      THEN JtagByte(st, -off, 0) \cup JtagByte(cr, -(4 + off), 0)
             \cup JtagByte(cr, 4 - off, 8) \cup tail
      ELSE JtagByte(st, -off, 0) \cup JtagByte(st, 8 - off, 8)
             \cup JtagByte(cr, -(off - 4), 8) \cup tail
             \cup JtagByte(cr, 36 - off, 40)

(* The data of READ_COMMAND (access type, address and length) and of       *)
(* READ_CONTROL, from byte 4 of the register: both are ORed into "fed",    *)
(* and the second misses five bits.                                        *)
command_data(fed, acc, addr, len) ==
  LET ac == reverse_bits(acc, 4)
      ad == reverse_bits(addr, 32)
      ln == reverse_bits(len, 16)
  IN  fed \cup JtagByte(ac, -5, 32) \cup JtagByte(ac, 3, 40)
        \cup JtagByte(ad, -1, 40) \cup JtagByte(ad, 7, 48) \cup JtagByte(ad, 15, 56)
        \cup JtagByte(ad, 23, 64) \cup JtagByte(ad, 31, 72)
        \cup JtagByte(ln, -1, 72) \cup JtagByte(ln, 7, 80) \cup JtagByte(ln, 15, 88)
control_data(fed, data) ==
  LET da == reverse_bits(data, 52)
  IN  fed \cup JtagByte(da, -5, 32) \cup JtagByte(da \cap (3 .. 5), 3, 40)
        \cup UNION {JtagByte(da, 8 * b - 37, 8 * b) : b \in 6 .. 10}
        \cup JtagByte(da \cap {51}, 51, 88)
JCB_STALL == 50
-----------------------------------------------------------------------------
(* What a register reports: the status bits sent back, or an error message *)
(* ("told") without a response.  "cmd" is "GO" after a GO_COMMAND.         *)
JtagTell(s) == [s EXCEPT !.status = {}, !.told = TRUE, !.cmd = ""]
JtagReply(s, status) == [s EXCEPT !.status = status, !.told = FALSE, !.cmd = ""]
JtagCrcError(s) == JtagReply(s, {"CRC_IN"})

(* A bad module leaves none selected; the WRITE_COMMAND stays defined.     *)
select_module(s, mod) ==
  IF mod \in {"WISHBONE", "CPU0", "CPU1"}
  THEN JtagReply([s EXCEPT !.mod = mod], {})
  ELSE JtagReply([s EXCEPT !.mod = "UNDEFINED"], {"MODULE_MISSING"})

validate_wb_fields(acc, addr, size) ==
  acc # BadAcc /\ addr % acc.bytes = 0 /\ size % acc.bytes = 0

validate_spr_fields(acc, size) == acc.bytes = 4 /\ size = 4

(* "base" remembers the address of the WRITE_COMMAND and "moved" what has  *)
(* been read or written since then, by transfers that failed as well.      *)
JtagDefine(s, acc, addr, size) ==
  [s EXCEPT !.wdef = TRUE, !.acc = acc, !.addr = addr, !.size = size,
            !.base = addr, !.moved = {}]
write_command(s, acc, addr, size) ==
  CASE s.mod = "WISHBONE" /\ validate_wb_fields(acc, addr, size)
         -> [JtagReply(JtagDefine(s, acc, addr, size), {}) EXCEPT !.failed = FALSE]
    [] s.mod = "CPU0" /\ validate_spr_fields(acc, size)
         -> [JtagReply(JtagDefine(s, acc, addr % MAX_SPRS, size), {})
               EXCEPT !.failed = FALSE]
    [] OTHER -> [JtagReply([s EXCEPT !.wdef = FALSE, !.failed = TRUE], {})
                   EXCEPT !.told = TRUE]
WriteFails(s, status) ==
  [JtagReply([s EXCEPT !.wdef = FALSE, !.failed = TRUE], status)
     EXCEPT !.told = status = {}]

(* wishbone_read and wishbone_write: n bytes are in the register; those    *)
(* past the size of the WRITE_COMMAND are zero, or ignored.  A byte that   *)
(* no area serves is an error, but the others are transferred.             *)
WishboneAdvances(s, n, status) ==
  LET bytes == {s.addr + i : i \in 0 .. (IF n < s.size THEN n ELSE s.size) - 1}
      st == status \cup IF bytes \subseteq JtagMem THEN {} ELSE {"WISHBONE"}
  IN  JtagReply([s EXCEPT !.addr = @ + Cardinality(bytes),
                          !.moved = @ \cup (bytes \cap JtagMem)], st)
wishbone_access(s, n, status) ==
  LET bytes == {s.addr + i : i \in 0 .. (IF n < s.size THEN n ELSE s.size) - 1}
      st == status \cup IF bytes \subseteq JtagMem THEN {} ELSE {"WISHBONE"}
  IN  JtagReply([s EXCEPT !.addr = IF st = {} THEN @ + s.size ELSE @,
                          !.moved = @ \cup (bytes \cap JtagMem)], st)

(* spr_read and spr_write: the register is accessed whatever the length.   *)
spr_access(s, status) ==
  JtagReply([s EXCEPT !.addr = IF status = {} THEN @ + 1 ELSE @,
                      !.moved = @ \cup {s.addr}], status)

(* null_read, and the write to a module that is neither.                   *)
null_access(s, status) == JtagReply(s, status)

(* go_command: "extra" is the number of bits by which the register is      *)
(* longer than the WRITE_COMMAND needs, and bytes are counted down.  Of a  *)
(* register shorter than its fixed fields the count is negative, which to  *)
(* the code is a very large number: it runs out of the register.           *)
go_command(s, crc, extra) ==
  LET status == IF extra = 0 THEN {} ELSE {"OVER_UNDERRUN"}
      n == (8 * s.size + extra) \div 8
  IN  CASE ~s.wdef -> JtagTell(s)
        [] s.wdef /\ n < 0 -> [s EXCEPT !.instr = "LOST"]
        [] s.wdef /\ n >= 0 /\ ~crc -> JtagReply(s, status \cup {"CRC_IN"})
        [] s.wdef /\ n >= 0 /\ crc /\ s.mod = "WISHBONE" -> wishbone_access(s, n, status)
        [] s.wdef /\ n >= 0 /\ crc /\ s.mod = "CPU0" -> spr_access(s, status)
        [] OTHER -> null_access(s, status)

(* read_command: what is answered goes into "shown".                       *)
read_command(s) ==
  [JtagReply(s, {}) EXCEPT
     !.told = ~s.wdef,
     !.shown = IF s.wdef THEN <<s.addr, s.size - 1>> ELSE <<0, 0>>]

(* read_control: only the stall bit of CPU0 can be read.                   *)
read_control(s) ==
  [JtagReply(s, {}) EXCEPT !.told = s.mod # "CPU0",
                           !.shown = <<Bit(s.mod = "CPU0" /\ s.stalled)>>]

(* write_control: a reset (sim_reset) wins over the stall bit.             *)
write_control(s, rst, stall) ==
  IF s.mod # "CPU0" THEN [JtagReply(s, {}) EXCEPT !.told = TRUE]
  ELSE JtagReply(IF rst THEN du_reset([s EXCEPT !.npcbad = FALSE])
                 ELSE set_stall_state(s, stall), {})
-----------------------------------------------------------------------------
jtag_init ==
  dev = [kind |-> "jtag", instr |-> "UNDEFINED", mod |-> "UNDEFINED", wdef |-> FALSE,
         acc |-> BadAcc, addr |-> 0, size |-> 0, base |-> 0, moved |-> {},
         failed |-> FALSE, cmd |-> "", status |-> {}, told |-> FALSE, shown |-> <<>>,
         riscop |-> FALSE, stalled |-> FALSE, halted |-> FALSE, npcbad |-> FALSE]

(* The registers to shift out: one bit of the status (0 .. 3) or of the    *)
(* CRC is set, "off" bits into a byte; or one bit of the length, the       *)
(* address (16 .. 47) or the access type.                                  *)
JtagWireInit ==
  \/ \E off \in 0 .. 7, b \in 0 .. 35, fed \in JtagFed :
       dev = [kind |-> "wire", off |-> off, bit |-> b, fed |-> fed]
  \/ \E b \in 0 .. 51, fed \in JtagFed :
       dev = [kind |-> "answer", bit |-> b, fed |-> fed]

(* Nothing more can be said of an interface that a short GO_COMMAND sent   *)
(* out of its register.                                                    *)
JtagOn == Is("jtag") /\ dev.instr # "LOST"

JtagReset == JtagOn /\ dev' = [dev EXCEPT !.instr = "UNDEFINED"]

(* An instruction register of another length than 4 bits changes nothing.  *)
jtag_shift_ir ==
  /\ JtagOn
  /\ \E i \in {"DEBUG", "OTHER"} :
       dev' = [dev EXCEPT !.instr = i, !.told = i # "DEBUG", !.status = {}, !.cmd = ""]

(* The data registers, under the instruction DEBUG; a register of a wrong  *)
(* length, or under another instruction, only gives a message, but a       *)
(* WRITE_COMMAND of a wrong length also ends the last one.                 *)
JtagDebug == Is("jtag") /\ dev.instr = "DEBUG"
JtagRefused == JtagOn /\ dev' = JtagTell(dev)
JtagSelect ==
  /\ JtagDebug
  /\ \E m \in {"WISHBONE", "CPU0", "CPU1", "UNDEFINED"} : dev' = select_module(dev, m)
JtagWrite ==
  /\ JtagDebug
  /\ \E acc \in JtagAcc \cup {BadAcc}, a \in JtagAddrs, n \in JtagSizes :
       dev' = write_command(dev, acc, a, n)
JtagWriteFails ==
  /\ JtagDebug
  /\ \E st \in {{}, {"CRC_IN"}} : dev' = WriteFails(dev, st)
JtagGo ==
  /\ JtagDebug /\ dev.addr + dev.size <= JtagTop
  /\ \E crc \in BOOLEAN, e \in JtagExtra :
       dev' = [go_command(dev, crc, e) EXCEPT !.cmd = "GO"]
JtagRead == JtagDebug /\ \/ dev' = read_command(dev)
                         \/ dev' = read_control(dev)
JtagControl ==
  JtagDebug /\ \E rst, stall \in BOOLEAN : dev' = write_control(dev, rst, stall)
JtagBadCrc == JtagDebug /\ dev' = JtagCrcError(dev)

JtagNext == \/ JtagReset \/ jtag_shift_ir \/ JtagRefused \/ JtagSelect \/ JtagWrite
            \/ JtagWriteFails \/ JtagGo \/ JtagRead \/ JtagControl \/ JtagBadCrc

JtagSpec == (jtag_init \/ JtagWireInit) /\ [][JtagNext]_dev
-----------------------------------------------------------------------------
(* The bits that are shifted out are the status and then the CRC, the most *)
(* significant bit of each first, at every offset in a byte; but a one     *)
(* that the debugger shifted in where the first byte of the answer goes    *)
(* comes back as a one.                                                    *)
JtagWire ==
  Is("wire") =>
    LET b == dev.bit
    IN  /\ construct_response(dev.fed, dev.off, {b} \cap (0 .. 3), {b - 4} \cap (0 .. 31))
             = (dev.fed \cap (dev.off .. 7))
                 \cup {dev.off + IF b < 4 THEN 3 - b ELSE 39 - b}
        /\ b < 8 => reverse_byte({b}) = reverse_bits({b}, 8)

(* So do the access type, the address and the length of READ_COMMAND, and  *)
(* the stall bit of READ_CONTROL, 37 bits into the register.               *)
JtagData ==
  Is("answer") =>
    LET b == dev.bit
    IN  /\ command_data(dev.fed, {b - 48} \cap (0 .. 3), {b - 16} \cap (0 .. 31),
                        {b} \cap (0 .. 15))
             = dev.fed \cup {37 + 51 - b}
        /\ b = JCB_STALL => control_data(dev.fed, {b}) = dev.fed \cup {37 + 51 - b}

(* Since a WRITE_COMMAND everything up to the current address has been     *)
(* transferred, and beyond it nothing but a part of what the next          *)
(* GO_COMMAND transfers: one that failed half-way, at a byte that no area  *)
(* serves or for its length, is repeated in full over what it left.  After *)
(* a WRITE_COMMAND that failed no GO_COMMAND transfers anything.           *)
JtagOneBlock ==
  Is("jtag") =>
    /\ dev.wdef => /\ dev.base .. dev.addr - 1 \subseteq dev.moved
                   /\ dev.moved \subseteq dev.base .. dev.addr + dev.size - 1
    /\ dev.failed => ~dev.wdef

(* The JTAG interface: answers as the debugger decodes them                *)
(* (construct_response), and transfers in one piece (go_command).          *)
JtagSound == JtagWire /\ JtagData /\ JtagOneBlock
=============================================================================
