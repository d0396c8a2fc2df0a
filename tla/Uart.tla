------------------------------- MODULE Uart -------------------------------
(***************************************************************************)
(* The 16450/16550 UART (peripheral/16450.c): the register accesses of     *)
(* uart_write_byte() and uart_read_byte(), the jobs it gives to the        *)
(* scheduler, and the commands of the verification API.                    *)
(*                                                                         *)
(* "u" is struct dev_16450 together with the entries of the scheduler      *)
(* whose parameter it is and the UART's bit of PICSR (level triggered).    *)
(* The functions of the C file are operators from one state of u to the    *)
(* next, so that a handler is the composition of the calls it makes.       *)
(*                                                                         *)
(* Time is abstract: a job added with 0 cycles is "ready" and runs before  *)
(* the next instruction; every other job is "timed" and runs in some later *)
(* round, whatever the baud rate.  A divisor of 0 makes every character    *)
(* take 0 cycles.                                                          *)
(*                                                                         *)
(* Word length, parity and stop bits are left out.  The error bits of LSR  *)
(* and of an entry of the receive FIFO are one bit.                        *)
(***************************************************************************)
EXTENDS Integers, Sequences, SequencesExt, FiniteSets

CONSTANTS
  Chars,        \* characters
  Nothing,      \* an empty register
  Break,        \* the break signal
  FIFO,         \* UART_MAX_FIFO_LEN
  VAPI_BUF,     \* UART_VAPI_BUF_LEN
  Uses,         \* how a UART is configured and used: by name, records of
                \*   is16550   the configuration parameter "16550"
                \*   vapi      a VAPI id is configured (vapi_id # 0)
                \*   received  characters that arrive
                \*   sends     characters software writes to TXBUF
                \*   iers      values software writes to IER
                \*   triggers  receive trigger levels software selects
                \*   mcrs      values software writes to MCR
                \*   sbcs      values software writes to LCR[SBC]
                \*   dlabs     whether software uses LCR[DLAB]
  MAX_RECV      \* bound: the characters and breaks on their way to the
                \* receiver when a further VAPI command arrives

ASSUME UartAssumption ==
  /\ FIFO \in Nat /\ FIFO >= 2 /\ VAPI_BUF \in Nat /\ VAPI_BUF >= 2
  /\ Nothing \notin Chars /\ Break \notin Chars /\ Nothing # Break
  /\ \A n \in DOMAIN Uses :
       /\ Uses[n].is16550 \in BOOLEAN /\ Uses[n].vapi \in BOOLEAN
       /\ Uses[n].received \subseteq Chars /\ Uses[n].sends \subseteq Chars
       /\ Uses[n].triggers \subseteq Nat \ {0}

VARIABLE u

Use(s) == Uses[s.use]

Ints == {"rlsi", "rdi", "cti", "thri", "msi"}
ModemLines == {"aux2", "aux1", "rts", "dtr"}
JobFuncs == {"char_clock", "send_break", "tx_send", "int_cti", "recv_char",
             "recv_break", "recv_break_start", "recv_break_stop",
             "check_char", "vapi_cmd"}

Rx(c, e) == [ch |-> c, err |-> e]
NoChar == Rx(Nothing, FALSE)
-----------------------------------------------------------------------------
(* SCHED_ADD with 0 cycles, with a number of cycles, with a multiple of    *)
(* char_clks and with one of vapi.char_clks; SCHED_FIND_REMOVE.            *)
AddNow(s, f) == [s EXCEPT !.ready = <<f>> \o @]
AddTimed(s, f) == [s EXCEPT !.timed[f] = @ + 1]
AddClks(s, f) == IF s.clks THEN AddTimed(s, f) ELSE AddNow(s, f)
AddVapiClks(s, f) == IF s.vclks THEN AddTimed(s, f) ELSE AddNow(s, f)

Unsched(s, f) ==
  IF \E i \in DOMAIN s.ready : s.ready[i] = f
  THEN [s EXCEPT !.ready = RemoveFirst(@, f)]
  ELSE [s EXCEPT !.timed[f] = IF @ > 0 THEN @ - 1 ELSE 0]

Number(s, f) ==
  s.timed[f] + Cardinality({i \in DOMAIN s.ready : s.ready[i] = f})
-----------------------------------------------------------------------------
(* The bit of IER that enables an interrupt.                               *)
EnableBit(i) == IF i = "cti" THEN "rdi" ELSE i

Enabled(s) == {i \in s.ints : EnableBit(i) \in s.ier}

(* The values of IIR that uart_int_<i>() replaces.                         *)
Yields(i) ==
  CASE i = "msi"  -> {"none", "msi"}
    [] i = "thri" -> {"none", "msi", "thri"}
    [] i = "cti"  -> {"none", "msi", "thri", "cti"}
    [] i = "rdi"  -> {"none", "msi", "thri", "cti", "rdi"}
    [] i = "rlsi" -> {"none"} \cup Ints

(* uart_int_msi(), _thri(), _cti(), _rdi() and _rlsi(); report_interrupt() *)
(* sets the line.                                                          *)
RaiseQuietly(s, i) ==   \* mutant: IIR changes but the line is not raised
  LET t == [s EXCEPT !.ints = @ \cup {i}] IN
  IF EnableBit(i) \in s.ier /\ s.iir \in Yields(i)
  THEN [t EXCEPT !.iir = i]
  ELSE t

Raise(s, i) ==
  LET t == [s EXCEPT !.ints = @ \cup {i}] IN
  IF EnableBit(i) \in s.ier /\ s.iir \in Yields(i)
  THEN [t EXCEPT !.iir = i, !.irq = TRUE]
  ELSE t

(* uart_next_int().                                                        *)
uart_next_int(s) ==
  LET Has(i) == i \in Enabled(s) IN
  IF Has("rlsi") THEN Raise(s, "rlsi")
  ELSE IF Has("rdi") THEN Raise(s, "rdi")
  ELSE IF Has("cti") THEN Raise(s, "cti")
  ELSE IF Has("thri") THEN Raise(s, "thri")
  ELSE IF Has("msi") THEN Raise(s, "msi")
  ELSE [s EXCEPT !.irq = FALSE, !.iir = "none"]

ClearIntOnly(s, i) ==   \* mutant: the next interrupt is not looked for
  LET t == [s EXCEPT !.ints = @ \ {i}]
      r == IF i = "cti" THEN Unsched(t, "int_cti") ELSE t
  IN  IF i = s.iir THEN [r EXCEPT !.irq = FALSE, !.iir = "none"] ELSE r

uart_clear_int(s, i) ==
  LET t == [s EXCEPT !.ints = @ \ {i}]
      r == IF i = "cti" THEN Unsched(t, "int_cti") ELSE t
  IN  IF i = s.iir THEN uart_next_int(r) ELSE r

uart_check_rlsi(s) == IF s.err THEN Raise(s, "rlsi") ELSE s

uart_check_rdi(s) == IF Len(s.rx) >= s.trigger THEN Raise(s, "rdi") ELSE s

(* uart_loopback(): the modem lines are compared with MSR, RI for a        *)
(* falling edge only, and copied to it.                                    *)
uart_loopback(s) ==
  LET changed == {l \in ModemLines \ {"aux1"} :
                    (l \in s.mcr) # (l \in s.msr)}
                 \cup ({"aux1"} \cap (s.msr \ s.mcr))
      t == [s EXCEPT !.delta = @ \cup changed, !.msr = s.mcr \ {"loop"}]
  IN  IF "loop" \notin s.mcr THEN s
      ELSE IF t.delta # {} THEN Raise(t, "msi") ELSE t
-----------------------------------------------------------------------------
(* uart_tx_send(): the oldest character moves to the shift register.       *)
TxSendLazily(s) ==   \* mutant: the job that ends the character is missing
  LET t == [s EXCEPT !.txser = Head(s.tx), !.tx = Tail(@), !.txsere = FALSE]
  IN  IF t.tx = <<>> THEN Raise([t EXCEPT !.txbufe = TRUE], "thri") ELSE t

uart_tx_send(s) ==
  LET t == [s EXCEPT !.txser = Head(s.tx), !.tx = Tail(@), !.txsere = FALSE]
      r == IF s.sbc THEN AddNow(t, "send_break") ELSE AddClks(t, "char_clock")
  IN  IF t.tx = <<>> THEN Raise([r EXCEPT !.txbufe = TRUE], "thri") ELSE r

TxNextLifo(s) ==   \* mutant: the newest character is sent next
  IF s.tx = <<>> THEN [s EXCEPT !.txsere = TRUE]
  ELSE uart_tx_send([s EXCEPT !.tx = <<Last(@)>> \o Front(@)])

(* The end of uart_char_clock() and of uart_send_break().                  *)
TxNext(s) ==
  IF s.tx = <<>> THEN [s EXCEPT !.txsere = TRUE] ELSE uart_tx_send(s)

(* send_char(): to the loopback register, to VAPI, or to the GUI's socket  *)
(* and the channel.                                                        *)
send_char(s) ==
  IF "loop" \in s.mcr THEN [s EXCEPT !.loopback = s.txser, !.wire = s.txser]
  ELSE [s EXCEPT !.wire = s.txser]

uart_char_clock(s) == TxNext(send_char(s))

uart_send_break(s) == TxNext([s EXCEPT !.wire = Break])
-----------------------------------------------------------------------------
(* uart_add_char().                                                        *)
AddCharNoTimeout(s, c) ==   \* mutant: the character timeout is not started
  LET t == uart_clear_int([s EXCEPT !.rdrdy = TRUE], "cti")
      full == Len(t.rx) + 1 > t.fifo_len
      r == IF full THEN t ELSE [t EXCEPT !.rx = Append(@, c)]
  IN  uart_check_rdi(r)

uart_add_char(s, c) ==
  LET t == AddClks(uart_clear_int([s EXCEPT !.rdrdy = TRUE], "cti"),
                   "int_cti")
      full == Len(t.rx) + 1 > t.fifo_len
      r == IF full THEN Raise([t EXCEPT !.err = TRUE], "rlsi")
           ELSE LET v == [t EXCEPT !.rx = Append(@, c)] IN
                IF t.rx = <<>>
                THEN uart_check_rlsi([v EXCEPT !.err = @ \/ c.err])
                ELSE v
  IN  uart_check_rdi(r)

uart_recv_break(s) == uart_add_char(s, Rx(Break, TRUE))

uart_sched_recv_check(s) == IF Use(s).vapi THEN s ELSE AddTimed(s, "check_char")

uart_recv_char(s) ==
  LET c == s.rxser
      t == IF "loop" \in s.mcr
           THEN AddClks([s EXCEPT !.rxser = Rx(s.loopback, FALSE),
                                  !.receiveing = TRUE], "recv_char")
           ELSE LET v == uart_sched_recv_check(
                           [s EXCEPT !.receiveing = FALSE]) IN
                IF Use(v).vapi /\ v.buf # <<>> THEN AddNow(v, "vapi_cmd") ELSE v
  IN  uart_add_char(t, c)

uart_recv_break_stop(s) == Unsched([s EXCEPT !.recv_break = FALSE], "recv_break")

(* uart_recv_break_start() up to the call of uart_vapi_cmd().              *)
BreakStart(s) ==
  Unsched([s EXCEPT !.receiveing = FALSE, !.recv_break = TRUE], "recv_char")
-----------------------------------------------------------------------------
(* uart_reset(), after sched_reset() has emptied the scheduler and         *)
(* pic_reset() has cleared the line.                                       *)
Fresh(k) ==
  [use |-> k, ier |-> {}, iir |-> "none", ints |-> {}, irq |-> FALSE,
   txsere |-> TRUE, txbufe |-> TRUE, rdrdy |-> FALSE, err |-> FALSE,
   fifo_len |-> IF Uses[k].is16550 THEN FIFO ELSE 1, trigger |-> 1,
   tx |-> <<>>, txser |-> Nothing, wire |-> Nothing,
   rx |-> <<>>, rxser |-> NoChar, loopback |-> Nothing,
   receiveing |-> FALSE, recv_break |-> FALSE,
   mcr |-> {}, msr |-> {}, delta |-> {},
   sbc |-> FALSE, dlab |-> FALSE, dll |-> FALSE, dlh |-> FALSE,
   clks |-> FALSE, vclks |-> FALSE,
   ready |-> <<>>, timed |-> [f \in JobFuncs |-> 0],
   jobs |-> FALSE,
   buf |-> <<>>, calls |-> <<>>, dead |-> FALSE]

uart_reset(k) == uart_sched_recv_check(Fresh(k))

Init == \E k \in DOMAIN Uses : u = uart_reset(k)
-----------------------------------------------------------------------------
(* Software accesses a register between two rounds of do_scheduler().      *)
Cpu == ~u.dead /\ u.ready = <<>> /\ u.calls = <<>> /\ ~u.jobs

(* uart_write_byte().                                                      *)
WriteDll(nonzero) ==
  /\ Cpu /\ u.dlab
  /\ u' = [u EXCEPT !.dll = nonzero, !.clks = nonzero \/ u.dlh]

(* The clocks per character are not computed again.                        *)
WriteDlh(nonzero) == Cpu /\ u.dlab /\ u' = [u EXCEPT !.dlh = nonzero]

WriteTxbuf(c) ==
  LET t == [u EXCEPT !.txbufe = FALSE]
      r == IF Len(u.tx) < u.fifo_len
           THEN LET v == [t EXCEPT !.tx = Append(@, c)] IN
                IF u.tx = <<>> /\ u.txsere THEN AddNow(v, "tx_send") ELSE v
           ELSE [t EXCEPT !.tx[1] = c]
  IN  Cpu /\ ~u.dlab /\ u' = uart_clear_int(r, "thri")

(* The FIFOs are reset on request and whenever the mode changes.           *)
WriteFcr(fie, rrx, rtx, level) ==
  LET change == fie # (u.fifo_len # 1)
      t == [u EXCEPT !.trigger = level,
                     !.fifo_len = IF fie THEN FIFO ELSE 1]
      TxReset(s) ==
        LET e == [s EXCEPT !.tx = <<>>, !.txbufe = TRUE] IN
        Unsched(IF fie THEN Raise(e, "thri") ELSE e, "tx_send")
      RxReset(s) ==
        LET e == [s EXCEPT !.rx = <<>>, !.rdrdy = FALSE] IN
        uart_clear_int(uart_clear_int(e, "rdi"), "cti")
      r == IF rtx \/ change THEN TxReset(t) ELSE t
  IN  Cpu /\ u' = IF rrx \/ change THEN RxReset(r) ELSE r

WriteIer(v) ==
  Cpu /\ ~u.dlab /\ u' = uart_next_int([u EXCEPT !.ier = v])

WriteLcr(sbc, dlab) ==
  LET start == sbc /\ ~u.sbc /\ ~u.txsere
      stop == ~sbc /\ u.sbc /\ ~u.txsere
      t == IF start THEN AddNow(Unsched(u, "char_clock"), "send_break")
           ELSE IF stop THEN Unsched(AddNow(u, "tx_send"), "char_clock")
           ELSE u
  IN  Cpu /\ u' = [t EXCEPT !.sbc = sbc, !.dlab = dlab,
                            !.clks = u.dll \/ u.dlh]

WriteMcr(v) == Cpu /\ u' = uart_loopback([u EXCEPT !.mcr = v])

(* uart_read_byte().                                                       *)
ReadRxbuf ==
  LET t == IF u.rx = <<>> THEN u ELSE [u EXCEPT !.rx = Tail(@)]
      r == uart_clear_int(uart_clear_int(t, "rdi"), "cti")
      more == [r EXCEPT !.rdrdy = TRUE, !.err = @ \/ r.rx[1].err]
  IN  /\ Cpu /\ ~u.dlab
      /\ u' = IF r.rx = <<>> THEN [r EXCEPT !.rdrdy = FALSE]
              ELSE uart_check_rdi(uart_check_rlsi(AddClks(more, "int_cti")))

ReadIir ==
  /\ Cpu
  /\ u' = IF u.iir = "thri" THEN uart_clear_int(u, "thri") ELSE u

ReadLsr == Cpu /\ u' = uart_clear_int([u EXCEPT !.err = FALSE], "rlsi")

ReadMsr ==
  /\ Cpu
  /\ u' = uart_loopback(
            uart_clear_int([u EXCEPT !.msr = {}, !.delta = {}], "msi"))

(* The simulation is reset.                                                *)
Reset == Cpu /\ u' = uart_reset(u.use)
-----------------------------------------------------------------------------
(* uart_vapi_cmd(): each command is one step.  "calls" holds the           *)
(* activations of the function: the outer one ("top") and those made by    *)
(* uart_recv_break_start() ("break"), which add the job uart_recv_break    *)
(* when the function returns.                                              *)
Call(s, who) == [s EXCEPT !.calls = <<who>> \o @]

Ret(s) ==
  LET t == [s EXCEPT !.calls = Tail(@)]
      r == IF Head(s.calls) = "break" THEN AddVapiClks(t, "recv_break") ELSE t
  IN  [r EXCEPT !.jobs = @ /\ (r.ready # <<>> \/ r.calls # <<>>)]

(* uart_recv_break_start() as a whole or up to the call it makes.          *)
uart_recv_break_start(s) ==
  LET t == BreakStart(s) IN
  IF t.buf # <<>> THEN Call(t, "break") ELSE AddVapiClks(t, "recv_break")

(* A character from a line with other settings, or another divisor, is     *)
(* received with an error.                                                 *)
VapiData(s, cmd) ==
  LET t == [s EXCEPT !.vclks = cmd.clks,
                     !.rxser = Rx(cmd.c, cmd.err \/ cmd.clks # s.clks)] IN
  Ret(IF s.recv_break THEN t
      ELSE AddClks([t EXCEPT !.receiveing = TRUE], "recv_char"))

VapiCmd ==
  /\ u.calls # <<>> /\ ~u.dead
  /\ IF u.buf = <<>> THEN u' = Ret(u)
     ELSE LET cmd == Head(u.buf)
              t == [u EXCEPT !.buf = Tail(@)]
          IN  CASE cmd.op = "data" -> u' = VapiData(t, cmd)
                [] cmd.op = "start" -> u' = uart_recv_break_start(t)
                [] cmd.op = "stop" -> u' = uart_recv_break_stop(t)
                [] cmd.op = "start_later" ->
                     u' = AddTimed(t, "recv_break_start")
                [] cmd.op = "stop_later" ->
                     u' = AddTimed(t, "recv_break_stop")

(* Commands 0x01 to 0x03 set the divisor, the line settings and the skew   *)
(* of the next characters: here they are part of the character.            *)
VapiCmds ==
  [op : {"data"}, c : Use(u).received, clks : BOOLEAN, err : BOOLEAN]
    \cup [op : {"start", "stop", "start_later", "stop_later"}]

(* The commands, characters and breaks on their way to the receiver.       *)
OnTheWay(s) ==
  Number(s, "recv_break") + Number(s, "recv_break_start")
    + Number(s, "recv_break_stop") + Number(s, "recv_char")
    + Len(s.buf)

(* uart_vapi_read(), from vapi_check() between an instruction and          *)
(* do_scheduler(); exit(1) when the circular buffer is full.               *)
VapiRead(cmd) ==
  LET t == [u EXCEPT !.buf = Append(@, cmd), !.jobs = FALSE] IN
  /\ Use(u).vapi /\ ~u.dead /\ u.calls = <<>> /\ (u.ready = <<>> \/ ~u.jobs)
  /\ OnTheWay(u) < MAX_RECV
  /\ u' = IF Len(t.buf) = VAPI_BUF THEN [t EXCEPT !.dead = TRUE]
          ELSE IF u.receiveing THEN t ELSE Call(t, "top")
-----------------------------------------------------------------------------
(* uart_check_char(): a character, nothing yet, or an error.               *)
CheckChar(s) ==
  {AddClks([s EXCEPT !.rxser = Rx(c, FALSE), !.receiveing = TRUE],
           "recv_char") : c \in Use(s).received}
    \cup {AddTimed(s, "check_char"), s}

(* What the job f may do.                                                  *)
RunFunc(s, f) ==
  CASE f = "char_clock" -> {uart_char_clock(s)}
    [] f = "send_break" -> {uart_send_break(s)}
    [] f = "tx_send" -> {uart_tx_send(s)}
    [] f = "int_cti" -> {Raise(s, "cti")}
    [] f = "recv_char" -> {uart_recv_char(s)}
    [] f = "recv_break" -> {uart_recv_break(s)}
    [] f = "recv_break_start" -> {uart_recv_break_start(s)}
    [] f = "recv_break_stop" -> {uart_recv_break_stop(s)}
    [] f = "check_char" -> CheckChar(s)
    [] f = "vapi_cmd" -> {Call(s, "top")}

(* do_scheduler(), which goes on ("jobs") as long as there is a ready job. *)
(* A timed job that is late runs before those added with 0 cycles.         *)
Scheduled(s) == [s EXCEPT !.jobs = s.ready # <<>> \/ s.calls # <<>>]

RunReady ==
  /\ ~u.dead /\ u.calls = <<>> /\ u.ready # <<>>
  /\ \E s \in RunFunc([u EXCEPT !.ready = Tail(@)], Head(u.ready)) :
       u' = Scheduled(s)

RunTimed(f) ==
  /\ ~u.dead /\ u.calls = <<>> /\ u.timed[f] > 0
  /\ \E s \in RunFunc([u EXCEPT !.timed[f] = @ - 1], f) : u' = Scheduled(s)

Next ==
  \/ \E z \in Use(u).dlabs : WriteDll(z) \/ WriteDlh(z)
  \/ \E c \in Use(u).sends : WriteTxbuf(c)
  \/ \E fie, rrx, rtx \in BOOLEAN, l \in Use(u).triggers : WriteFcr(fie, rrx, rtx, l)
  \/ \E v \in Use(u).iers : WriteIer(v)
  \/ \E sbc \in Use(u).sbcs, dlab \in {FALSE} \cup Use(u).dlabs : WriteLcr(sbc, dlab)
  \/ \E v \in Use(u).mcrs : WriteMcr(v)
  \/ ReadRxbuf \/ ReadIir \/ ReadLsr \/ ReadMsr
  \/ Reset
  \/ \E cmd \in VapiCmds : VapiRead(cmd)
  \/ VapiCmd
  \/ RunReady
  \/ \E f \in JobFuncs : RunTimed(f)

Spec == Init /\ [][Next]_u
-----------------------------------------------------------------------------
(* An interrupt that is pending and enabled asserts the line, and the line *)
(* is asserted exactly as long as IIR reports an interrupt: whatever the   *)
(* order in which interrupts arise, are cleared, enabled and disabled, no  *)
(* interrupt is lost.                                                      *)
InterruptReported ==
  /\ Enabled(u) # {} => u.irq
  /\ u.irq = (u.iir # "none")

(* The FIFOs never hold more than fifo_len characters, and LSR tells       *)
(* software the truth about them, across FIFO resets, changes of the mode, *)
(* breaks and overruns.                                                    *)
FifosSound ==
  /\ Len(u.tx) <= u.fifo_len /\ Len(u.rx) <= u.fifo_len
  /\ u.rdrdy = (u.rx # <<>>)
  /\ u.txbufe = (u.tx = <<>>)

(* Between two instructions the transmitter is either busy, with exactly   *)
(* one job that will end the character or the break it sends, or idle with *)
(* nothing to send: it neither stalls nor sends twice.                     *)
TransmitterRuns ==
  Cpu => LET n == Number(u, "char_clock") + Number(u, "send_break") IN
         IF u.txsere THEN n = 0 /\ u.tx = <<>> ELSE n = 1

(* The FIFOs and the jobs that fill and drain them agree, after every FIFO *)
(* reset, break and change of mode (uart_write_byte).                      *)
QueuesSound == FifosSound /\ TransmitterRuns

(* A character in the receive FIFO is never forgotten: as long as there is *)
(* one, the character timeout is running or its interrupt is pending, even *)
(* if the trigger level is never reached.                                  *)
RxNotForgotten ==
  u.rx # <<>> => "cti" \in u.ints \/ Number(u, "int_cti") = 1

(* The serial line that the transmitter stands for.                        *)
Tx == INSTANCE SerialTx WITH
  queue <- (IF u.txsere THEN <<>> ELSE <<u.txser>>) \o u.tx,
  busy <- ~u.txsere,
  wire <- u.wire

TxFull == Len(u.tx) >= u.fifo_len

(* The characters written to TXBUF are sent in order, none twice and none  *)
(* left out but for a break or a reset, except when software writes to a   *)
(* full FIFO: uart_write_byte() stores that character at the head, which   *)
(* is then the tail as well, so that it replaces the oldest character and  *)
(* overtakes the others.                                                   *)
TxInOrder ==
  /\ Tx!Init
  /\ [][Tx!Next \/ (TxFull /\ Tx!Misplace)]_(Tx!tvars)

(* uart_next_int(): "Raises the next highest priority interrupt".  IIR     *)
(* identifies the enabled pending interrupt of the highest priority.       *)
HighestPriority ==
  u.iir = CASE "rlsi" \in Enabled(u) -> "rlsi"
            [] "rlsi" \notin Enabled(u) /\ "rdi" \in Enabled(u) -> "rdi"
            [] {"rlsi", "rdi"} \cap Enabled(u) = {}
                 /\ "cti" \in Enabled(u) -> "cti"
            [] Enabled(u) \subseteq {"thri", "msi"}
                 /\ "thri" \in Enabled(u) -> "thri"
            [] Enabled(u) = {"msi"} -> "msi"
            [] OTHER -> "none"
=============================================================================
