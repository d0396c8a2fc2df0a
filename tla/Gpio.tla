-------------------------------- MODULE Gpio --------------------------------
(***************************************************************************)
(* The general purpose I/O device (peripheral/gpio.c), with one pin.       *)
(* Writes go to the registers "next", which become the visible registers   *)
(* "curr" at the next clock: the system clock, or an edge of the external  *)
(* clock.  The verification API (VAPI) drives the inputs and is told the   *)
(* outputs.                                                                *)
(*                                                                         *)
(* History: "seen" is the last output that was sent, "pending" says that   *)
(* an input event has not been acknowledged by a write of 0 to INTS.       *)
(***************************************************************************)
EXTENDS Device

CONSTANTS
  GpioUses,     \* sets of registers; a behaviour uses the ones of one set
  GPIO_MAX_INT  \* bound: entries of gpio_do_int in the scheduler

GpioZero == [r \in {"in", "out", "oe", "inte", "ptrig", "aux", "INTE", "ECLK",
                    "NEC", "INTS", "ints", "clk"} |-> FALSE]

(* gpio_sec_start() clears the registers; gpio_reset() does not.           *)
GpioInit ==
  \E u \in GpioUses :
    dev = [kind |-> "gpio", uses |-> u, curr |-> GpioZero, next |-> GpioZero,
           auxin |-> FALSE, irq |-> FALSE, doint |-> 0, seen |-> FALSE,
           pending |-> FALSE]
-----------------------------------------------------------------------------
(* Calculate new inputs and outputs.                                       *)
Settle(n, auxin) ==
  [n EXCEPT !.in = @ /\ ~n.oe,
            !.out = (IF n.aux THEN auxin ELSE @) /\ n.oe]

Relevant(c, n) == n.in # c.in /\ n.INTE /\ n.inte /\ n.ptrig = n.in

SendOut(s, n) == IF n.out # s.curr.out THEN n.out ELSE s.seen

gpio_device_clock(s) ==
  LET n == Settle(s.next, s.auxin)
      event == Relevant(s.curr, n)
      m == [n EXCEPT !.INTS = @ \/ event, !.ints = @ \/ event]
  IN  [s EXCEPT !.next = m, !.curr = m, !.seen = SendOut(s, n),
                !.doint = @ + Bit(event), !.pending = @ \/ event]

gpio_external_clock(s, value) ==
  LET t == [s EXCEPT !.next.clk = value]
  IN  IF s.curr.ECLK /\ value # s.curr.clk /\ value # s.curr.NEC
      THEN gpio_device_clock(t) ELSE t

WriteIntsAck(s, v) == [s EXCEPT !.irq = FALSE, !.next.ints = v,
                                !.pending = @ /\ v]
WriteInts(s, v) ==
  [s EXCEPT !.irq = @ /\ ~(s.next.ints /\ ~v), !.next.ints = v,
            !.pending = @ /\ v]
-----------------------------------------------------------------------------
GpioWrite ==
  /\ Is("gpio")
  /\ \E r \in dev.uses \ {"in", "auxin", "clk"}, v \in BOOLEAN :
       dev' = IF r = "ints" THEN WriteInts(dev, v)
              ELSE [dev EXCEPT !.next[r] = v]

(* gpio_vapi_read(): VAPI may write most registers too.                    *)
gpio_vapi_read ==
  /\ Is("gpio")
  /\ \E r \in dev.uses \ {"out", "ints"}, v \in BOOLEAN :
       dev' = CASE r = "auxin" -> [dev EXCEPT !.auxin = v]
                [] r = "clk"   -> gpio_external_clock(dev, v)
                [] OTHER       -> [dev EXCEPT !.next[r] = v]
  /\ dev'.doint <= GPIO_MAX_INT

gpio_clock ==
  /\ Is("gpio") /\ ~dev.curr.ECLK
  /\ dev' = gpio_device_clock(dev)
  /\ dev'.doint <= GPIO_MAX_INT

gpio_do_int ==
  /\ Is("gpio") /\ dev.doint > 0
  /\ dev' = [dev EXCEPT !.irq = TRUE, !.doint = @ - 1]

(* gpio_reset() after the scheduler and the PIC have been reset.           *)
GpioReset ==
  /\ Is("gpio")
  /\ dev' = [dev EXCEPT !.irq = FALSE, !.doint = 0, !.pending = FALSE]

GpioNext ==
  GpioWrite \/ gpio_vapi_read \/ gpio_clock \/ gpio_do_int \/ GpioReset

GpioSpec == GpioInit /\ [][GpioNext]_dev
-----------------------------------------------------------------------------
(* An input event that software has not acknowledged keeps the interrupt   *)
(* line high, or the job that raises it is on its way, in every order of   *)
(* clocks, jobs, VAPI inputs and writes to INTS.                           *)
GpioReported == Is("gpio") /\ dev.pending => dev.irq \/ dev.doint > 0

(* What VAPI was told last is what the output register shows.              *)
GpioOutputSeen == Is("gpio") => dev.seen = dev.curr.out

(* The GPIO device, whose registers take effect at a later clock           *)
(* (gpio_device_clock), forgets neither an event nor an output.            *)
GpioSound == GpioReported /\ GpioOutputSeen
=============================================================================
