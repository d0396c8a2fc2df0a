------------------------------- MODULE MCUart -------------------------------
(* Model-checking instances of Uart: software that sends, with breaks and  *)
(* changes of the divisor; software that uses every interrupt, with        *)
(* loopback; and a UART whose receiver is driven by the verification API.  *)
EXTENDS Uart

CONSTANTS a, b

Sender ==
  [is16550 |-> TRUE, vapi |-> FALSE, received |-> {a}, sends |-> {a, b},
   iers |-> {{"rdi"}}, triggers |-> {1}, mcrs |-> {},
   sbcs |-> BOOLEAN, dlabs |-> BOOLEAN]

Interrupts ==
  [is16550 |-> TRUE, vapi |-> FALSE, received |-> {a}, sends |-> {a},
   iers |-> {{}, {"rlsi", "rdi", "thri", "msi"}}, triggers |-> {2},
   mcrs |-> {{}, {"loop", "rts"}}, sbcs |-> {FALSE}, dlabs |-> {TRUE}]

Commanded ==
  [is16550 |-> FALSE, vapi |-> TRUE, received |-> {a}, sends |-> {},
   iers |-> {{}}, triggers |-> {1}, mcrs |-> {},
   sbcs |-> {FALSE}, dlabs |-> {TRUE}]

AllUses ==
  [sender |-> Sender, interrupts |-> Interrupts, commanded |-> Commanded]
OneUse == [interrupts |-> Interrupts]
=============================================================================
