----------------------------- MODULE CpuState -----------------------------
(***************************************************************************)
(* The part of cpu_state, runtime and scheduler that the PIC, the tick     *)
(* timer, power management, the exceptions and the main loop share, and    *)
(* except_handle() (or1k/except.c), which all of them call.                *)
(*                                                                         *)
(* Register words whose bits matter are sets of bits (PICMR, PICSR, PMR)   *)
(* or records of fields (SR, TTMR).  The program counter is abstracted to  *)
(* the code it is in: "prog" for ordinary code, or the name of a vector.   *)
(***************************************************************************)
EXTENDS Agenda

VARIABLES
  agenda,    \* the scheduler's queue
  mode,      \* "insn": cpu_clock() is called next; "end": the rest of the
             \* round of the main loop; "sched": do_scheduler()'s loop
  sr,        \* SR[IEE] and SR[TEE]
  esr,       \* ESR
  pc,        \* the code that runs
  epcr       \* EPCR: the code the handler returns to

Vectors == {"reset", "int", "tick", "syscall"}
Codes == {"prog"} \cup Vectors

NoInts == [iee |-> FALSE, tee |-> FALSE]

(* except_handle(): the old SR goes to ESR, interrupts are disabled, the   *)
(* vector is the next code to run.  EPCR is irrelevant to a reset.  Debug  *)
(* stop on exceptions (DSR) is off.                                        *)
except_handle(e) ==
  /\ pc' = e
  /\ esr' = sr
  /\ sr' = NoInts
  /\ epcr' = IF e = "reset" THEN epcr ELSE pc

NoExcept == UNCHANGED <<sr, esr, pc, epcr>>
=============================================================================
