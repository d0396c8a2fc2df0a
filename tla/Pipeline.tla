----------------------------- MODULE Pipeline -----------------------------
(***************************************************************************)
(* The program counters of the simulated CPU (or32/execute.c, branches of  *)
(* insnset.c, the EPCR cases of except.c): pc, pcnext, pc_delay,           *)
(* delay_insn and next_delay_insn implement branches with a delay slot,    *)
(* and an exception may arrive between any two instructions or in the      *)
(* middle of one.                                                          *)
(*                                                                         *)
(* A program is a function from addresses (in instructions, not bytes) to  *)
(* instructions.  An exception handler is an l.rfe at VEC, the vectors'    *)
(* only address: what a handler does to its own registers is left out, so  *)
(* it returns to where EPCR points, and it causes no exception itself.     *)
(***************************************************************************)
EXTENDS Integers

CONSTANTS
  LAST,     \* programs occupy the addresses 0..LAST
  Sys       \* l.sys may stand in a delay slot

ASSUME PipelineAssumption == LAST \in Nat \ {0} /\ Sys \in BOOLEAN

Addr == 0..LAST
VEC == LAST + 10            \* the vector, away from the program

Insns == [op : {"alu", "sys"}, to : {0}]
           \cup [op : {"branch"}, to : 0..(LAST - 1)]

(* Programs end with an endless loop, a conditional branch to itself whose *)
(* delay slot is at LAST.  A branch in a delay slot has no defined meaning *)
(* in the architecture; l.j with offset 0 ends the simulation and is not   *)
(* an instruction of the programs.                                         *)
Programs ==
  {p \in [Addr -> Insns] :
     /\ p[LAST - 1] = [op |-> "branch", to |-> LAST - 1]
     /\ p[LAST].op = "alu"
     /\ \A a \in 0..(LAST - 1) :
          p[a].op = "branch" =>
            /\ p[a + 1].op # "branch"
            /\ p[a + 1].op = "sys" => Sys}

VARIABLES
  prog,         \* the program
  pc,           \* cpu_state.pc: the instruction cpu_clock() executes next
  pcnext,
  pc_delay,     \* cpu_state.pc_delay: target of the branch just executed
  delay_insn,   \* cpu_state.delay_insn: pc is in a delay slot
  epcr,         \* SPR_EPCR_BASE
  iee,          \* SR[IEE], SR[TEE]
  esr,          \* the same bits of SPR_ESR_BASE
  delivered,    \* do_scheduler() has delivered an interrupt since the last
                \* instruction
  nested        \* history: do_scheduler() has delivered two without an
                \* instruction in between

excvars == <<epcr, iee, esr>>
history == <<delivered, nested>>
vars == <<prog, pc, pcnext, pc_delay, delay_insn, excvars, history>>

Init ==
  /\ prog \in Programs
  /\ pc = 0 /\ pcnext = 1
  /\ pc_delay = 0
  /\ delay_insn = FALSE
  /\ epcr = 0
  /\ iee = TRUE /\ esr = FALSE
  /\ delivered = FALSE /\ nested = FALSE

InHandler == pc = VEC

(* update_pc(), after an instruction that has left pcnext at n and         *)
(* pc_delay at t, and has set next_delay_insn if nd.                       *)
update_pc(n, t, nd) ==
  /\ delay_insn' = nd
  /\ pc' = n
  /\ pcnext' = IF nd THEN t ELSE n + 1
  /\ pc_delay' = t
  /\ delivered' = FALSE
  /\ UNCHANGED nested

(* except_handle(): EPCR is e, SR is saved in ESR and interrupts are off.  *)
except_handle(e) ==
  /\ epcr' = e
  /\ esr' = iee
  /\ iee' = FALSE

(* An instruction without effect on the program counters.                  *)
ExecAlu ==
  /\ ~InHandler
  /\ prog[pc].op = "alu"
  /\ update_pc(pcnext, pc_delay, FALSE)
  /\ UNCHANGED <<prog, excvars>>

(* l.j, l.jal, l.bf and l.bnf that branch, l.jr and l.jalr.                *)
ExecBranch ==
  /\ ~InHandler
  /\ prog[pc].op = "branch"
  /\ update_pc(pcnext, prog[pc].to, TRUE)
  /\ UNCHANGED <<prog, excvars>>

(* l.bf and l.bnf that do not branch: the delay slot is an ordinary        *)
(* instruction.                                                            *)
ExecNotTaken ==
  /\ ~InHandler
  /\ prog[pc].op = "branch" /\ pc # LAST - 1
  /\ update_pc(pcnext, pc_delay, FALSE)
  /\ UNCHANGED <<prog, excvars>>

(* An exception inside an instruction, from its fetch or its data access:  *)
(* EPCR is the instruction itself or the branch in front of it.            *)
Slot == IF delay_insn THEN 1 ELSE 0

Fault ==
  /\ ~InHandler
  /\ except_handle(pc - Slot)
  /\ update_pc(VEC, pc_delay, FALSE)
  /\ UNCHANGED prog

(* l.sys: EPCR is (pc + 4), or (pc + 4) - 4 in a delay slot.               *)
ExecSys ==
  /\ ~InHandler
  /\ prog[pc].op = "sys"
  /\ except_handle((pc + 1) - Slot)
  /\ update_pc(VEC, pc_delay, FALSE)
  /\ UNCHANGED prog

(* EXCEPT_TICK and EXCEPT_INT come from do_scheduler(), between two        *)
(* instructions: pc is the instruction that has not been executed, and is  *)
(* overwritten at once.  delay_insn is cleared; the next update_pc() would *)
(* only do so after the first instruction of the handler.  SR[IEE] is      *)
(* tested when pic_rep_int() is queued, not when it runs: when two are     *)
(* queued, or one behind a tick, the same do_scheduler() delivers both.    *)
InterruptKeepsSlot ==   \* mutant: delay_insn is not taken off EPCR
  /\ iee \/ delivered
  /\ except_handle(pc)
  /\ pc' = VEC
  /\ pcnext' = VEC + 1
  /\ delay_insn' = FALSE
  /\ delivered' = TRUE
  /\ nested' = (nested \/ delivered)
  /\ UNCHANGED <<prog, pc_delay>>

Interrupt ==
  /\ iee \/ delivered
  /\ except_handle(pc - Slot)
  /\ pc' = VEC
  /\ pcnext' = VEC + 1
  /\ delay_insn' = FALSE
  /\ delivered' = TRUE
  /\ nested' = (nested \/ delivered)
  /\ UNCHANGED <<prog, pc_delay>>

(* l.rfe: pcnext is EPCR, SR is ESR.                                       *)
ExecRfeNoSr ==   \* mutant: SR is not restored
  /\ InHandler
  /\ update_pc(epcr, pc_delay, FALSE)
  /\ UNCHANGED <<prog, excvars>>

ExecRfe ==
  /\ InHandler
  /\ iee' = esr
  /\ update_pc(epcr, pc_delay, FALSE)
  /\ UNCHANGED <<prog, epcr, esr>>

Next ==
  \/ ExecAlu \/ ExecBranch \/ ExecNotTaken \/ ExecSys \/ Fault
  \/ Interrupt \/ ExecRfe

Spec == Init /\ [][Next]_vars
-----------------------------------------------------------------------------
TypeOK ==
  /\ prog \in Programs
  /\ pc \in Addr \cup {VEC}
  /\ pcnext \in Addr \cup {LAST + 1, VEC + 1}
  /\ pc_delay \in Addr
  /\ delay_insn \in BOOLEAN
  /\ epcr \in Addr \cup {VEC}
  /\ esr \in BOOLEAN /\ delivered \in BOOLEAN /\ nested \in BOOLEAN
  /\ iee <=> ~InHandler

(* The program as the programmer sees it: exceptions do not exist, "at" is *)
(* the instruction to execute next and "target" the branch that is still   *)
(* to be taken after it.                                                   *)
Program == INSTANCE SequentialIsa WITH
  at <- IF InHandler THEN epcr ELSE pc,
  target <- IF delay_insn THEN pcnext ELSE -1

(* Interrupts, faults and system calls are invisible to the program: every *)
(* instruction of it is executed in order, and each branch reaches its     *)
(* target after its delay slot, wherever the exceptions fall.  (A branch   *)
(* whose delay slot was interrupted is executed again.)  This holds until  *)
(* one do_scheduler() delivers two interrupts.  The second overwrites EPCR *)
(* and ESR with the vector and disabled interrupts: from then on l.rfe     *)
(* leads back to the vector, and the program is never executed again.      *)
ExceptionsInvisible ==
  /\ Program!Init
  /\ [][IF nested' THEN InHandler' ELSE Program!Step]_vars

(* except.c: for l.sys "EPCR is loaded with address of next                *)
(* not-yet-executed instruction".                                          *)
SysReturnsToNext ==
  [][ (~InHandler /\ prog[pc].op = "sys" /\ pc' = VEC /\ epcr' # pc - Slot)
        => epcr' = pcnext ]_vars
=============================================================================
