-------------------------------- MODULE Cpu --------------------------------
(***************************************************************************)
(* The simulated processor between two instructions: instructions and      *)
(* peripherals change the PIC, the tick timer and SR, the main loop lets   *)
(* the cycles of the instruction pass, and do_scheduler() runs the jobs    *)
(* that deliver interrupts.  Each instruction, each round of the main loop *)
(* and each job is one step: the simulator has one thread.                 *)
(*                                                                         *)
(* A peripheral is represented by an interrupt line: it is started by a    *)
(* store, works for some cycles as a job of the scheduler (the job's name  *)
(* is the line) and then reports an interrupt; the access of one of its    *)
(* registers may also report or clear the interrupt at once.  sched_guard  *)
(* (module Sched) is never due and is left out.                            *)
(***************************************************************************)
EXTENDS Pic, Tick, FiniteSets

CONSTANTS
  Delays,           \* cycles a peripheral may work
  Cycles,           \* cycles an instruction may take
  CHECK_INT_TIME,   \* period of check_int
  PMEnabled,        \* the bits of config.pm.enabled ({0} when it is 1)
  TtmrValues,       \* the values software writes to TTMR
  TtcrValues,       \* the values software writes to TTCR
  ExtInts,          \* sets of lines that or1ksim_interrupt(), _set() or
                    \* _clear() may ask for before a round of or1ksim_run()
  Pmrs              \* the values software writes to PMR

(* The jobs the scheduler is given: a peripheral's, the timer's and those  *)
(* of the PIC and the command line.                                        *)
JobFuncs == Lines \cup TickJobs \cup {"pic_rep_int", "check_int"}

(* What TTMR can hold: mtspr() cuts TP to its field.                       *)
TtmrWords ==
  [m : TickModes, ie : BOOLEAN, ip : BOOLEAN, tp : 0..(TPMOD - 1)]

ASSUME CpuAssumption ==
  /\ IsFiniteSet(Lines)
  /\ Lines \cap (TickJobs \cup {"pic_rep_int", "check_int"}) = {}
  /\ Delays \subseteq Nat
  /\ Cycles \subseteq Nat \ {0}
  /\ CHECK_INT_TIME \in Nat \ {0}
  /\ TtmrValues \subseteq {v \in TtmrWords : ~v.ip}
  /\ TtcrValues \subseteq 0..(REGMOD - 1)
  /\ ExtInts \subseteq SUBSET Lines
  /\ Pmrs \subseteq SUBSET PmrBits

vars == <<agenda, mode, sr, esr, pc, epcr, picmr, picsr, pmr,
          edge_trigger, soft, ttmr, ttcr, counting>>

picvars == <<picmr, picsr, pmr, edge_trigger, soft>>
excvars == <<sr, esr, pc, epcr>>

SRs == [iee : BOOLEAN, tee : BOOLEAN]

Init ==
  /\ agenda = <<Job("check_int", 1)>>
  /\ mode = "insn"
  /\ sr = NoInts /\ esr = NoInts
  /\ pc = "reset" /\ epcr = "prog"
  /\ picmr = NmiLines /\ picsr = {} /\ pmr = {} /\ soft = {}
  /\ edge_trigger \in EdgeTriggers
  /\ ttmr = Ttmr("off", FALSE, 0) /\ ttcr = 0 /\ counting = FALSE
-----------------------------------------------------------------------------
(* exec_main()'s test of the PMR bits, a bitwise "and" of the value of the *)
(* configuration parameter with the bits.  A round of the main loop that   *)
(* skips cpu_clock() lets no cycles pass and changes nothing.              *)
Dozing == PMEnabled \cap (pmr \cap PmrBits) # {}

(* A write to SR.  When it enables interrupts, pic_ints_en() looks at all  *)
(* that are pending.                                                       *)
SetSr(v) ==
  /\ sr' = v
  /\ agenda' = IF v.iee /\ ~sr.iee THEN pic_ints_en(agenda, picmr, picsr)
               ELSE agenda
  /\ soft' = IF v.iee /\ ~sr.iee THEN {} ELSE soft
  /\ UNCHANGED <<picmr, picsr, pmr, edge_trigger>>

(* One instruction.                                                        *)
Insn == mode = "insn" /\ ~Dozing /\ mode' = "end"

(* Anything that leaves the interrupt system alone; the reset code and a   *)
(* handler may go on to ordinary code.                                     *)
InsnOther ==
  /\ Insn
  /\ pc' \in {pc, "prog"}
  /\ UNCHANGED <<agenda, sr, esr, epcr, picvars, tickvars>>

InsnMtsprSr(v) ==
  /\ Insn
  /\ SetSr(v)
  /\ UNCHANGED <<esr, pc, epcr, tickvars>>

(* l.rfe: mtspr(SPR_SR, ESR) after pcnext is set from EPCR.                *)
InsnRfe ==
  /\ Insn
  /\ pc' = epcr
  /\ SetSr(esr)
  /\ UNCHANGED <<esr, epcr, tickvars>>

InsnSys ==
  /\ Insn
  /\ except_handle("syscall")
  /\ UNCHANGED <<agenda, picvars, tickvars>>

InsnMtsprPicmr(mask) ==
  Insn /\ MtsprPicmr(mask) /\ UNCHANGED <<excvars, tickvars>>

InsnMtsprPicsr(status) ==
  Insn /\ MtsprPicsr(status) /\ UNCHANGED <<excvars, tickvars>>

InsnMtsprTtmr(v) ==
  Insn /\ MtsprTtmr(v) /\ UNCHANGED <<excvars, picvars>>

InsnMtsprTtcr(v) ==
  Insn /\ MtsprTtcr(v) /\ UNCHANGED <<excvars, picvars>>

(* PMR[SUME] ends the simulation and is left out.                          *)
InsnMtsprPmr(v) ==
  /\ Insn
  /\ pmr' = v
  /\ UNCHANGED <<agenda, excvars, picmr, picsr, edge_trigger, soft, tickvars>>

(* A store starts a peripheral that is idle.                               *)
InsnStart(line, d) ==
  /\ Insn
  /\ ~Queued(agenda, line)
  /\ agenda' = AddJob(agenda, line, d)
  /\ UNCHANGED <<excvars, picvars, tickvars>>

(* A load or store that makes a peripheral report its interrupt at once,   *)
(* or that clears it.                                                      *)
InsnReport(line) ==
  Insn /\ report_interrupt(agenda, line) /\ UNCHANGED <<excvars, tickvars>>

InsnClear(line) ==
  Insn /\ clear_interrupt(line) /\ UNCHANGED <<agenda, excvars, tickvars>>
-----------------------------------------------------------------------------
(* do_scheduler() runs job f and goes on while the front job is due.       *)
RunJob(f) == mode = "sched" /\ agenda[1].func = f

Continue == mode' = IF Expired(agenda') THEN "sched" ELSE "insn"

(* The rest of the round: in the library the interrupts the caller has     *)
(* asked for are reported, then those it has asked to clear (which is only *)
(* possible with level triggering) are cleared; then the cycles of the     *)
(* instruction pass.                                                       *)
EndInsnNoWrap(c, set, clr) ==   \* mutant: TTCR is not cut to a register
  /\ mode = "end"
  /\ agenda' = Elapse(agenda, c)
  /\ ttcr' = IF counting THEN ttcr + c ELSE ttcr
  /\ UNCHANGED <<excvars, picvars, ttmr, counting>>
  /\ Continue

EndInsn(c, set, clr) ==
  LET new == {l \in set \ picsr : l \in picmr /\ sr.iee}
      q == AddJobs(agenda, "pic_rep_int", 0, Cardinality(new))
  IN
  /\ mode = "end" /\ (edge_trigger => clr = {})
  /\ picsr' = (picsr \cup set) \ clr
  /\ pmr' = IF set # {} THEN pmr \ PmrBits ELSE pmr
  /\ agenda' = Elapse(q, c)
  /\ ttcr' = IF counting THEN (ttcr + c) % REGMOD ELSE ttcr
  /\ soft' = soft \ clr
  /\ UNCHANGED <<excvars, picmr, edge_trigger, ttmr, counting>>
  /\ Continue

JobPicRepInt ==
  /\ RunJob("pic_rep_int")
  /\ agenda' = Tail(agenda)
  /\ pic_rep_int
  /\ UNCHANGED <<picvars, tickvars>>
  /\ Continue

JobTickRaise ==
  /\ RunJob("tick_raise_except")
  /\ tick_raise_except(Tail(agenda))
  /\ UNCHANGED picvars
  /\ Continue

JobTickRestart ==
  /\ RunJob("tick_restart")
  /\ tick_restart(Tail(agenda))
  /\ UNCHANGED <<excvars, picvars>>
  /\ Continue

JobTickOneShot ==
  /\ RunJob("tick_one_shot")
  /\ tick_one_shot(Tail(agenda))
  /\ UNCHANGED <<excvars, picvars>>
  /\ Continue

JobDevice(line) ==
  /\ RunJob(line)
  /\ report_interrupt(Tail(agenda), line)
  /\ UNCHANGED <<excvars, tickvars>>
  /\ Continue

JobCheckInt ==
  /\ RunJob("check_int")
  /\ agenda' = AddJob(Tail(agenda), "check_int", CHECK_INT_TIME)
  /\ UNCHANGED <<excvars, picvars, tickvars>>
  /\ Continue

(* The user types "reset" at the prompt that check_int() opens: sim_reset()*)
(* empties the queue first; check_int() then adds itself a second time.    *)
JobCheckIntReset ==
  /\ RunJob("check_int")
  /\ agenda' = AddJob(<<Job("check_int", 1)>>, "check_int", CHECK_INT_TIME)
  /\ tick_reset
  /\ pmr' = {}
  /\ pic_reset
  /\ except_handle("reset")
  /\ Continue

Next ==
  \/ InsnOther \/ InsnRfe \/ InsnSys
  \/ \E v \in SRs : InsnMtsprSr(v)
  \/ \E s \in SUBSET Lines : InsnMtsprPicmr(s)
  \/ \E s \in SUBSET Lines : InsnMtsprPicsr(s)
  \/ \E v \in TtmrValues : InsnMtsprTtmr(v)
  \/ \E v \in TtcrValues : InsnMtsprTtcr(v)
  \/ \E v \in Pmrs : InsnMtsprPmr(v)
  \/ \E l \in Lines, d \in Delays : InsnStart(l, d)
  \/ \E l \in Lines : InsnReport(l) \/ InsnClear(l)
  \/ \E c \in Cycles, set, clr \in ExtInts : EndInsn(c, set, clr)
  \/ JobPicRepInt \/ JobTickRaise \/ JobTickRestart \/ JobTickOneShot
  \/ \E l \in Lines : JobDevice(l)
  \/ JobCheckInt \/ JobCheckIntReset

Spec == Init /\ [][Next]_vars

(* The simulator's thread never stops while it has a step to take.         *)
FairSpec == Spec /\ WF_vars(Next)
-----------------------------------------------------------------------------
TypeOK ==
  /\ agenda \in Seq([func : JobFuncs, due : Int])
  /\ mode \in {"insn", "end", "sched"}
  /\ sr \in SRs /\ esr \in SRs /\ pc \in Codes /\ epcr \in Codes
  /\ picmr \subseteq Lines /\ picsr \subseteq Lines /\ soft \subseteq picsr
  /\ pmr \subseteq PmrBits /\ edge_trigger \in BOOLEAN
  /\ ttmr \in TtmrWords
  /\ ttcr \in 0..(REGMOD - 1) /\ counting \in BOOLEAN

(* No interrupt waits: when the next instruction starts, an interrupt that *)
(* is pending, unmasked and enabled has already been delivered, whichever  *)
(* of report_interrupt(), mtspr(SR), mtspr(PICMR) and l.rfe came last.     *)
(* The one exception is a line whose bit software itself has set in PICSR: *)
(* mtspr() does not call pic_ints_en(), and report_interrupt() ignores a   *)
(* line that is already pending, so that this line, and no other, waits    *)
(* for the next write to PICMR or enabling of SR[IEE].                     *)
PreciseDelivery ==
  mode = "insn" => ~(sr.iee /\ (picsr \ soft) \cap picmr # {})

(* except_handle(): "Disable interrupts."  An external interrupt is taken  *)
(* only while SR[IEE] is set; otherwise it overwrites the EPCR and ESR of  *)
(* the exception that has just been taken.                                 *)
IntOnlyWhenEnabled ==
  [][ (mode = "sched" /\ pc' = "int" /\ <<pc, epcr, esr>>' # <<pc, epcr, esr>>)
        => sr.iee ]_vars

(* The timer jobs in the queue belong to the mode in TTMR: no job of an    *)
(* earlier mode survives a write, none is queued twice, and a pending tick *)
(* keeps its job until software clears TTMR[IP].                           *)
TickJobsMatch ==
  LET n(f) == Cardinality(Where(agenda, f)) IN
  /\ n("tick_restart") = IF ttmr.m = "RT" THEN 1 ELSE 0
  /\ n("tick_one_shot") = IF ttmr.m = "SR" /\ counting THEN 1 ELSE 0
  /\ n("tick_raise_except") <= IF ttmr.ie THEN 1 ELSE 0
  /\ ttmr.ip => n("tick_raise_except") = 1

(* Between instructions the tick exception is queued for the cycle in      *)
(* which TTCR will match TP, as long as the timer counts and the tick is   *)
(* enabled and not yet pending.                                            *)
TickOnTime ==
  (mode = "insn" /\ ttmr.ie /\ ~ttmr.ip /\ counting) =>
    \E i \in DOMAIN agenda :
      /\ agenda[i].func = "tick_raise_except"
      /\ (ttcr + agenda[i].due) % TPMOD = ttmr.tp

(* Whatever software wrote to TTMR and TTCR before (sched_timer_job), the  *)
(* jobs of the timer are those of its mode and due when it matches.        *)
TickScheduled == TickJobsMatch /\ TickOnTime

(* A tick that is pending while SR[TEE] is set is taken, unless software   *)
(* clears it, disables it or resets the timer first.                       *)
TickTaken ==
  (ttmr.ip /\ sr.tee) ~> (pc = "tick" \/ ~ttmr.ip \/ ~sr.tee)

(* tick_restart() runs and will queue itself for the same cycle again.     *)
RestartsAtOnce ==
  ttmr.m = "RT" /\ ttmr.tp = 0 /\ RunJob("tick_restart")

(* do_scheduler() comes to an end, except after software has written a     *)
(* TTMR in restart mode with TP = 0: then tick_restart() adds itself with  *)
(* 0 cycles in front of everything else that is due, for ever.             *)
SchedulerReturns == (mode = "sched") ~> (mode = "insn" \/ RestartsAtOnce)
=============================================================================
