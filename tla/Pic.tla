-------------------------------- MODULE Pic --------------------------------
(***************************************************************************)
(* The programmable interrupt controller (pic/pic.c) and the PICMR/PICSR   *)
(* cases of mtspr().                                                       *)
(***************************************************************************)
EXTENDS CpuState

CONSTANTS
  Lines,         \* interrupt lines
  NmiLines,      \* lines the mask always lets through (config.pic.use_nmi)
  EdgeTriggers   \* the configurations of config.pic.edge_trigger

ASSUME PicAssumption == NmiLines \subseteq Lines /\ EdgeTriggers \subseteq BOOLEAN

VARIABLES
  picmr, picsr, pmr,
  edge_trigger,   \* config.pic.edge_trigger, set once for all
  soft            \* history: the lines that are pending only because
                  \* software has set their bits in PICSR, and that no
                  \* call of pic_ints_en() has looked at since

PmrBits == {4, 5}    \* SPR_PMR_DME, SPR_PMR_SME

pic_reset ==
  picmr' = NmiLines /\ picsr' = {} /\ soft' = {} /\ UNCHANGED edge_trigger

(* The job that delivers an interrupt.  It looks at PICSR only, neither at *)
(* the mask nor at SR[IEE].                                                *)
pic_rep_int == IF picsr # {} THEN except_handle("int") ELSE NoExcept

(* pic_ints_en(), with the mask and the status its callers have just set.  *)
pic_ints_en(q, mask, status) ==
  IF mask \cap status # {} THEN AddJob(q, "pic_rep_int", 0) ELSE q

(* report_interrupt(line) by a peripheral or by the library's caller, with *)
(* the queue q it finds.  A line that is already pending is ignored, but   *)
(* the power management bits are cleared in any case.                      *)
report_interrupt(q, line) ==
  /\ pmr' = pmr \ PmrBits
  /\ picsr' = picsr \cup {line}
  /\ agenda' = IF line \notin picsr /\ line \in picmr /\ sr.iee
               THEN AddJob(q, "pic_rep_int", 0) ELSE q
  /\ UNCHANGED <<picmr, edge_trigger, soft>>

(* clear_interrupt(line): a queued pic_rep_int stays queued.               *)
clear_interrupt(line) ==
  /\ picsr' = picsr \ {line} /\ soft' = soft \ {line}
  /\ UNCHANGED <<picmr, pmr, edge_trigger>>

(* mtspr(SPR_PICMR): interrupts that the new mask lets through are         *)
(* delivered if SR[IEE] is set.                                            *)
MtsprPicmrNoCheck(mask) ==   \* mutant: pic_ints_en() is not called
  /\ picmr' = mask \cup NmiLines
  /\ UNCHANGED <<agenda, picsr, pmr, edge_trigger, soft>>

MtsprPicmr(mask) ==
  /\ picmr' = mask \cup NmiLines
  /\ agenda' = IF sr.iee THEN pic_ints_en(agenda, picmr', picsr) ELSE agenda
  /\ soft' = IF sr.iee THEN {} ELSE soft
  /\ UNCHANGED <<picsr, pmr, edge_trigger>>

(* mtspr(SPR_PICSR): without effect for level triggered interrupts.  With  *)
(* edge triggering any value is kept, and pic_ints_en() is not called.     *)
MtsprPicsr(status) ==
  /\ picsr' = IF edge_trigger THEN status ELSE picsr
  /\ soft' = IF edge_trigger THEN status \ (picsr \ soft) ELSE soft
  /\ UNCHANGED <<picmr, agenda, pmr, edge_trigger>>
=============================================================================
