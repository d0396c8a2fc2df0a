------------------------------- MODULE Tick -------------------------------
(***************************************************************************)
(* The tick timer (tick/tick.c) and the TTMR/TTCR cases of mtspr().        *)
(*                                                                         *)
(* The code stores the cycle at which the timer started and computes TTCR  *)
(* from it; "ttcr" is what spr_read_ttcr() returns, which grows with the   *)
(* cycles of the main loop while "counting" (tick_counting) is set.  TTCR  *)
(* has a full word, of which the TP field of TTMR matches the lower part.  *)
(***************************************************************************)
EXTENDS CpuState

CONSTANTS
  TPMOD,      \* 2^28: the TP field
  REGMOD      \* 2^32: a register

ASSUME TickAssumption ==
  /\ TPMOD \in Nat \ {0} /\ REGMOD \in Nat \ {0}
  /\ REGMOD % TPMOD = 0

VARIABLES
  ttmr,       \* [m, ie, ip, tp]
  ttcr,
  counting

tickvars == <<ttmr, ttcr, counting>>

TickModes == {"off", "RT", "SR", "CR"}
TickJobs == {"tick_raise_except", "tick_restart", "tick_one_shot"}

Ttmr(m, ie, tp) == [m |-> m, ie |-> ie, ip |-> FALSE, tp |-> tp]

tick_reset == ttcr' = 0 /\ ttmr' = Ttmr("off", FALSE, 0) /\ counting' = FALSE

(* tick_raise_except(): IP is set and the job comes back after the next    *)
(* instruction, until a write to TTMR removes it.                          *)
RaiseOnlyOnce(q) ==   \* mutant: the job comes back only if it raised nothing
  /\ ttmr' = [ttmr EXCEPT !.ip = TRUE]
  /\ agenda' = IF sr.tee THEN q
               ELSE AddJob(q, "tick_raise_except", NextInsnTime(q))
  /\ IF sr.tee THEN except_handle("tick") ELSE NoExcept
  /\ UNCHANGED <<ttcr, counting>>

RaiseAtOnce(q) ==   \* mutant: SCHED_ADD with 0 for sched_next_insn()
  /\ ttmr' = [ttmr EXCEPT !.ip = TRUE]
  /\ agenda' = AddJob(q, "tick_raise_except", 0)
  /\ IF sr.tee THEN except_handle("tick") ELSE NoExcept
  /\ UNCHANGED <<ttcr, counting>>

tick_raise_except(q) ==
  /\ ttmr' = [ttmr EXCEPT !.ip = TRUE]
  /\ agenda' = AddJob(q, "tick_raise_except", NextInsnTime(q))
  /\ IF sr.tee THEN except_handle("tick") ELSE NoExcept
  /\ UNCHANGED <<ttcr, counting>>

tick_restart(q) ==
  /\ ttcr' = 0
  /\ agenda' = AddJob(q, "tick_restart", ttmr.tp)
  /\ UNCHANGED <<ttmr, counting>>

tick_one_shot(q) ==
  /\ ttcr' = ttmr.tp
  /\ counting' = FALSE
  /\ agenda' = q
  /\ UNCHANGED ttmr

(* sched_timer_job(): the queue after the jobs of the previous mode are    *)
(* removed and those of the new one are added.  old is the TTMR before the *)
(* write; new, c and cnt are the TTMR, the TTCR and tick_counting that the *)
(* caller has set.                                                         *)
CyclesUntil(tp, c) ==
  LET m == c % TPMOD IN
  IF tp >= m THEN tp - m ELSE tp + ((TPMOD - 1) - m) + 1

DroppedNewMode(old, new) ==   \* mutant: the jobs of the NEW mode are removed
  LET q1 == IF old.ie /\ ~new.ip
            THEN RemoveJob(agenda, "tick_raise_except") ELSE agenda
  IN  CASE new.m = "RT" -> RemoveJob(q1, "tick_restart")
        [] new.m = "SR" -> RemoveJob(q1, "tick_one_shot")
        [] OTHER -> q1

Dropped(old, new) ==
  LET q1 == IF old.ie /\ ~new.ip
            THEN RemoveJob(agenda, "tick_raise_except") ELSE agenda
  IN  CASE old.m = "RT" -> RemoveJob(q1, "tick_restart")
        [] old.m = "SR" -> RemoveJob(q1, "tick_one_shot")
        [] OTHER -> q1

sched_timer_job(old, new, c, cnt) ==
  LET q == Dropped(old, new)
      n == CyclesUntil(new.tp, c)
      Raise(r) == IF new.ie /\ ~new.ip
                  THEN AddJob(r, "tick_raise_except", n) ELSE r
  IN  CASE new.m = "off" -> IF n = 0 THEN Raise(q) ELSE q
        [] new.m = "RT" -> Raise(AddJob(q, "tick_restart", n))
        [] new.m = "SR" -> IF cnt THEN Raise(AddJob(q, "tick_one_shot", n))
                           ELSE q
        [] new.m = "CR" -> Raise(q)

(* mtspr(SPR_TTCR).                                                        *)
MtsprTtcr(v) ==
  /\ ttcr' = v
  /\ agenda' = sched_timer_job(ttmr, ttmr, v, counting)
  /\ UNCHANGED <<ttmr, counting>>

(* mtspr(SPR_TTMR): software cannot set IP, and a write always clears it.  *)
(* In continuous mode a counter that is equal to TP stops.                 *)
MtsprTtmr(new) ==
  /\ ttmr' = new
  /\ counting' = (new.m # "off" /\ ~(new.m = "CR" /\ ttcr = new.tp))
  /\ agenda' = sched_timer_job(ttmr, new, ttcr, counting')
  /\ UNCHANGED ttcr
=============================================================================
