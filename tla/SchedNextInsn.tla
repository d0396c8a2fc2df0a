--------------------------- MODULE SchedNextInsn ---------------------------
(***************************************************************************)
(* AbsSched with a history variable that follows the jobs queued with      *)
(* sched_next_insn() (tick_raise_except, reenter_int, print_insn_exec).    *)
(* Such a job is "new" until the next instruction boundary and "owed" from *)
(* then on; it stops being either when do_scheduler() calls it.            *)
(***************************************************************************)
EXTENDS AbsSched

CONSTANT NextJobs    \* the members of Jobs queued with sched_next_insn() only

VARIABLE waiting

nvars == <<avars, waiting>>

NInit == Init /\ waiting = [f \in NextJobs |-> "no"]

NNextInsn(f) ==
  /\ waiting[f] = "no"
  /\ NextInsn(f)
  /\ waiting' = [waiting EXCEPT ![f] = "new"]

NEndInsn(c) ==
  /\ EndInsn(c)
  /\ waiting' = [f \in NextJobs |->
                   IF waiting[f] = "new" THEN "owed" ELSE waiting[f]]

NPop ==
  /\ Pop
  /\ waiting' = [f \in NextJobs |->
                   IF running' = f THEN "no" ELSE waiting[f]]

NNext ==
  \/ \E f \in NextJobs : NNextInsn(f)
  \/ \E f \in Jobs \ NextJobs, t \in Delays : Add(f, t) /\ UNCHANGED waiting
  \/ \E c \in Cycles : NEndInsn(c)
  \/ NPop
  \/ Rearm(Guard, TIME_MAX) /\ UNCHANGED waiting
  \/ Rearm(CheckInt, CHECK_INT_TIME) /\ UNCHANGED waiting
  \/ Return /\ UNCHANGED waiting

NSpec == NInit /\ [][NNext]_nvars

(* "Schedules the next job so that it will run after the next instruction" *)
(* (sched.c, above sched_next_insn): once an instruction has ended, no job *)
(* queued that way before it is still waiting when the next one starts.    *)
RunsAfterNextInsn == mode = "insn" => \A f \in NextJobs : waiting[f] # "owed"
=============================================================================
