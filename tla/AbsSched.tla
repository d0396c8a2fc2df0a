----------------------------- MODULE AbsSched -----------------------------
(***************************************************************************)
(* What the scheduler of or1ksim promises: jobs run in the order of their  *)
(* deadlines, at the first instruction boundary that is not before the     *)
(* deadline.  The main loop (exec_main, or or1ksim_run in the library) is  *)
(* the only caller of do_scheduler(); job functions, instructions and the  *)
(* command line add and remove jobs.                                       *)
(*                                                                         *)
(* Every call of the scheduler is one step here.                           *)
(***************************************************************************)
EXTENDS Agenda

CONSTANTS
  Jobs,            \* job functions of peripherals, timer, PIC and CLI
  Guard,           \* sched_guard
  CheckInt,        \* check_int
  None,            \* no job function is running
  HEAP_SIZE,       \* SCHED_HEAP_SIZE: entries allocated by sched_init()
  TIME_MAX,        \* SCHED_TIME_MAX
  CHECK_INT_TIME,  \* period of check_int
  Delays,          \* the job_time values callers use
  Cycles           \* the cycles one instruction may take

VARIABLES
  agenda,   \* the queue: a sequence of [func, due]
  mode,     \* "insn": an instruction executes; "loop": do_scheduler() is
            \* about to take the front job; "call": a job function runs;
            \* "crash": a NULL pointer was dereferenced
  running   \* the job function do_scheduler() called last, None when it
            \* has done all it had to do

avars == <<agenda, mode, running>>

Modes == {"insn", "loop", "call", "crash"}

Init ==
  /\ agenda = AddJob(<<Job(Guard, TIME_MAX)>>, CheckInt, 1)
  /\ mode = "insn"
  /\ running = None

(* Code that may call the scheduler is executing: an instruction, or a job *)
(* function other than sched_guard, which only re-adds itself.             *)
Active == mode \in {"insn", "call"} /\ running # Guard

(* A job is added with t cycles to go; without a free entry sched_add()    *)
(* dereferences the NULL head of the free list.                            *)
DoAdd(f, t) ==
  IF Len(agenda) < HEAP_SIZE
  THEN agenda' = AddJob(agenda, f, t) /\ mode' = mode
  ELSE agenda' = agenda /\ mode' = "crash"

Add(f, t) == Active /\ DoAdd(f, t) /\ UNCHANGED running

NextInsn(f) == Active /\ DoAdd(f, NextInsnTime(agenda)) /\ UNCHANGED running

FindRemove(f) ==
  /\ Active
  /\ agenda' = RemoveJob(agenda, f)
  /\ UNCHANGED <<mode, running>>

(* sim_reset(): sched_reset() empties the queue and puts the guard back,   *)
(* then check_int is queued for the first cycle.                           *)
Reset ==
  /\ Active
  /\ agenda' = AddJob(<<Job(Guard, TIME_MAX)>>, CheckInt, 1)
  /\ UNCHANGED <<mode, running>>

(* The end of one round of the main loop: the cycles of the instruction    *)
(* are taken off the queue and do_scheduler() is entered if a job is due.  *)
EndInsn(c) ==
  /\ mode = "insn"
  /\ agenda' = Elapse(agenda, c)
  /\ mode' = IF Expired(agenda') THEN "loop" ELSE "insn"
  /\ UNCHANGED running

(* do_scheduler() unlinks the front job and calls it.  It writes the time  *)
(* of the job behind it first: a queue of one job is fatal.                *)
Pop ==
  /\ mode = "loop"
  /\ IF Len(agenda) > 1
     THEN /\ agenda' = Tail(agenda)
          /\ running' = agenda[1].func
          /\ mode' = "call"
     ELSE /\ mode' = "crash"
          /\ UNCHANGED <<agenda, running>>

(* sched_guard() and check_int() re-add themselves as their last act.      *)
Rearm(f, t) ==
  /\ mode = "call"
  /\ running = f
  /\ DoAdd(f, t)
  /\ running' = None

(* The job function returns; do_scheduler() goes on while the front job is *)
(* due.                                                                    *)
Return ==
  /\ mode = "call"
  /\ running \notin {Guard, CheckInt}
  /\ mode' = IF Expired(agenda) THEN "loop" ELSE "insn"
  /\ running' = None
  /\ UNCHANGED agenda

Next ==
  \/ \E f \in Jobs, t \in Delays : Add(f, t)
  \/ \E f \in Jobs : NextInsn(f)
  \/ \E f \in Jobs : FindRemove(f)
  \/ Reset
  \/ \E c \in Cycles : EndInsn(c)
  \/ Pop
  \/ Rearm(Guard, TIME_MAX)
  \/ Rearm(CheckInt, CHECK_INT_TIME)
  \/ Return

Spec == Init /\ [][Next]_avars
=============================================================================
