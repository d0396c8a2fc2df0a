------------------------------ MODULE Agenda ------------------------------
(***************************************************************************)
(* The scheduler's queue, seen as what it promises: a sequence of jobs,    *)
(* each with the number of cycles left until it is due, earliest first.    *)
(* support/sched.c stores the same queue as differences between           *)
(* neighbouring jobs; module Sched models that encoding and is shown to    *)
(* implement the operators below.  Modules that only use the scheduler     *)
(* (the interrupt controller, the tick timer, the CPU loop) use these      *)
(* operators directly.                                                     *)
(*                                                                         *)
(* A job is a record [func, due].  "func" stands for the pair of function  *)
(* pointer and parameter that sched_add() is given; "due" is zero when the *)
(* job should run now and negative when it is late.                        *)
(***************************************************************************)
EXTENDS Integers, Sequences, SequencesExt

Job(f, t) == [func |-> f, due |-> t]

(* Where sched_add()'s search stops: the first position whose job is due   *)
(* at t or later, or one past the end.  A new job therefore goes in FRONT  *)
(* of the jobs that are due at the same time.                              *)
InsertPos(q, t) ==
  CHOOSE p \in 1..(Len(q) + 1) :
    /\ \A i \in 1..(p - 1) : q[i].due < t
    /\ p <= Len(q) => q[p].due >= t

(* SCHED_ADD(f, _, t).  A negative time at the front of the queue is       *)
(* replaced by the time of the job it is put in front of.                  *)
AddJob(q, f, t) ==
  LET p == InsertPos(q, t)
      d == IF p = 1 /\ t < 0 THEN q[1].due ELSE t
  IN  InsertAt(q, p, Job(f, d))

(* n times SCHED_ADD(f, _, t) in a row, with t >= 0: each of the equal     *)
(* jobs goes in front of the one before it.                                *)
AddJobs(q, f, t, n) ==
  LET p == InsertPos(q, t)
  IN  SubSeq(q, 1, p - 1) \o [i \in 1..n |-> Job(f, t)]
        \o SubSeq(q, p, Len(q))

(* The positions of the queue that hold f.                                 *)
Where(q, f) == {i \in DOMAIN q : q[i].func = f}

(* SCHED_FIND_REMOVE(f, _): the first job with this function goes, the     *)
(* times of the others stay.                                               *)
RemoveJob(q, f) ==
  IF Where(q, f) = {} THEN q
  ELSE RemoveAt(q, CHOOSE i \in Where(q, f) : \A j \in Where(q, f) : i <= j)

(* sched_next_insn(f): one cycle from now, plus the lateness of the job at *)
(* the front of the queue if that job is late.                             *)
NextInsnTime(q) == IF q[1].due < 0 THEN 1 - q[1].due ELSE 1

(* One instruction took c cycles.                                          *)
Elapse(q, c) == [i \in DOMAIN q |-> Job(q[i].func, q[i].due - c)]

(* do_scheduler() has work to do.                                          *)
Expired(q) == q[1].due <= 0

Queued(q, f) == Where(q, f) # {}

Sorted(q) == \A i \in 1..(Len(q) - 1) : q[i].due <= q[i + 1].due
=============================================================================
