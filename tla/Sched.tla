------------------------------- MODULE Sched -------------------------------
(***************************************************************************)
(* support/sched.c as it is written: a list of jobs in which each job      *)
(* holds the cycles between the job in front of it and itself, and a list  *)
(* of free entries.  The loops of sched_add() and sched_next_insn() take   *)
(* one step per entry, with the locals of the C functions in "frame".      *)
(*                                                                         *)
(* "due" is a history variable: the absolute time of every job of the      *)
(* queue as the callers understand it.  No step of the code reads it.  The *)
(* invariant DeltaEncoding says that the stored differences always add up  *)
(* to it, and the specification of AbsSched is implemented under the       *)
(* mapping that pairs each job with its "due".                             *)
(***************************************************************************)
EXTENDS Integers, Sequences, SequencesExt

CONSTANTS
  Jobs,            \* job functions of peripherals, timer, PIC and CLI
  Guard,           \* sched_guard
  CheckInt,        \* check_int
  None,            \* no job function is running
  HEAP_SIZE,       \* SCHED_HEAP_SIZE: entries allocated by sched_init()
  TIME_MAX,        \* SCHED_TIME_MAX
  CHECK_INT_TIME,  \* period of check_int
  Delays,          \* the job_time values callers use
  Cycles           \* the cycles one instruction may take

Funcs == Jobs \cup {Guard, CheckInt}

ASSUME ConstantsAssumption ==
  /\ Guard \notin Jobs /\ CheckInt \notin Jobs /\ Guard # CheckInt
  /\ None \notin Funcs
  /\ HEAP_SIZE \in Nat /\ HEAP_SIZE >= 2
  /\ TIME_MAX \in Nat
  /\ CHECK_INT_TIME \in 1..TIME_MAX
  /\ Delays \subseteq 0..TIME_MAX
  /\ Cycles \subseteq Nat

VARIABLES
  job_queue,   \* scheduler.job_queue: a sequence of [func, time]
  free,        \* the length of scheduler.free_job_queue
  mode,        \* as in AbsSched, or "add" / "next" inside sched_add() /
               \* sched_next_insn()
  running,     \* the job function do_scheduler() called last
  frame,       \* locals of the scheduler function being executed
  due          \* history: absolute times of the jobs of job_queue

vars == <<job_queue, free, mode, running, frame, due>>

Abs == INSTANCE AbsSched WITH
  agenda <- [i \in DOMAIN job_queue |->
               [func |-> job_queue[i].func, due |-> due[i]]],
  mode <- IF mode \in {"add", "next"} THEN frame.ret ELSE mode

Entry(f, t) == [func |-> f, time |-> t]

(* The locals of sched_add() (cur is a position, one past the end for      *)
(* NULL), the cycles local of sched_next_insn() (in alltime), and what the *)
(* caller does when the call returns: its mode, and the job function that  *)
(* is still running then (None after the last act of a job function).      *)
Frame(f, t, c, a, ret, after) ==
  [func |-> f, time |-> t, cur |-> c, alltime |-> a, ret |-> ret,
   after |-> after]

NoFrame == Frame(None, 0, 1, 0, "insn", None)

(* Linking entry e in front of position c, or at the end: the time of the  *)
(* entry behind it shrinks by e's.                                         *)
LinkNoRepair(q, c, e) == InsertAt(q, c, e)     \* mutant
Link(q, c, e) ==
  InsertAt([i \in DOMAIN q |->
              IF i = c THEN Entry(q[i].func, q[i].time - e.time) ELSE q[i]],
           c, e)

(* Unlinking position c: the entry behind it inherits its time.            *)
Unlink(q, c) ==
  RemoveAt([i \in DOMAIN q |->
              IF i = c + 1 THEN Entry(q[i].func, q[i].time + q[c].time)
              ELSE q[i]],
           c)

(* sched_init() or sched_reset() followed by sim_reset()'s SCHED_ADD of    *)
(* check_int: the entry before the guard takes 1 cycle off its time.       *)
FreshQueue == <<Entry(CheckInt, 1), Entry(Guard, TIME_MAX - 1)>>

Init ==
  /\ job_queue = FreshQueue
  /\ free = HEAP_SIZE - 2
  /\ mode = "insn"
  /\ running = None
  /\ frame = NoFrame
  /\ due = <<1, TIME_MAX>>

Active == mode \in {"insn", "call"} /\ running # Guard

(* sched_reset(): every entry returns to the free list, sched_guard()      *)
(* takes one back, sim_reset() adds check_int.                             *)
Reset ==
  /\ Active
  /\ job_queue' = FreshQueue
  /\ free' = free + Len(job_queue) - 2
  /\ due' = <<1, TIME_MAX>>
  /\ UNCHANGED <<mode, running, frame>>

(* Entering sched_add(): cur is the front job, alltime its time.           *)
EnterAdd(f, t, ret, after) ==
  /\ mode' = "add"
  /\ frame' = Frame(f, t, 1, job_queue[1].time, ret, after)
  /\ UNCHANGED <<job_queue, free, running, due>>

CallAdd(f, t) == Active /\ EnterAdd(f, t, mode, running)

(* sched_guard() with a non-empty queue, and the end of check_int().       *)
RearmForgotten(f, t) ==   \* mutant: the job does not come back
  /\ mode = "call"
  /\ running = f
  /\ running' = None
  /\ UNCHANGED <<job_queue, free, mode, frame, due>>

Rearm(f, t) ==
  /\ mode = "call"
  /\ running = f
  /\ EnterAdd(f, t, "call", None)

(* The condition of sched_add()'s loop; mutant: a job goes behind those    *)
(* that are due at the same time.                                          *)
SearchingPastTies ==
  frame.cur <= Len(job_queue) /\ frame.alltime <= frame.time
Searching == frame.cur <= Len(job_queue) /\ frame.alltime < frame.time

(* One round of sched_add()'s loop.  alltime keeps its value when the loop *)
(* runs off the end of the list.                                           *)
AddLoop ==
  LET c == frame.cur IN
  /\ mode = "add"
  /\ Searching
  /\ frame' = [frame EXCEPT
       !.cur = c + 1,
       !.alltime = IF c + 1 <= Len(job_queue)
                   THEN frame.alltime + job_queue[c + 1].time
                   ELSE frame.alltime]
  /\ UNCHANGED <<job_queue, free, mode, running, due>>

(* The time stored in the new entry.                                       *)
NewTime ==
  LET c == frame.cur
      curtime == IF c <= Len(job_queue) THEN job_queue[c].time ELSE 0
  IN  IF c > 1 THEN frame.time - (frame.alltime - curtime)
      ELSE IF frame.time >= 0 THEN frame.time ELSE curtime

(* The rest of sched_add(): an entry leaves the free list and is linked in *)
(* before cur, whose own time shrinks by the time of the new entry.        *)
AddLink ==
  LET c == frame.cur
      d == IF c = 1 /\ frame.time < 0 THEN due[1] ELSE frame.time
  IN
  /\ mode = "add"
  /\ ~Searching
  /\ IF free > 0
     THEN /\ job_queue' = Link(job_queue, c, Entry(frame.func, NewTime))
          /\ free' = free - 1
          /\ due' = InsertAt(due, c, d)
          /\ mode' = frame.ret
     ELSE /\ mode' = "crash"
          /\ UNCHANGED <<job_queue, free, due>>
  /\ running' = frame.after
  /\ frame' = NoFrame

(* sched_next_insn(): the loop over the late entries at the front, then    *)
(* SCHED_ADD with what it has added up.                                    *)
CallNextInsn(f) ==
  /\ Active
  /\ mode' = "next"
  /\ frame' = Frame(f, 0, 1, 1, mode, running)
  /\ UNCHANGED <<job_queue, free, running, due>>

NextInsnLoop ==
  LET c == frame.cur IN
  /\ mode = "next"
  /\ c <= Len(job_queue)
  /\ job_queue[c].time < 0
  /\ frame' = [frame EXCEPT
       !.cur = c + 1,
       !.alltime = frame.alltime - job_queue[c].time]
  /\ UNCHANGED <<job_queue, free, mode, running, due>>

NextInsnAdd ==
  LET c == frame.cur IN
  /\ mode = "next"
  /\ ~(c <= Len(job_queue) /\ job_queue[c].time < 0)
  /\ EnterAdd(frame.func, frame.alltime, frame.ret, frame.after)

(* sched_find_remove(): the entry behind the first match inherits its time *)
(* and the match returns to the free list.                                 *)
FindRemove(f) ==
  LET match == {i \in DOMAIN job_queue : job_queue[i].func = f} IN
  /\ Active
  /\ \/ match = {} /\ UNCHANGED <<job_queue, free, due>>
     \/ \E c \in match :
          /\ \A j \in match : c <= j
          /\ job_queue' = Unlink(job_queue, c)
          /\ due' = RemoveAt(due, c)
          /\ free' = free + 1
  /\ UNCHANGED <<mode, running, frame>>

(* exec_main(): only the front entry is written.                           *)
EndInsn(c) ==
  /\ mode = "insn"
  /\ job_queue' = [job_queue EXCEPT ![1].time = @ - c]
  /\ due' = [i \in DOMAIN due |-> due[i] - c]
  /\ mode' = IF job_queue'[1].time <= 0 THEN "loop" ELSE "insn"
  /\ UNCHANGED <<free, running, frame>>

(* do_scheduler(): unlink the front entry, give it back to the free list,  *)
(* write the time of its successor, call its function.                     *)
PopLosesEntry ==   \* mutant: the entry does not return to the free list
  /\ mode = "loop"
  /\ Len(job_queue) > 1
  /\ job_queue' = Unlink(job_queue, 1)
  /\ due' = RemoveAt(due, 1)
  /\ running' = job_queue[1].func
  /\ mode' = "call"
  /\ UNCHANGED <<free, frame>>

Pop ==
  /\ mode = "loop"
  /\ IF Len(job_queue) > 1
     THEN /\ job_queue' = Unlink(job_queue, 1)
          /\ due' = RemoveAt(due, 1)
          /\ free' = free + 1
          /\ running' = job_queue[1].func
          /\ mode' = "call"
     ELSE /\ mode' = "crash"
          /\ UNCHANGED <<job_queue, free, running, due>>
  /\ UNCHANGED frame

ReturnEarly ==   \* mutant: "< 0" for "<= 0" in do_scheduler()'s loop
  /\ mode = "call"
  /\ running \notin {Guard, CheckInt}
  /\ mode' = IF job_queue[1].time < 0 THEN "loop" ELSE "insn"
  /\ running' = None
  /\ UNCHANGED <<job_queue, free, frame, due>>

Return ==
  /\ mode = "call"
  /\ running \notin {Guard, CheckInt}
  /\ mode' = IF job_queue[1].time <= 0 THEN "loop" ELSE "insn"
  /\ running' = None
  /\ UNCHANGED <<job_queue, free, frame, due>>

Next ==
  \/ \E f \in Jobs, t \in Delays : CallAdd(f, t)
  \/ \E f \in Jobs : CallNextInsn(f)
  \/ \E f \in Jobs : FindRemove(f)
  \/ Reset
  \/ AddLoop \/ AddLink
  \/ NextInsnLoop \/ NextInsnAdd
  \/ \E c \in Cycles : EndInsn(c)
  \/ Pop
  \/ Rearm(Guard, TIME_MAX)
  \/ Rearm(CheckInt, CHECK_INT_TIME)
  \/ Return

Spec == Init /\ [][Next]_vars
-----------------------------------------------------------------------------
TypeOK ==
  /\ job_queue \in Seq([func : Funcs, time : Int])
  /\ free \in Nat
  /\ mode \in {"insn", "loop", "call", "add", "next", "crash"}
  /\ running \in Funcs \cup {None}
  /\ frame \in [func : Funcs \cup {None}, time : Int, cur : Nat \ {0},
                alltime : Int, ret : {"insn", "call"},
                after : Funcs \cup {None}]
  /\ due \in Seq(Int)

(* The differences stored in the list add up to the absolute times the     *)
(* callers asked for, whatever mixture of additions, removals, elapsed     *)
(* cycles and late calls came before: sched_add(), sched_find_remove() and *)
(* do_scheduler() each repair the time of the right neighbour.             *)
DeltaEncoding ==
  /\ Len(due) = Len(job_queue)
  /\ \A i \in DOMAIN job_queue :
       job_queue[i].time = due[i] - (IF i = 1 THEN 0 ELSE due[i - 1])

(* No entry is lost or linked twice: the two lists of struct               *)
(* scheduler_struct together always hold the SCHED_HEAP_SIZE entries of    *)
(* sched_init().                                                           *)
EntriesConserved == free + Len(job_queue) = HEAP_SIZE

(* do_scheduler() and the main loop never find the queue empty: the only   *)
(* NULL the scheduler can dereference is the head of an exhausted free     *)
(* list.  do_scheduler() writes to the second entry before it calls the    *)
(* first, so this rests on check_int() being queued while the guard runs.  *)
QueueNeverEmpties ==
  /\ Len(job_queue) >= 1
  /\ mode = "loop" => Len(job_queue) >= 2
  /\ mode = "crash" => free = 0

(* A job function is called only when its absolute time has come, before   *)
(* every job that is due later; and do_scheduler() returns to the main     *)
(* loop only when nothing is due any more.                                 *)
DeadlinesKept ==
  [][ /\ (mode = "loop" /\ mode' = "call") =>
           due[1] <= 0 /\ \A i \in DOMAIN due : due[1] <= due[i]
      /\ (mode = "call" /\ mode' = "insn") =>
           \A i \in DOMAIN due' : due'[i] > 0 ]_vars

(* The list of differences implements the agenda of absolute times.        *)
ImplementsAbs == Abs!Spec
=============================================================================
