-------------------------- MODULE PipelineProofs --------------------------
(***************************************************************************)
(* The processor in front of memory, for every value of the constants:     *)
(* that exceptions are invisible to programs of every length (module       *)
(* Pipeline), provided that no l.sys stands in a delay slot; that caches   *)
(* and MMUs are (MemPath); and that the store buffer and the prediction    *)
(* of branches only cost the cycles they should (Timing).                  *)
(***************************************************************************)
EXTENDS Pipeline, MemPath, Timing, DataLemmas, FiniteSetTheorems, TLAPS

(* Outside a delay slot the instruction behind pc is next.  In a delay     *)
(* slot the instruction in front of pc is the branch, so "pc - 4" is the   *)
(* branch.  The delay slot of the final loop is never entered from the     *)
(* front, and no exception returns to it.  A second interrupt without an   *)
(* instruction in between makes the vector its own return address, with    *)
(* interrupts disabled in ESR, for ever.                                   *)
PInv ==
  /\ prog \in Programs
  /\ pc \in Addr \cup {VEC}
  /\ pcnext \in Int /\ pc_delay \in Addr
  /\ delay_insn \in BOOLEAN
  /\ esr \in BOOLEAN /\ delivered \in BOOLEAN /\ nested \in BOOLEAN
  /\ iee <=> ~InHandler
  /\ delivered => InHandler
  /\ ~nested => epcr \in 0..(LAST - 1)
  /\ nested => InHandler /\ epcr = VEC
  /\ InHandler => (esr <=> ~nested)
  /\ delay_insn => /\ pc \in 1..LAST
                   /\ prog[pc - 1].op = "branch"
                   /\ pcnext \in 0..(LAST - 1)
  /\ ~delay_insn => pcnext = pc + 1
  /\ ~delay_insn /\ ~InHandler => pc \in 0..(LAST - 1)

(* What every program looks like.                                          *)
LEMMA ProgramShape ==
  ASSUME NEW p \in Programs
  PROVE  /\ \A a \in Addr : p[a].op \in {"alu", "sys", "branch"}
         /\ \A a \in Addr : p[a].op = "branch" => p[a].to \in 0..(LAST - 1)
         /\ p[LAST - 1].op = "branch" /\ p[LAST].op = "alu"
         /\ \A a \in 0..(LAST - 1) :
              p[a].op = "branch" => /\ p[a + 1].op # "branch"
                                    /\ p[a + 1].op = "sys" => Sys
<1>1. \A a \in Addr : p[a] \in Insns
  BY DEF Programs
<1>2. \A a \in Addr : p[a].op \in {"alu", "sys", "branch"}
  BY <1>1 DEF Insns
<1>3. \A a \in Addr : p[a].op = "branch" => p[a].to \in 0..(LAST - 1)
  BY <1>1 DEF Insns
<1> QED BY <1>2, <1>3 DEF Programs

(* The first instruction of the program is not in a delay slot.            *)
LEMMA InitPInv == Init => PInv
<1> SUFFICES ASSUME Init PROVE PInv
  OBVIOUS
<1>1. LAST \in Nat \ {0}
  BY PipelineAssumption
<1>2. ~InHandler
  BY <1>1 DEF Init, InHandler, VEC
<1>3. iee <=> ~InHandler
  BY <1>2 DEF Init
<1>4. /\ ~delay_insn /\ delay_insn \in BOOLEAN /\ esr \in BOOLEAN
      /\ ~delivered /\ delivered \in BOOLEAN /\ ~nested /\ nested \in BOOLEAN
  BY DEF Init
<1>5. /\ prog \in Programs /\ pc \in 0..(LAST - 1) /\ pcnext = pc + 1
      /\ pc_delay \in Addr /\ epcr \in 0..(LAST - 1) /\ pc \in Addr
      /\ pcnext \in Int
  BY <1>1 DEF Init, Addr
<1> QED BY <1>2, <1>3, <1>4, <1>5 DEF PInv

(* Every step keeps the two program counters consistent.                   *)
LEMMA NextPInv == PInv /\ [Next]_vars => PInv'
<1> SUFFICES ASSUME PInv, [Next]_vars PROVE PInv'
  OBVIOUS
<1>0. LAST \in Nat \ {0}
  BY PipelineAssumption
<1>S. /\ \A a \in Addr : prog[a].op \in {"alu", "sys", "branch"}
      /\ \A a \in Addr : prog[a].op = "branch" => prog[a].to \in 0..(LAST - 1)
      /\ prog[LAST - 1].op = "branch" /\ prog[LAST].op = "alu"
      /\ \A a \in 0..(LAST - 1) :
           prog[a].op = "branch" => prog[a + 1].op # "branch"
  BY ProgramShape DEF PInv
<1>A. ASSUME ~InHandler PROVE pc \in 0..LAST
  BY <1>A DEF PInv, InHandler, Addr
<1>1. CASE ExecAlu
  <2>1. /\ ~InHandler /\ pc' = pcnext /\ pcnext' = pcnext + 1
        /\ ~delay_insn' /\ delay_insn' \in BOOLEAN
        /\ UNCHANGED <<prog, epcr, iee, esr, nested, pc_delay>>
        /\ ~delivered' /\ delivered' \in BOOLEAN
        /\ prog[pc].op = "alu"
    BY <1>1 DEF ExecAlu, update_pc, excvars
  <2>2. pcnext \in 0..(LAST - 1)
    <3>1. CASE delay_insn
      BY <3>1 DEF PInv
    <3>2. CASE ~delay_insn
      <4>1. pc \in 0..(LAST - 1) /\ pcnext = pc + 1
        BY <2>1, <3>2 DEF PInv
      <4>2. pc # LAST - 1
        BY <1>S, <2>1
      <4> QED BY <1>0, <4>1, <4>2
    <3> QED BY <3>1, <3>2
  <2>3. pcnext # VEC
    BY <1>0, <2>2 DEF VEC
  <2> QED BY <1>0, <2>1, <2>2, <2>3 DEF PInv, Addr, InHandler
<1>2. CASE ExecBranch
  <2>1. /\ ~InHandler /\ pc' = pcnext /\ pcnext' = prog[pc].to
        /\ pc_delay' = prog[pc].to /\ delay_insn' = TRUE
        /\ UNCHANGED <<prog, epcr, iee, esr, nested>> /\ prog[pc].op = "branch"
        /\ ~delivered' /\ delivered' \in BOOLEAN
    BY <1>2 DEF ExecBranch, update_pc, excvars
  <2>2. ~delay_insn
    <3> SUFFICES ASSUME delay_insn PROVE FALSE
      OBVIOUS
    <3>1. pc \in 1..LAST /\ prog[pc - 1].op = "branch"
      BY DEF PInv
    <3>2. pc - 1 \in 0..(LAST - 1) /\ (pc - 1) + 1 = pc
      BY <1>0, <3>1
    <3> QED BY <1>S, <2>1, <3>1, <3>2
  <2>3. pc \in 0..(LAST - 1) /\ pcnext = pc + 1
    BY <2>1, <2>2 DEF PInv
  <2>4. pc' \in 1..LAST /\ pc' - 1 = pc /\ pc \in Addr
    BY <1>0, <2>1, <2>3 DEF Addr
  <2>5. prog[pc].to \in 0..(LAST - 1)
    BY <1>S, <2>1, <2>4
  <2>6. pc' # VEC
    BY <1>0, <2>4 DEF VEC
  <2> QED BY <1>0, <2>1, <2>4, <2>5, <2>6 DEF PInv, Addr, InHandler
<1>3. CASE ExecNotTaken
  <2>1. /\ ~InHandler /\ pc' = pcnext /\ pcnext' = pcnext + 1
        /\ ~delay_insn' /\ delay_insn' \in BOOLEAN
        /\ UNCHANGED <<prog, epcr, iee, esr, nested, pc_delay>>
        /\ ~delivered' /\ delivered' \in BOOLEAN
        /\ prog[pc].op = "branch" /\ pc # LAST - 1
    BY <1>3 DEF ExecNotTaken, update_pc, excvars
  <2>2. pcnext \in 0..(LAST - 1)
    <3>1. CASE delay_insn
      BY <3>1 DEF PInv
    <3>2. CASE ~delay_insn
      BY <1>0, <2>1, <3>2 DEF PInv
    <3> QED BY <3>1, <3>2
  <2>3. pcnext # VEC
    BY <1>0, <2>2 DEF VEC
  <2> QED BY <1>0, <2>1, <2>2, <2>3 DEF PInv, Addr, InHandler
<1>V. /\ VEC \in Int /\ VEC \notin 0..LAST
  BY <1>0 DEF VEC
<1>E. ASSUME NEW e, except_handle(e), ~InHandler, e \in 0..(LAST - 1),
             pc' = VEC, pcnext' = VEC + 1, delay_insn' = FALSE,
             delivered' \in BOOLEAN, nested' = nested,
             UNCHANGED <<prog, pc_delay>>
      PROVE  PInv'
  <2>1. /\ epcr' = e /\ (esr' <=> iee) /\ esr' \in BOOLEAN /\ iee' = FALSE
    <3>1. iee \in BOOLEAN /\ esr' = iee
      BY <1>E DEF except_handle, PInv, InHandler
    <3> QED BY <1>E, <3>1 DEF except_handle
  <2>2. InHandler' /\ ~nested /\ iee
    BY <1>E DEF InHandler, VEC, PInv
  <2>3. pcnext' \in Int /\ pcnext' = pc' + 1
    BY <1>E, <1>V
  <2> QED BY <1>E, <2>1, <2>2, <2>3 DEF PInv, VEC
<1>4. CASE Fault
  <2>1. pc - Slot \in 0..(LAST - 1)
    BY <1>0, <1>4 DEF PInv, Slot, Fault
  <2> QED BY <1>E, <1>4, <2>1 DEF Fault, update_pc
<1>8. CASE Interrupt
  <2>1. /\ pc' = VEC /\ pcnext' = VEC + 1 /\ delay_insn' = FALSE
        /\ UNCHANGED <<prog, pc_delay>> /\ delivered' = TRUE
        /\ nested' = (nested \/ delivered) /\ except_handle(pc - Slot)
    BY <1>8 DEF Interrupt
  <2>2. CASE ~InHandler
    <3>1. pc - Slot \in 0..(LAST - 1)
      BY <1>0, <2>2 DEF PInv, Slot
    <3>2. nested' = nested
      BY <2>1, <2>2 DEF PInv
    <3> QED BY <1>E, <2>1, <2>2, <3>1, <3>2
  <2>3. CASE InHandler
    <3>1. delivered /\ ~iee /\ nested'
      BY <1>8, <2>1, <2>3 DEF Interrupt, PInv
    <3>2. pc = VEC /\ ~delay_insn
      BY <1>V, <2>3 DEF InHandler, PInv
    <3>3. pc - Slot = VEC
      BY <1>V, <3>2 DEF Slot
    <3>4. epcr' = VEC /\ ~esr' /\ ~iee' /\ esr' \in BOOLEAN
      <4>1. iee = FALSE
        BY <2>1, <2>3, <3>1 DEF except_handle, PInv, InHandler
      <4> QED BY <2>1, <3>3, <4>1 DEF except_handle
    <3>5. InHandler' /\ pcnext' \in Int /\ pcnext' = pc' + 1
      BY <1>V, <2>1 DEF InHandler
    <3>6. nested' \in BOOLEAN
      BY <2>1 DEF PInv
    <3> QED BY <2>1, <3>1, <3>4, <3>5, <3>6 DEF PInv
  <2> QED BY <2>2, <2>3
<1>5. CASE ExecSys
  <2>1. pc \in 0..LAST /\ pc # LAST - 1 /\ pc # LAST
    BY <1>A, <1>S, <1>5 DEF ExecSys
  <2>2. (pc + 1) - Slot \in 0..(LAST - 1)
    BY <1>0, <2>1 DEF Slot
  <2> QED BY <1>E, <1>5, <2>2 DEF ExecSys, update_pc
<1>6. CASE ExecRfe
  <2>1. /\ pc' = epcr /\ pcnext' = epcr + 1 /\ delay_insn' = FALSE
        /\ iee' = esr /\ UNCHANGED <<prog, epcr, esr, nested, pc_delay>>
        /\ ~delivered' /\ delivered' \in BOOLEAN /\ InHandler
    BY <1>6 DEF ExecRfe, update_pc
  <2>2. iee' <=> ~nested
    BY <2>1 DEF PInv
  <2>3. CASE nested
    <3>1. epcr = VEC
      BY <2>3 DEF PInv
    <3>2. InHandler' /\ pcnext' \in Int /\ pcnext' = pc' + 1
      BY <1>V, <2>1, <3>1 DEF InHandler
    <3> QED BY <2>1, <2>2, <2>3, <3>1, <3>2 DEF PInv
  <2>4. CASE ~nested
    <3>1. epcr \in 0..(LAST - 1) /\ epcr # VEC
      BY <1>0, <2>4 DEF PInv, VEC
    <3>2. ~InHandler'
      BY <2>1, <3>1 DEF InHandler, VEC
    <3>3. /\ pcnext' \in Int /\ pcnext' = pc' + 1
          /\ pc' \in 0..(LAST - 1) /\ pc' \in Addr
      BY <1>0, <2>1, <3>1 DEF Addr
    <3> QED BY <2>1, <2>2, <2>4, <3>1, <3>2, <3>3 DEF PInv
  <2> QED BY <2>3, <2>4
<1>7. CASE UNCHANGED vars
  BY <1>7 DEF vars, excvars, history, PInv, InHandler
<1> QED BY <1>1, <1>2, <1>3, <1>4, <1>5, <1>6, <1>7, <1>8 DEF Next

(* The invariant of the program counters holds in every reachable state.   *)
THEOREM PipelineInvariance == Spec => []PInv
  BY InitPInv, NextPInv, PTL DEF Spec

(* Type correctness for every program: the program counters stay inside    *)
(* the program or the exception vector, and interrupts are enabled exactly *)
(* outside the handler, nested interrupts included.                        *)
THEOREM PipelineTypeCorrect == Spec => []TypeOK
<1>1. PInv => TypeOK
  <2> SUFFICES ASSUME PInv PROVE TypeOK
    OBVIOUS
  <2>0. LAST \in Nat \ {0}
    BY PipelineAssumption
  <2>1. epcr \in Addr \cup {VEC}
    BY <2>0 DEF PInv, Addr
  <2>2. pcnext \in Addr \cup {LAST + 1, VEC + 1}
    <3>1. CASE delay_insn
      BY <2>0, <3>1 DEF PInv, Addr
    <3>2. CASE ~delay_insn
      BY <2>0, <3>2 DEF PInv, Addr, InHandler
    <3> QED BY <3>1, <3>2
  <2>3. iee <=> ~InHandler
    BY DEF PInv
  <2> QED BY <2>1, <2>2, <2>3 DEF PInv, TypeOK
<1> QED BY <1>1, PipelineInvariance, PTL

(* For every program of every length: interrupts, faults and system calls  *)
(* are invisible to it, wherever they fall, if no l.sys stands in a delay  *)
(* slot, until one do_scheduler() delivers two interrupts; from then on    *)
(* the machine never leaves the vector.                                    *)
THEOREM ExceptionsInvisibleHolds ==
  ASSUME Sys = FALSE PROVE Spec => ExceptionsInvisible
<1> DEFINE at == IF InHandler THEN epcr ELSE pc
           target == IF delay_insn THEN pcnext ELSE -1
<1>1. Init => Program!Init
  BY PipelineAssumption DEF Init, Program!Init, InHandler, VEC
<1>2. PInv /\ [Next]_vars =>
        [IF nested' THEN InHandler' ELSE Program!Step]_vars
  <2> SUFFICES ASSUME PInv, [Next]_vars, ~nested'
               PROVE  Program!Next \/ UNCHANGED <<prog, at, target>>
    <3>1. PInv /\ [Next]_vars /\ nested' => InHandler'
      BY NextPInv DEF PInv
    <3> QED BY <3>1 DEF Program!Step
  <2>0. LAST \in Nat \ {0}
    BY PipelineAssumption
  <2>P. /\ \A a \in Addr : prog[a].op \in {"alu", "sys", "branch"}
        /\ \A a \in Addr :
             prog[a].op = "branch" => prog[a].to \in 0..(LAST - 1)
        /\ \A a \in 0..(LAST - 1) :
             prog[a].op = "branch" =>
               prog[a + 1].op # "branch" /\ prog[a + 1].op # "sys"
    BY ProgramShape DEF PInv
  <2>S. ASSUME delay_insn PROVE prog[pc].op \notin {"branch", "sys"}
    <3>1. pc - 1 \in 0..(LAST - 1) /\ (pc - 1) + 1 = pc
          /\ prog[pc - 1].op = "branch"
      BY <2>0, <2>S DEF PInv
    <3> QED BY <2>P, <3>1
  <2>H. ASSUME NEW a \in 0..LAST PROVE a # VEC
    BY <2>0 DEF VEC
  <2>I. PInv'
    BY NextPInv
  <2>1. CASE ExecAlu
    <3>1. /\ ~InHandler /\ pc' = pcnext /\ ~delay_insn' /\ prog' = prog
          /\ prog[pc].op = "alu"
      BY <2>1 DEF ExecAlu, update_pc
    <3>2. ~InHandler'
      BY <2>1, <2>I, <3>1 DEF ExecAlu, update_pc, excvars, PInv
    <3>3. at = pc /\ at' = pcnext /\ target' = -1
      BY <3>1, <3>2
    <3>4. pcnext = IF target = -1 THEN at + 1 ELSE target
      BY <2>0, <3>1, <3>3 DEF PInv
    <3>5. Program!Plain
      BY <3>1, <3>3, <3>4 DEF Program!Plain, Program!Follow
    <3> QED BY <3>1, <3>5 DEF Program!Next
  <2>2. CASE ExecBranch
    <3>1. /\ ~InHandler /\ pc' = pcnext /\ delay_insn' /\ prog' = prog
          /\ prog[pc].op = "branch" /\ pcnext' = prog[pc].to
      BY <2>2 DEF ExecBranch, update_pc
    <3>2. ~delay_insn
      BY <2>S, <3>1
    <3>3. ~InHandler'
      BY <2>2, <2>I, <3>1 DEF ExecBranch, update_pc, excvars, PInv
    <3>4. at = pc /\ target = -1 /\ at' = pc + 1 /\ target' = prog[pc].to
      BY <3>1, <3>2, <3>3 DEF PInv
    <3>5. Program!Branch
      BY <3>1, <3>4 DEF Program!Branch
    <3> QED BY <3>1, <3>5 DEF Program!Next
  <2>3. CASE ExecNotTaken
    <3>1. /\ ~InHandler /\ pc' = pcnext /\ ~delay_insn' /\ prog' = prog
          /\ prog[pc].op = "branch"
      BY <2>3 DEF ExecNotTaken, update_pc
    <3>2. ~delay_insn
      BY <2>S, <3>1
    <3>3. ~InHandler'
      BY <2>3, <2>I, <3>1 DEF ExecNotTaken, update_pc, excvars, PInv
    <3>4. at = pc /\ target = -1 /\ at' = pc + 1 /\ target' = -1
      BY <3>1, <3>2, <3>3 DEF PInv
    <3>5. Program!Branch
      BY <3>1, <3>4 DEF Program!Branch
    <3> QED BY <3>1, <3>5 DEF Program!Next
  <2>4. ASSUME Fault \/ Interrupt
        PROVE  Program!Next \/ UNCHANGED <<prog, at, target>>
    <3>1. /\ ~InHandler /\ pc' = VEC /\ ~delay_insn' /\ prog' = prog
          /\ epcr' = pc - Slot
      BY <2>4 DEF Fault, Interrupt, update_pc, except_handle, PInv
    <3>2. at = pc /\ at' = pc - Slot /\ target' = -1
      BY <3>1 DEF InHandler
    <3>3. CASE delay_insn
      <4>1. target = pcnext /\ target # -1 /\ at' = at - 1
        BY <2>0, <3>2, <3>3 DEF PInv, Slot
      <4>2. Program!Again
        BY <3>2, <4>1 DEF Program!Again
      <4> QED BY <3>1, <4>2 DEF Program!Next
    <3>4. CASE ~delay_insn
      <4>1. pc \in Int
        BY <3>1, <3>4 DEF PInv
      <4> QED BY <3>1, <3>2, <3>4, <4>1 DEF Slot
    <3> QED BY <3>3, <3>4
  <2>5. CASE ExecSys
    <3>1. /\ ~InHandler /\ pc' = VEC /\ ~delay_insn' /\ prog' = prog
          /\ epcr' = (pc + 1) - Slot /\ prog[pc].op = "sys"
      BY <2>5 DEF ExecSys, update_pc, except_handle
    <3>2. ~delay_insn
      BY <2>S, <3>1
    <3>3. pc \in Int
      BY <3>1, <3>2 DEF PInv
    <3>4. at = pc /\ target = -1 /\ at' = pc + 1 /\ target' = -1
      BY <3>1, <3>2, <3>3 DEF InHandler, Slot
    <3>5. Program!Plain
      BY <3>1, <3>4 DEF Program!Plain, Program!Follow
    <3> QED BY <3>1, <3>5 DEF Program!Next
  <2>6. CASE ExecRfe
    <3>1. /\ InHandler /\ pc' = epcr /\ ~delay_insn' /\ prog' = prog
          /\ epcr' = epcr
      BY <2>6 DEF ExecRfe, update_pc
    <3>2. ~InHandler'
      <4>1. epcr \in 0..LAST
        BY <2>0, <2>I, <3>1 DEF PInv
      <4>2. epcr # VEC
        BY <2>H, <4>1
      <4> QED BY <3>1, <4>2 DEF InHandler, VEC
    <3>3. ~delay_insn
      BY <2>H, <3>1 DEF PInv, InHandler
    <3> QED BY <3>1, <3>2, <3>3
  <2>7. CASE UNCHANGED vars
    BY <2>7 DEF vars, excvars, InHandler
  <2> QED BY <2>1, <2>2, <2>3, <2>4, <2>5, <2>6, <2>7 DEF Next
<1> QED BY <1>1, <1>2, PipelineInvariance, PTL
        DEF Spec, ExceptionsInvisible

-----------------------------------------------------------------------------
(* The memory path.                                                        *)

CacheSetIds == 0 .. CacheSets - 1
LineIds == 0 .. CacheWords - 1
WordOf(b, i) == b * CacheWords + i

(* The shape of a cache.                                                   *)
CacheOK(c) ==
  /\ DOMAIN c = CacheSetIds
  /\ \A x \in CacheSetIds :
       /\ DOMAIN c[x] = Ways
       /\ \A w \in Ways : /\ DOMAIN c[x][w] = {"tag", "lru", "line"}
                          /\ DOMAIN c[x][w].line = LineIds

(* d has the tags and lines of c.                                          *)
SameWay(c, d, x, w) == d[x][w].tag = c[x][w].tag /\ d[x][w].line = c[x][w].line
SameLines(c, d) == \A x \in CacheSetIds, w \in Ways : SameWay(c, d, x, w)

(* A block is in the cache at most once, and its copies hold what memory   *)
(* does.                                                                   *)
Once(c, b) == \A v, w \in Copies(c, b) : v = w
Holds(mem, c, b, x, w) ==
  \A i \in LineIds : /\ WordOf(b, i) \in DOMAIN mem
                     /\ c[x][w].line[i] = mem[WordOf(b, i)]
Right(mem, c, b) == \A w \in Copies(c, b) : Holds(mem, c, b, b % CacheSets, w)

(* A refill of block b: a way of its set may hold the block or nothing,    *)
(* and everything else is as it was.                                       *)
Refilled(mem, c, d, b) ==
  \E way :
    /\ \A x \in CacheSetIds, w \in Ways :
         ~(x = b % CacheSets /\ w = way) => SameWay(c, d, x, w)
    /\ LET e == d[b % CacheSets][way] IN
         way \in Ways => \/ e.tag = NoTag
                         \/ /\ e.tag = b \div CacheSets
                            /\ Holds(mem, d, b, b % CacheSets, way)

(* The sizes of the caches are positive.                                   *)
LEMMA CacheSizes ==
  /\ CacheSets \in Nat \ {0} /\ CacheWays \in Nat \ {0} /\ CacheWords \in Nat \ {0}
BY PathAssumption

(* A block belongs to one set.                                             *)
LEMMA BlockSet ==
  ASSUME NEW b \in Nat
  PROVE  /\ b % CacheSets \in CacheSetIds /\ b \div CacheSets \in Nat
         /\ b = CacheSets * (b \div CacheSets) + (b % CacheSets)
BY CacheSizes, NatDivMod DEF CacheSetIds

(* Two blocks of one set have different tags.                              *)
LEMMA BlockTag ==
  ASSUME NEW a \in Nat, NEW b \in Nat, a % CacheSets = b % CacheSets,
         a \div CacheSets = b \div CacheSets
  PROVE  a = b
BY BlockSet

(* The block of a word, by words and by bytes.                             *)
LEMMA WordBlock ==
  ASSUME NEW pa \in Nat
  PROVE  /\ BlockOf(pa) \in Nat /\ WordIn(pa) \in LineIds
         /\ pa \div 4 \in Nat /\ pa \div 4 = WordOf(BlockOf(pa), WordIn(pa))
<1> DEFINE k == pa \div 4
           b == k \div CacheWords
           i == k % CacheWords
<1>1. k \in Nat /\ pa = 4 * k + (pa % 4) /\ pa % 4 \in 0 .. 3
  BY SMT
<1>2. b \in Nat /\ i \in 0 .. CacheWords - 1 /\ k = CacheWords * b + i
  <2> HIDE DEF k
  <2> QED BY <1>1, CacheSizes, NatDivMod
<1>3. 4 * CacheWords \in Nat \ {0}
  BY CacheSizes, SMT
<1>4. /\ BlockOf(pa) \in Nat /\ pa % (4 * CacheWords) \in 0 .. 4 * CacheWords - 1
      /\ pa = (4 * CacheWords) * BlockOf(pa) + (pa % (4 * CacheWords))
  BY <1>3, NatDivMod DEF BlockOf
<1>5. 4 * i + (pa % 4) \in 0 .. 4 * CacheWords - 1
  <2> HIDE DEF k, i
  <2> QED BY <1>1, <1>2, CacheSizes, SMT
<1>6. pa = b * (4 * CacheWords) + (4 * i + (pa % 4))
  <2> HIDE DEF k, i, b
  <2>1. 4 * (CacheWords * b) = b * (4 * CacheWords)
    BY <1>2, CacheSizes, SMT
  <2> QED BY <1>1, <1>2, <2>1, CacheSizes, SMT
<1>7. BlockOf(pa) = b
  <2> HIDE DEF i, b
  <2>1. pa = BlockOf(pa) * (4 * CacheWords) + (pa % (4 * CacheWords))
    BY <1>3, <1>4, SMT
  <2> DEFINE M == 4 * CacheWords
             r == pa % M
             q == 4 * i + (pa % 4)
  <2>2. b * M + q = BlockOf(pa) * M + r
    BY <1>6, <2>1
  <2>3. M \in Nat \ {0} /\ r \in 0 .. M - 1 /\ q \in 0 .. M - 1
    BY <1>3, <1>4, <1>5
  <2> HIDE DEF M, r, q
  <2> QED BY <1>2, <1>4, <2>2, <2>3, Unique
<1> QED BY <1>1, <1>2, <1>7, CacheSizes, SMT DEF WordOf, WordIn, LineIds

(* A word is in one block.                                                 *)
LEMMA OneBlock ==
  ASSUME NEW a \in Nat, NEW b \in Nat, NEW i \in LineIds, NEW j \in LineIds,
         WordOf(a, i) = WordOf(b, j)
  PROVE  a = b /\ i = j
BY CacheSizes, Unique DEF WordOf, LineIds

(* The copies of the block of an address are the ways that hit.            *)
LEMMA HitsAreCopies ==
  ASSUME NEW c, NEW a
  PROVE  HitWays(c, a) = Copies(c, BlockOf(a))
BY DEF HitWays, Copies, SetOf, TagOf

(* Changing the usage counts of one set.                                   *)
LEMMA AgedSet ==
  ASSUME NEW c, CacheOK(c), NEW x \in CacheSetIds, NEW d, DOMAIN d = CacheSetIds,
         \A y \in CacheSetIds : y # x => d[y] = c[y], DOMAIN d[x] = Ways,
         \A w \in Ways : \E n : d[x][w] = [c[x][w] EXCEPT !.lru = n]
  PROVE  CacheOK(d) /\ SameLines(c, d)
<1>1. ASSUME NEW w \in Ways
      PROVE  /\ DOMAIN d[x][w] = {"tag", "lru", "line"}
             /\ d[x][w].tag = c[x][w].tag /\ d[x][w].line = c[x][w].line
  <2>1. PICK n : d[x][w] = [c[x][w] EXCEPT !.lru = n]
    OBVIOUS
  <2>2. DOMAIN c[x][w] = {"tag", "lru", "line"}
    BY DEF CacheOK
  <2> QED BY <2>1, <2>2
<1>2. \A y \in CacheSetIds : DOMAIN d[y] = Ways
  BY DEF CacheOK
<1>3. \A y \in CacheSetIds, w \in Ways :
        SameWay(c, d, y, w) /\ DOMAIN d[y][w] = {"tag", "lru", "line"}
  BY <1>1 DEF CacheOK, SameWay
<1> QED BY <1>2, <1>3 DEF CacheOK, SameLines, SameWay

(* A hit changes usage counts only.                                        *)
LEMMA TouchKeeps ==
  ASSUME NEW c, CacheOK(c), NEW a \in Nat, NEW way
  PROVE  CacheOK(Touch(c, a, way)) /\ SameLines(c, Touch(c, a, way))
<1> DEFINE x == SetOf(a)
           d == Touch(c, a, way)
<1>1. x \in CacheSetIds
  BY WordBlock, BlockSet DEF SetOf
<1>2. /\ DOMAIN d = CacheSetIds /\ DOMAIN d[x] = Ways
      /\ \A y \in CacheSetIds : y # x => d[y] = c[y]
  BY <1>1 DEF Touch, CacheOK
<1>3. \A w \in Ways : \E n : d[x][w] = [c[x][w] EXCEPT !.lru = n]
  BY <1>1 DEF Touch, CacheOK
<1> HIDE DEF x, d
<1>4. CacheOK(d) /\ SameLines(c, d)
  BY <1>1, <1>2, <1>3, AgedSet
<1> QED BY <1>4 DEF d

(* A cache with the same tags and lines has the same copies.               *)
LEMMA SameCopies ==
  ASSUME NEW c, NEW d, SameLines(c, d), NEW b \in Nat
  PROVE  /\ Copies(d, b) = Copies(c, b)
         /\ Once(c, b) => Once(d, b)
         /\ \A mem : Right(mem, c, b) => Right(mem, d, b)
<1>1. \A w \in Ways : SameWay(c, d, b % CacheSets, w)
  BY BlockSet DEF SameLines
<1>2. Copies(d, b) = Copies(c, b)
  BY <1>1 DEF Copies, SameWay
<1> QED BY <1>1, <1>2 DEF Once, Right, Copies, SameWay, Holds

(* A way that at most ages.                                                *)
Ages(c, d, x, w) ==
  d[x][w] = c[x][w] \/ \E n : d[x][w] = [c[x][w] EXCEPT !.lru = n]

(* One way of a set is emptied, or filled.                                 *)
LEMMA OneWaySet ==
  ASSUME NEW c, CacheOK(c), NEW x \in CacheSetIds, NEW way, NEW d,
         DOMAIN d = CacheSetIds,
         \A y \in CacheSetIds : y # x => d[y] = c[y], DOMAIN d[x] = Ways,
         \A w \in Ways : w # way => Ages(c, d, x, w),
         way \in Ways => /\ DOMAIN d[x][way] = {"tag", "lru", "line"}
                         /\ DOMAIN d[x][way].line = LineIds
  PROVE  /\ CacheOK(d)
         /\ \A y \in CacheSetIds, w \in Ways :
              ~(y = x /\ w = way) => SameWay(c, d, y, w)
<1>1. ASSUME NEW w \in Ways, w # way
      PROVE  /\ DOMAIN d[x][w] = {"tag", "lru", "line"}
             /\ d[x][w].tag = c[x][w].tag /\ d[x][w].line = c[x][w].line
  <2>1. DOMAIN c[x][w] = {"tag", "lru", "line"}
    BY DEF CacheOK
  <2>2. CASE d[x][w] = c[x][w]
    BY <2>1, <2>2
  <2>3. CASE \E n : d[x][w] = [c[x][w] EXCEPT !.lru = n]
    <3>1. PICK n : d[x][w] = [c[x][w] EXCEPT !.lru = n]
      BY <2>3
    <3> QED BY <2>1, <3>1
  <2> QED BY <1>1, <2>2, <2>3 DEF Ages
<1>2. \A y \in CacheSetIds : DOMAIN d[y] = Ways
  BY DEF CacheOK
<1>3. \A y \in CacheSetIds, w \in Ways :
        ~(y = x /\ w = way) => /\ SameWay(c, d, y, w)
                               /\ DOMAIN d[y][w] = {"tag", "lru", "line"}
  BY <1>1 DEF CacheOK, SameWay
<1>4. \A y \in CacheSetIds, w \in Ways :
        DOMAIN d[y][w] = {"tag", "lru", "line"} /\ DOMAIN d[y][w].line = LineIds
  BY <1>3 DEF CacheOK, SameWay
<1> QED BY <1>2, <1>3, <1>4 DEF CacheOK

(* Refill() does what a refill may do, whether the block exists or not.    *)
LEMMA RefillDoes ==
  ASSUME NEW mem, NEW c, CacheOK(c), NEW a \in Nat, NEW way
  PROVE  LET d == Refill(mem, c, a, way)
         IN  CacheOK(d) /\ Refilled(mem, c, d, BlockOf(a))
<1> DEFINE x == SetOf(a)
           d == Refill(mem, c, a, way)
           b == BlockOf(a)
<1>1. x \in CacheSetIds /\ x = b % CacheSets /\ TagOf(a) = b \div CacheSets
  BY WordBlock, BlockSet DEF SetOf, TagOf
<1>2. CASE BlockWords(a) \subseteq DOMAIN mem
  <2>1. /\ DOMAIN d = CacheSetIds /\ DOMAIN d[x] = Ways
        /\ \A y \in CacheSetIds : y # x => d[y] = c[y]
    BY <1>1, <1>2 DEF Refill, CacheOK
  <2>2. \A w \in Ways : w # way => Ages(c, d, x, w)
    BY <1>1, <1>2 DEF Refill, CacheOK, Ages
  <2>3. way \in Ways =>
          d[x][way] = [tag |-> TagOf(a), lru |-> CacheUstates - 1,
                       line |-> [i \in LineIds |-> mem[WordOf(b, i)]]]
    BY <1>1, <1>2 DEF Refill, CacheOK, LineIds, WordOf
  <2>4. \A i \in LineIds : WordOf(b, i) \in DOMAIN mem
    BY <1>2 DEF BlockWords, LineIds, WordOf
  <2> HIDE DEF d, x, b
  <2>5. way \in Ways => /\ DOMAIN d[x][way] = {"tag", "lru", "line"}
                        /\ DOMAIN d[x][way].line = LineIds
                        /\ d[x][way].tag = TagOf(a)
                        /\ Holds(mem, d, b, x, way)
    BY <2>3, <2>4 DEF Holds
  <2>6. /\ CacheOK(d)
        /\ \A y \in CacheSetIds, w \in Ways :
              ~(y = x /\ w = way) => SameWay(c, d, y, w)
    BY <1>1, <2>1, <2>2, <2>5, OneWaySet
  <2>7. Refilled(mem, c, d, b)
    BY <1>1, <2>5, <2>6 DEF Refilled
  <2> QED BY <2>6, <2>7 DEF d, b
<1>3. CASE ~(BlockWords(a) \subseteq DOMAIN mem)
  <2>1. /\ DOMAIN d = CacheSetIds /\ DOMAIN d[x] = Ways
        /\ \A y \in CacheSetIds : y # x => d[y] = c[y]
        /\ \A w \in Ways : w # way => Ages(c, d, x, w)
        /\ way \in Ways => d[x][way] = EmptyWay(NoTag)
    BY <1>1, <1>3 DEF Refill, CacheOK, Ages
  <2> HIDE DEF d, x, b
  <2>5. way \in Ways => /\ DOMAIN d[x][way] = {"tag", "lru", "line"}
                        /\ DOMAIN d[x][way].line = LineIds
                        /\ d[x][way].tag = NoTag
    BY <2>1 DEF EmptyWay, LineIds
  <2>6. /\ CacheOK(d)
        /\ \A y \in CacheSetIds, w \in Ways :
              ~(y = x /\ w = way) => SameWay(c, d, y, w)
    BY <1>1, <2>1, <2>5, OneWaySet
  <2>7. Refilled(mem, c, d, b)
    BY <1>1, <2>5, <2>6 DEF Refilled
  <2> QED BY <2>6, <2>7 DEF d, b
<1> QED BY <1>2, <1>3

(* IcRefill() too, although it ages the other ways first.                  *)
LEMMA IcRefillDoes ==
  ASSUME NEW mem, NEW c, CacheOK(c), NEW a \in Nat, NEW way
  PROVE  LET d == IcRefill(mem, c, a, way)
         IN  CacheOK(d) /\ Refilled(mem, c, d, BlockOf(a))
<1>1. CASE BlockWords(a) \subseteq DOMAIN mem
  BY <1>1, RefillDoes DEF IcRefill
<1>2. CASE ~(BlockWords(a) \subseteq DOMAIN mem)
  <2> DEFINE x == SetOf(a)
             d == IcRefill(mem, c, a, way)
             b == BlockOf(a)
  <2>1. x \in CacheSetIds /\ x = b % CacheSets /\ TagOf(a) = b \div CacheSets
    BY WordBlock, BlockSet DEF SetOf, TagOf
  <2>2. /\ DOMAIN d = CacheSetIds /\ DOMAIN d[x] = Ways
        /\ \A y \in CacheSetIds : y # x => d[y] = c[y]
        /\ \A w \in Ways : w # way => Ages(c, d, x, w)
        /\ way \in Ways => d[x][way] = EmptyWay(NoTag)
    BY <2>1, <1>2 DEF IcRefill, CacheOK, Ages
  <2> HIDE DEF d, x, b
  <2>5. way \in Ways => /\ DOMAIN d[x][way] = {"tag", "lru", "line"}
                        /\ DOMAIN d[x][way].line = LineIds
                        /\ d[x][way].tag = NoTag
    BY <2>2 DEF EmptyWay, LineIds
  <2>6. /\ CacheOK(d)
        /\ \A y \in CacheSetIds, w \in Ways :
              ~(y = x /\ w = way) => SameWay(c, d, y, w)
    BY <2>1, <2>2, <2>5, OneWaySet
  <2>7. Refilled(mem, c, d, b)
    BY <2>1, <2>5, <2>6 DEF Refilled
  <2> QED BY <2>6, <2>7 DEF d, b
<1> QED BY <1>1, <1>2

(* After a miss and a refill the block is in the cache at most once and    *)
(* as memory has it, and no other block has new copies.                    *)
LEMMA RefillRight ==
  ASSUME NEW mem, NEW c, NEW d, NEW b \in Nat, Refilled(mem, c, d, b),
         Copies(c, b) = {}
  PROVE  /\ Once(d, b) /\ Right(mem, d, b)
         /\ \A e \in Nat : /\ Once(c, e) => Once(d, e)
                           /\ e # b /\ Right(mem, c, e) => Right(mem, d, e)
<1> DEFINE x == b % CacheSets
<1>1. PICK way :
        /\ \A y \in CacheSetIds, w \in Ways :
             ~(y = x /\ w = way) => SameWay(c, d, y, w)
        /\ way \in Ways => \/ d[x][way].tag = NoTag
                           \/ /\ d[x][way].tag = b \div CacheSets
                              /\ Holds(mem, d, b, x, way)
  BY DEF Refilled
<1>2. x \in CacheSetIds /\ b \div CacheSets \in Nat
  BY BlockSet
<1>3. Copies(d, b) \subseteq {way}
  BY <1>1, <1>2 DEF Copies, SameWay
<1>4. Once(d, b)
  BY <1>3 DEF Once
<1>5. Right(mem, d, b)
  BY <1>1, <1>2, <1>3 DEF Right, Copies, NoTag
<1>6. ASSUME NEW e \in Nat, e # b
      PROVE  /\ Once(c, e) => Once(d, e)
             /\ Right(mem, c, e) => Right(mem, d, e)
  <2>1. e % CacheSets \in CacheSetIds /\ e \div CacheSets \in Nat
    BY BlockSet
  <2>2. e % CacheSets = x => e \div CacheSets # b \div CacheSets
    BY <1>6, BlockTag
  <2>3. \A w \in Copies(d, e) : ~(e % CacheSets = x /\ w = way)
    BY <1>1, <2>1, <2>2 DEF Copies, NoTag
  <2>4. \A w \in Copies(d, e) : w \in Ways /\ SameWay(c, d, e % CacheSets, w)
    BY <1>1, <2>1, <2>3 DEF Copies
  <2>5. Copies(d, e) \subseteq Copies(c, e)
    BY <2>4 DEF Copies, SameWay
  <2>6. Once(c, e) => Once(d, e)
    BY <2>5 DEF Once
  <2>7. Right(mem, c, e) => Right(mem, d, e)
    BY <2>4, <2>5 DEF Right, SameWay, Holds
  <2> QED BY <2>6, <2>7
<1> QED BY <1>4, <1>5, <1>6

(* A bounded set of numbers has a greatest one.                            *)
LEMMA GreatestWay ==
  ASSUME NEW S \in SUBSET Ways, S # {}
  PROVE  Max(S) \in S /\ \A v \in S : Max(S) >= v
<1> DEFINE T == {CacheWays - 1 - w : w \in S}
<1>1. T \in SUBSET Nat /\ T # {}
  <2>1. \A w \in S : CacheWays - 1 - w \in Nat
    BY CacheSizes DEF Ways
  <2> QED BY <2>1
<1>2. PICK m \in T : \A k \in T : m <= k
  BY <1>1, LeastNat
<1>3. PICK w \in S : m = CacheWays - 1 - w
  BY <1>2
<1>4. \A v \in S : w >= v
  <2> SUFFICES ASSUME NEW v \in S PROVE w >= v
    OBVIOUS
  <2>1. m <= CacheWays - 1 - v
    BY <1>2
  <2>2. v \in Int /\ w \in Int
    BY DEF Ways
  <2> QED BY <1>3, <2>1, <2>2, CacheSizes
<1> QED BY <1>4 DEF Max

(* A hit is in one of the ways that hold the block.                        *)
LEMMA HitWayHits ==
  ASSUME NEW c, NEW a, Copies(c, BlockOf(a)) # {}
  PROVE  HitWay(c, a) \in Copies(c, BlockOf(a))
BY HitsAreCopies, GreatestWay DEF HitWay, Copies

(* m is mem but for the word of an address.                                *)
OneWord(mem, m, pa) ==
  /\ DOMAIN m = DOMAIN mem /\ pa \div 4 \in DOMAIN mem
  /\ \A k \in DOMAIN mem : k # pa \div 4 => m[k] = mem[k]

(* The copy in a way is written too.                                       *)
StoreLine(c, pa, way, width, v) ==
  [c EXCEPT ![SetOf(pa)][way].line[WordIn(pa)] = InsertLanes(@, pa, width, v)]

WordStored(mem, m, pa, width, v) ==
  OneWord(mem, m, pa) /\ m[pa \div 4] = InsertLanes(mem[pa \div 4], pa, width, v)

(* d has the copies of c, and those that were right before are right.      *)
StoredBoth(mem, m, c, d) ==
  /\ CacheOK(d)
  /\ \A b \in Nat : /\ Copies(d, b) = Copies(c, b)
                    /\ Once(c, b) /\ Right(mem, c, b) => Right(m, d, b)

(* Memory changes in one word: only the block of that word is affected.    *)
LEMMA WriteElsewhere ==
  ASSUME NEW mem, NEW m, NEW pa \in Nat, OneWord(mem, m, pa), NEW c,
         NEW b \in Nat, b # BlockOf(pa), Right(mem, c, b)
  PROVE  Right(m, c, b)
<1>1. ASSUME NEW i \in LineIds PROVE WordOf(b, i) # pa \div 4
  <2>1. /\ BlockOf(pa) \in Nat /\ WordIn(pa) \in LineIds
        /\ pa \div 4 = WordOf(BlockOf(pa), WordIn(pa))
    BY WordBlock
  <2> QED BY <2>1, OneBlock
<1> QED BY <1>1 DEF Right, Holds, OneWord

(* The same word changes in memory and in the only copy of its block.      *)
LEMMA WriteBoth ==
  ASSUME NEW mem, NEW m, NEW pa \in Nat, NEW width, NEW v,
         WordStored(mem, m, pa, width, v), NEW c, CacheOK(c),
         Copies(c, BlockOf(pa)) # {}, NEW way, way = HitWay(c, pa)
  PROVE  StoredBoth(mem, m, c, StoreLine(c, pa, way, width, v))
<1> DEFINE d == StoreLine(c, pa, way, width, v)
           B == BlockOf(pa)
           x == SetOf(pa)
           k == WordIn(pa)
           new == InsertLanes(c[x][way].line[k], pa, width, v)
<1>0. OneWord(mem, m, pa) /\ m[pa \div 4] = InsertLanes(mem[pa \div 4], pa, width, v)
  BY DEF WordStored
<1>1. B \in Nat /\ k \in LineIds /\ pa \div 4 = WordOf(B, k)
  BY WordBlock
<1>2. x \in CacheSetIds /\ x = B % CacheSets
  BY <1>1, BlockSet DEF SetOf
<1> HIDE DEF B, x, k
<1>3. /\ DOMAIN d = CacheSetIds
      /\ \A y \in CacheSetIds : y # x => d[y] = c[y]
      /\ d[x] = [c[x] EXCEPT ![way].line[k] = InsertLanes(@, pa, width, v)]
  BY <1>2 DEF CacheOK, StoreLine, x, k
<1> HIDE DEF d
<1>4. /\ DOMAIN d[x] = Ways
      /\ \A w \in Ways : w # way => d[x][w] = c[x][w]
      /\ way \in Ways => d[x][way] = [c[x][way] EXCEPT !.line[k] = new]
  BY <1>2, <1>3 DEF CacheOK
<1>5. way \in Ways => /\ DOMAIN d[x][way] = {"tag", "lru", "line"}
                      /\ d[x][way].tag = c[x][way].tag
                      /\ d[x][way].line = [c[x][way].line EXCEPT ![k] = new]
  <2> HIDE DEF new
  <2> QED BY <1>2, <1>4 DEF CacheOK
<1>6. way \in Ways => /\ DOMAIN d[x][way].line = LineIds
                      /\ d[x][way].line[k] = new
                      /\ \A i \in LineIds : i # k => d[x][way].line[i] = c[x][way].line[i]
  <2> HIDE DEF new
  <2> QED BY <1>1, <1>2, <1>5 DEF CacheOK
<1>7. /\ CacheOK(d)
      /\ \A y \in CacheSetIds, w \in Ways : ~(y = x /\ w = way) => SameWay(c, d, y, w)
  <2>1. \A w \in Ways : w # way => Ages(c, d, x, w)
    BY <1>4 DEF Ages
  <2>2. DOMAIN d = CacheSetIds /\ \A y \in CacheSetIds : y # x => d[y] = c[y]
    BY <1>3
  <2>3. DOMAIN d[x] = Ways
    BY <1>4
  <2>4. way \in Ways => /\ DOMAIN d[x][way] = {"tag", "lru", "line"}
                        /\ DOMAIN d[x][way].line = LineIds
    BY <1>5, <1>6
  <2> QED BY <1>2, <2>1, <2>2, <2>3, <2>4, OneWaySet
<1>8. \A y \in CacheSetIds, w \in Ways : d[y][w].tag = c[y][w].tag
  BY <1>5, <1>7 DEF SameWay
<1>9. \A b \in Nat : Copies(d, b) = Copies(c, b)
  BY <1>8, BlockSet DEF Copies
<1>10. ASSUME NEW b \in Nat, Once(c, b), Right(mem, c, b)
       PROVE  Right(m, d, b)
  <2>1. CASE b # B
    <3>1. Right(m, c, b)
      <4>1. b # BlockOf(pa)
        BY <2>1 DEF B
      <4> QED BY <1>0, <1>10, <4>1, WriteElsewhere
    <3>2. \A w \in Copies(c, b) : ~(b % CacheSets = x /\ w = way)
      <4> SUFFICES ASSUME NEW w \in Copies(c, b), b % CacheSets = x, w = way
                   PROVE  FALSE
        OBVIOUS
      <4>1. PICK u : u \in Copies(c, B)
        BY DEF B
      <4>2. b \div CacheSets # B \div CacheSets
        BY <1>1, <1>2, <2>1, BlockTag
      <4>3. HitWays(c, pa) = Copies(c, B) /\ HitWays(c, pa) # {}
        BY HitsAreCopies DEF B
      <4>4. way \in Copies(c, B)
        BY <4>3, HitWayHits DEF B
      <4> QED BY <1>2, <4>2, <4>4 DEF Copies
    <3>3. \A w \in Copies(c, b) : w \in Ways /\ SameWay(c, d, b % CacheSets, w)
      BY <1>7, <3>2, BlockSet DEF Copies
    <3> QED BY <1>9, <3>1, <3>3 DEF Right, SameWay, Holds
  <2>2. CASE b = B
    <3>1. way \in Copies(c, B)
      BY HitWayHits DEF B
    <3>2. Copies(d, b) = {way} /\ way \in Ways
      BY <1>9, <1>10, <2>2, <3>1 DEF Once, Copies
    <3>3. Holds(mem, c, B, x, way)
      BY <1>2, <1>10, <2>2, <3>1 DEF Right
    <3>4. c[x][way].line[k] = mem[WordOf(B, k)]
      BY <1>1, <3>3 DEF Holds
    <3>5. m[WordOf(B, k)] = new /\ DOMAIN m = DOMAIN mem
      BY <1>0, <1>1, <3>4 DEF OneWord
    <3>6. \A i \in LineIds : i # k => WordOf(B, i) # WordOf(B, k)
      BY <1>1, OneBlock
    <3>7. \A i \in LineIds : i # k => m[WordOf(B, i)] = mem[WordOf(B, i)]
      BY <1>0, <1>1, <3>3, <3>6 DEF Holds, OneWord
    <3>8. Holds(m, d, B, x, way)
      <4> HIDE DEF new
      <4> QED BY <1>1, <1>6, <3>2, <3>3, <3>5, <3>7 DEF Holds
    <3> QED BY <1>2, <2>2, <3>2, <3>8 DEF Right
  <2> QED BY <2>1, <2>2
<1> QED BY <1>7, <1>9, <1>10 DEF d, StoredBoth

PathFields ==
  {"kind", "mem", "tlb", "dc", "ic", "dce", "ice", "mme", "sm", "ci", "pa",
   "exc", "precise", "clean", "swept", "fresh"}

TlbFields == {"v", "page", "ppn", "ci", "may", "lru"}
TlbOK(t) ==
  /\ DOMAIN t = 0 .. TlbSets - 1
  /\ \A x \in 0 .. TlbSets - 1 :
       /\ DOMAIN t[x] = TlbWayIds
       /\ \A w \in TlbWayIds : DOMAIN t[x][w] = TlbFields /\ t[x][w].ppn \in Nat

(* In a set that was invalidated as a whole every block is there at most   *)
(* once, and as memory has it if nobody has written around the cache; in   *)
(* the instruction cache copies of blocks not written since are right.     *)
DcGood(s) ==
  \A b \in Nat : b % CacheSets \in s.swept =>
                   Once(s.dc, b) /\ (b \in s.clean => Right(s.mem, s.dc, b))
IcGood(s) == \A b \in Nat : b \in s.fresh => Right(s.mem, s.ic, b)

(* The inductive invariant.                                                *)
PathInv(s) ==
  /\ DOMAIN s = PathFields /\ s.kind \in {"data", "insn"}
  /\ DOMAIN s.mem = PathWords /\ CacheOK(s.dc) /\ CacheOK(s.ic) /\ TlbOK(s.tlb)
  /\ s.fresh \subseteq Nat /\ s.precise = TRUE
  /\ s.kind = "data" => DcGood(s)
  /\ s.kind = "insn" => IcGood(s)

(* What neither a translation nor a switch changes.                        *)
SameStore(s, t) ==
  /\ DOMAIN t = PathFields /\ TlbOK(t.tlb)
  /\ t.kind = s.kind /\ t.mem = s.mem /\ t.dc = s.dc /\ t.ic = s.ic
  /\ t.precise = s.precise /\ t.clean = s.clean /\ t.swept = s.swept
  /\ t.fresh = s.fresh

(* The invariant is about the caches, memory and the TLB only.             *)
LEMMA SameStoreInv ==
  ASSUME NEW s, NEW t, PathInv(s), SameStore(s, t)
  PROVE  PathInv(t)
BY DEF PathInv, SameStore, DcGood, IcGood

(* The end of an access that is undone, and its start.                     *)
LEMMA FlagsSame ==
  ASSUME NEW s, PathInv(s), NEW e
  PROVE  /\ SameStore(s, [s EXCEPT !.exc = e]) /\ [s EXCEPT !.exc = e].exc = e
         /\ SameStore(s, [s EXCEPT !.pa = e]) /\ [s EXCEPT !.pa = e].exc = s.exc
BY DEF PathInv, SameStore, PathFields

(* A matching entry of the TLB is one of the entries, and its page a       *)
(* number.                                                                 *)
LEMMA TlbHitIs ==
  ASSUME NEW s, TlbOK(s.tlb), NEW ea \in Nat, find_tlbmr(s, ea) # {}
  PROVE  /\ TlbSet(ea) \in 0 .. TlbSets - 1 /\ TlbWay(s, ea) \in TlbWayIds
         /\ TlbHit(s, ea) = s.tlb[TlbSet(ea)][TlbWay(s, ea)]
         /\ TlbPhys(TlbHit(s, ea), ea) \in Nat
<1> DEFINE S == find_tlbmr(s, ea)
<1>1. TlbSets \in Nat \ {0} /\ TlbWays \in Nat \ {0} /\ TlbPage \in Nat \ {0}
  BY PathAssumption
<1>2. S \in SUBSET TlbWayIds /\ S \in SUBSET Nat
  BY DEF find_tlbmr, TlbWayIds
<1>3. \E m \in S : \A k \in S : m <= k
  BY <1>2, LeastNat
<1>4. TlbWay(s, ea) \in TlbWayIds
  BY <1>2, <1>3 DEF TlbWay, Min
<1>5. ea \div TlbPage \in Nat /\ ea % TlbPage \in 0 .. TlbPage - 1
  BY <1>1, NatDivMod
<1>6. TlbSet(ea) \in 0 .. TlbSets - 1
  BY <1>1, <1>5, NatDivMod DEF TlbSet
<1>7. TlbHit(s, ea).ppn \in Nat
  BY <1>4, <1>6 DEF TlbHit, TlbOK
<1>8. TlbPhys(TlbHit(s, ea), ea) \in Nat
  BY <1>1, <1>5, <1>7, SMT DEF TlbPhys
<1> QED BY <1>4, <1>6, <1>8 DEF TlbHit

(* The usage counts of the TLB.                                            *)
LEMMA TlbUseSame ==
  ASSUME NEW s, PathInv(s), NEW ea \in Nat, TlbSet(ea) \in 0 .. TlbSets - 1
  PROVE  /\ SameStore(s, TlbUse(s, ea)) /\ TlbUse(s, ea).exc = s.exc
         /\ TlbUse(s, ea).ci = s.ci /\ TlbUse(s, ea).pa = s.pa
<1> DEFINE x == TlbSet(ea)
           u == TlbUse(s, ea)
<1>1. /\ DOMAIN u = PathFields
      /\ \A f \in PathFields : f # "tlb" => u[f] = s[f]
  BY DEF TlbUse, PathInv, PathFields
<1>2. /\ DOMAIN u.tlb = 0 .. TlbSets - 1 /\ DOMAIN u.tlb[x] = TlbWayIds
      /\ \A y \in 0 .. TlbSets - 1 : y # x => u.tlb[y] = s.tlb[y]
      /\ \A w \in TlbWayIds : \E n : u.tlb[x][w] = [s.tlb[x][w] EXCEPT !.lru = n]
  BY DEF TlbUse, PathInv, PathFields, TlbOK
<1> HIDE DEF u, x
<1>3. ASSUME NEW w \in TlbWayIds
      PROVE  DOMAIN u.tlb[x][w] = TlbFields /\ u.tlb[x][w].ppn \in Nat
  <2>1. PICK n : u.tlb[x][w] = [s.tlb[x][w] EXCEPT !.lru = n]
    BY <1>2
  <2>2. DOMAIN s.tlb[x][w] = TlbFields /\ s.tlb[x][w].ppn \in Nat
    BY DEF PathInv, TlbOK, x
  <2> QED BY <2>1, <2>2 DEF TlbFields
<1>4. TlbOK(u.tlb)
  BY <1>2, <1>3 DEF TlbOK, PathInv, x
<1>5. SameStore(s, u) /\ u.exc = s.exc /\ u.ci = s.ci /\ u.pa = s.pa
  BY <1>1, <1>4 DEF SameStore, PathFields
<1> QED BY <1>5 DEF u

(* A translation changes neither memory nor a cache; its result is an      *)
(* address.                                                                *)
LEMMA DmmuDoes ==
  ASSUME NEW s, PathInv(s), s.exc = "", NEW ea \in Nat, NEW write
  PROVE  LET t == dmmu_translate(s, ea, write)
         IN  SameStore(s, t) /\ t.pa \in Nat /\ t.exc \in {"", "DTLBMISS", "DPF"}
<1> DEFINE e == TlbHit(s, ea)
           n == TlbUse(s, ea)
           u == [n EXCEPT !.ci = e.ci, !.pa = TlbPhys(e, ea)]
<1>0. DOMAIN s = PathFields /\ TlbOK(s.tlb)
  BY DEF PathInv
<1>1. CASE ~s.mme
  BY <1>0, <1>1 DEF dmmu_translate, SameStore, PathFields
<1>2. CASE s.mme /\ find_tlbmr(s, ea) = {}
  BY <1>0, <1>2 DEF dmmu_translate, TlbFault, SameStore, PathFields
<1>3. CASE s.mme /\ find_tlbmr(s, ea) # {}
  <2>1. SameStore(s, n) /\ n.exc = "" /\ TlbPhys(e, ea) \in Nat
    BY <1>0, <1>3, TlbHitIs, TlbUseSame
  <2> HIDE DEF n, e
  <2>2. SameStore(s, u) /\ u.exc = "" /\ u.pa \in Nat
    BY <2>1 DEF SameStore, PathFields
  <2>3. SameStore(s, TlbFault(u, "DPF")) /\ TlbFault(u, "DPF").exc = "DPF"
        /\ TlbFault(u, "DPF").pa \in Nat
    <3> HIDE DEF u
    <3> QED BY <2>2 DEF SameStore, PathFields, TlbFault
  <2>4. dmmu_translate(s, ea, write) =
          IF DataRight(s, write) \in e.may THEN u ELSE TlbFault(u, "DPF")
    BY <1>3 DEF dmmu_translate, n, e
  <2> HIDE DEF u
  <2> QED BY <2>2, <2>3, <2>4
<1> QED BY <1>1, <1>2, <1>3

(* immu_translate() changes no stored word.                                *)
LEMMA ImmuDoes ==
  ASSUME NEW s, PathInv(s), s.exc = "", NEW ea \in Nat
  PROVE  LET t == immu_translate(s, ea) IN SameStore(s, t) /\ t.pa \in Nat
<1> DEFINE e == TlbHit(s, ea)
           n == TlbUse(s, ea)
           u == [n EXCEPT !.ci = e.ci, !.pa = TlbPhys(e, ea)]
<1>0. DOMAIN s = PathFields /\ TlbOK(s.tlb)
  BY DEF PathInv
<1>1. CASE ~s.mme
  BY <1>0, <1>1 DEF immu_translate, SameStore, PathFields
<1>2. CASE s.mme /\ find_tlbmr(s, ea) = {}
  BY <1>0, <1>2 DEF immu_translate, TlbFault, SameStore, PathFields
<1>3. CASE s.mme /\ find_tlbmr(s, ea) # {}
  <2>1. SameStore(s, n) /\ n.exc = "" /\ TlbPhys(e, ea) \in Nat
    BY <1>0, <1>3, TlbHitIs, TlbUseSame
  <2> HIDE DEF n, e
  <2>2. SameStore(s, u) /\ u.exc = "" /\ u.pa \in Nat
    BY <2>1 DEF SameStore, PathFields
  <2>3. SameStore(s, TlbFault(u, "IPF")) /\ TlbFault(u, "IPF").pa \in Nat
    <3> HIDE DEF u
    <3> QED BY <2>2 DEF SameStore, PathFields, TlbFault
  <2>4. immu_translate(s, ea) = u \/ immu_translate(s, ea) = TlbFault(u, "IPF")
    BY <1>3 DEF immu_translate, n, e
  <2> HIDE DEF u
  <2> QED BY <2>2, <2>3, <2>4
<1> QED BY <1>1, <1>2, <1>3

(* So do the accesses of the simulator itself.                             *)
LEMMA PeekDoes ==
  ASSUME NEW s, PathInv(s), NEW ea \in Nat, NEW write, NEW dc
  PROVE  LET t == peek_into_dtlb(s, ea, write, dc)
             u == peek_into_itlb(s, ea)
         IN  SameStore(s, t) /\ t.pa \in Nat /\ SameStore(s, u) /\ u.pa \in Nat
<1> DEFINE e == TlbHit(s, ea)
<1>0. DOMAIN s = PathFields /\ TlbOK(s.tlb)
  BY DEF PathInv
<1>1. CASE ~s.mme
  BY <1>0, <1>1 DEF peek_into_dtlb, peek_into_itlb, SameStore, PathFields
<1>2. CASE s.mme /\ find_tlbmr(s, ea) = {}
  BY <1>0, <1>2 DEF peek_into_dtlb, peek_into_itlb, SameStore, PathFields
<1>3. CASE s.mme /\ find_tlbmr(s, ea) # {}
  <2>1. TlbPhys(e, ea) \in Nat
    BY <1>0, <1>3, TlbHitIs
  <2> DEFINE p == TlbPhys(e, ea)
  <2>2. LET t == peek_into_dtlb(s, ea, write, dc)
        IN  t = [s EXCEPT !.pa = 0] \/ \E c : t = [s EXCEPT !.ci = c, !.pa = p]
    BY <1>3 DEF peek_into_dtlb
  <2>3. LET u == peek_into_itlb(s, ea)
        IN  u = [s EXCEPT !.pa = 0] \/ u = [s EXCEPT !.pa = p]
    BY <1>3 DEF peek_into_itlb
  <2> HIDE DEF p
  <2>4. p \in Nat
    BY <2>1 DEF p
  <2>5. ASSUME NEW q, q = [s EXCEPT !.pa = 0] PROVE SameStore(s, q) /\ q.pa \in Nat
    BY <1>0, <2>5 DEF SameStore, PathFields
  <2>8. ASSUME NEW q, q = [s EXCEPT !.pa = p] PROVE SameStore(s, q) /\ q.pa \in Nat
    BY <1>0, <2>4, <2>8 DEF SameStore, PathFields
  <2>9. ASSUME NEW q, NEW c, q = [s EXCEPT !.ci = c, !.pa = p]
        PROVE  SameStore(s, q) /\ q.pa \in Nat
    BY <1>0, <2>4, <2>9 DEF SameStore, PathFields
  <2> DEFINE t == peek_into_dtlb(s, ea, write, dc)
             u == peek_into_itlb(s, ea)
  <2>6. SameStore(s, t) /\ t.pa \in Nat
    <3> HIDE DEF t
    <3>1. CASE t = [s EXCEPT !.pa = 0]
      BY <2>5, <3>1
    <3>2. CASE \E c : t = [s EXCEPT !.ci = c, !.pa = p]
      BY <2>9, <3>2
    <3> QED BY <2>2, <3>1, <3>2 DEF t
  <2>7. SameStore(s, u) /\ u.pa \in Nat
    <3> HIDE DEF u
    <3>1. CASE u = [s EXCEPT !.pa = 0]
      BY <2>5, <3>1
    <3>2. CASE u = [s EXCEPT !.pa = p]
      BY <2>8, <3>2
    <3> QED BY <2>3, <3>1, <3>2 DEF u
  <2> QED BY <2>6, <2>7
<1> QED BY <1>1, <1>2, <1>3

(* The data side keeps the invariant if it keeps its own part of it.       *)
LEMMA DataInv ==
  ASSUME NEW s, NEW t, PathInv(s), s.kind = "data", DOMAIN t = PathFields,
         t.kind = "data", DOMAIN t.mem = PathWords, CacheOK(t.dc), t.ic = s.ic,
         t.tlb = s.tlb, t.fresh \subseteq s.fresh, t.precise = s.precise, DcGood(t)
  PROVE  PathInv(t)
BY DEF PathInv

(* What is left to show of a step of the instruction side.                 *)
LEMMA InsnInv ==
  ASSUME NEW s, NEW t, PathInv(s), s.kind = "insn", DOMAIN t = PathFields,
         t.kind = "insn", DOMAIN t.mem = PathWords, t.dc = s.dc, CacheOK(t.ic),
         t.tlb = s.tlb, t.fresh \subseteq Nat, t.precise = s.precise, IcGood(t)
  PROVE  PathInv(t)
BY DEF PathInv

(* dc_simulate_read() changes no memory, and brings in only what memory    *)
(* holds.                                                                  *)
LEMMA DcReadDoes ==
  ASSUME NEW s, PathInv(s), s.kind = "data", s.exc = "", NEW pa \in Nat
  PROVE  LET t == dc_simulate_read(s, pa)
         IN  PathInv(t) /\ t.kind = s.kind /\ t.precise = s.precise
             /\ t.exc \in {"", "BUSERR"}
<1> DEFINE B == BlockOf(pa)
           t == dc_simulate_read(s, pa)
<1>1. B \in Nat /\ DOMAIN s = PathFields /\ CacheOK(s.dc) /\ DcGood(s)
  BY WordBlock DEF PathInv
<1>2. CASE ~s.dce \/ s.ci
  <2>1. t = s \/ t = [s EXCEPT !.exc = "BUSERR"]
    BY <1>2 DEF dc_simulate_read, MemRead, BusError
  <2> HIDE DEF t
  <2>2. CASE t = s
    BY <2>2 DEF t
  <2>3. CASE t = [s EXCEPT !.exc = "BUSERR"]
    <3>1. SameStore(s, t) /\ t.exc = "BUSERR"
      BY <2>3, FlagsSame
    <3> QED BY <3>1, SameStoreInv DEF SameStore, t
  <2> QED BY <2>1, <2>2, <2>3 DEF t
<1>3. CASE ~(~s.dce \/ s.ci) /\ Copies(s.dc, B) # {}
  <2> DEFINE c == Touch(s.dc, pa, HitWay(s.dc, pa))
  <2>1. CacheOK(c) /\ SameLines(s.dc, c)
    BY <1>1, TouchKeeps
  <2> HIDE DEF c
  <2>2. \A b \in Nat : /\ Copies(c, b) = Copies(s.dc, b)
                       /\ Once(s.dc, b) => Once(c, b)
                       /\ Right(s.mem, s.dc, b) => Right(s.mem, c, b)
    BY <2>1, SameCopies
  <2>3. HitWays(s.dc, pa) # {} /\ HitWays(c, pa) # {}
    BY <1>1, <1>3, <2>2, HitsAreCopies
  <2>4. t = [s EXCEPT !.dc = c, !.clean = @]
    BY <1>3, <2>3 DEF dc_simulate_read, c
  <2> HIDE DEF t
  <2>5. /\ DOMAIN t = PathFields /\ t.dc = c /\ t.clean = s.clean
        /\ \A f \in PathFields : f \notin {"dc", "clean"} => t[f] = s[f]
    BY <1>1, <2>4 DEF PathFields
  <2>6. /\ t.mem = s.mem /\ t.swept = s.swept /\ t.kind = s.kind /\ t.ic = s.ic
        /\ t.tlb = s.tlb /\ t.fresh = s.fresh /\ t.precise = s.precise /\ t.exc = s.exc
    BY <2>5 DEF PathFields
  <2>7. DcGood(t)
    BY <1>1, <2>2, <2>5, <2>6 DEF DcGood
  <2>8. PathInv(t)
    BY <2>1, <2>5, <2>6, <2>7, DataInv DEF PathInv
  <2> QED BY <2>6, <2>8 DEF t
<1>4. CASE ~(~s.dce \/ s.ci) /\ Copies(s.dc, B) = {}
  <2> DEFINE c == Refill(s.mem, s.dc, pa, LeastUsed(s.dc, pa))
  <2>1. CacheOK(c) /\ Refilled(s.mem, s.dc, c, B)
    BY <1>1, RefillDoes
  <2> HIDE DEF c
  <2>2. /\ Once(c, B) /\ Right(s.mem, c, B)
        /\ \A b \in Nat : /\ Once(s.dc, b) => Once(c, b)
                          /\ b # B /\ Right(s.mem, s.dc, b) => Right(s.mem, c, b)
    BY <1>1, <1>4, <2>1, RefillRight
  <2>3. HitWays(s.dc, pa) = {}
    BY <1>4, HitsAreCopies
  <2>4. \/ t = [s EXCEPT !.dc = c, !.exc = "BUSERR"]
        \/ t = [s EXCEPT !.dc = c, !.clean = @ \cup {B}]
    BY <1>1, <1>4, <2>3 DEF dc_simulate_read, c, BusError, PathFields
  <2> HIDE DEF t
  <2>5. /\ DOMAIN t = PathFields /\ t.dc = c /\ t.clean \subseteq s.clean \cup {B}
        /\ t.exc \in {"", "BUSERR"}
        /\ \A f \in PathFields : f \notin {"dc", "clean", "exc"} => t[f] = s[f]
    BY <1>1, <2>4 DEF PathFields
  <2>6. /\ t.mem = s.mem /\ t.swept = s.swept /\ t.kind = s.kind /\ t.ic = s.ic
        /\ t.tlb = s.tlb /\ t.fresh = s.fresh /\ t.precise = s.precise
    BY <2>5 DEF PathFields
  <2>7. DcGood(t)
    BY <1>1, <2>2, <2>5, <2>6 DEF DcGood
  <2>8. PathInv(t)
    BY <2>1, <2>5, <2>6, <2>7, DataInv DEF PathInv
  <2> QED BY <2>5, <2>6, <2>8 DEF t
<1> QED BY <1>2, <1>3, <1>4

(* dc_simulate_write() writes memory, and the same to the copy there is or *)
(* to the one it brings in.                                                *)
LEMMA DcWriteDoes ==
  ASSUME NEW s, PathInv(s), s.kind = "data", s.exc = "", NEW pa \in Nat,
         NEW width, NEW v
  PROVE  LET t == dc_simulate_write(s, pa, width, v)
         IN  PathInv(t) /\ t.kind = s.kind /\ t.precise = s.precise
             /\ t.exc \in {"", "BUSERR"}
<1> DEFINE B == BlockOf(pa)
           new == InsertLanes(s.mem[pa \div 4], pa, width, v)
           mem == [s.mem EXCEPT ![pa \div 4] = new]
           m == [s EXCEPT !.mem = mem]
           t == dc_simulate_write(s, pa, width, v)
<1>1. /\ B \in Nat /\ DOMAIN s = PathFields /\ CacheOK(s.dc) /\ DcGood(s)
      /\ DOMAIN s.mem = PathWords
  BY WordBlock DEF PathInv
<1>2. CASE pa \div 4 \notin DOMAIN s.mem
  <2>1. t = [s EXCEPT !.exc = "BUSERR"]
    BY <1>2 DEF dc_simulate_write, BusError
  <2> HIDE DEF t
  <2>2. SameStore(s, t) /\ t.exc = "BUSERR"
    BY <2>1, FlagsSame
  <2> QED BY <2>2, SameStoreInv DEF SameStore, t
<1>3. CASE pa \div 4 \in DOMAIN s.mem
  <2>0. OneWord(s.mem, mem, pa) /\ mem[pa \div 4] = new
    <3> HIDE DEF new
    <3> QED BY <1>3 DEF OneWord
  <2>1. \A c, b : b \in Nat /\ b # B /\ Right(s.mem, c, b) => Right(mem, c, b)
    <3> SUFFICES ASSUME NEW c, NEW b \in Nat, b # B, Right(s.mem, c, b)
                 PROVE  Right(mem, c, b)
      OBVIOUS
    <3> HIDE DEF mem
    <3> QED BY <2>0, WriteElsewhere
  <2>2. DOMAIN mem = PathWords /\ m.mem = mem
    BY <1>1 DEF PathFields
  <2>3. m = [s EXCEPT !.mem[pa \div 4] = InsertLanes(@, pa, width, v)]
    OBVIOUS
  <2>4. ASSUME NEW d, NEW u, DOMAIN u = PathFields, u.mem = mem, u.dc = d,
               \A f \in PathFields : f \notin {"mem", "dc", "clean", "exc"} => u[f] = s[f],
               CacheOK(d), DcGood(u)
        PROVE  PathInv(u) /\ u.kind = s.kind /\ u.precise = s.precise
    <3>1. /\ u.swept = s.swept /\ u.kind = s.kind /\ u.ic = s.ic
          /\ u.tlb = s.tlb /\ u.fresh = s.fresh /\ u.precise = s.precise
      BY <2>4 DEF PathFields
    <3> HIDE DEF mem
    <3> QED BY <2>2, <2>4, <3>1, DataInv
  <2>5. CASE ~s.dce \/ s.ci
    <3>1. t = [m EXCEPT !.clean = @ \ {B}]
      BY <1>3, <2>3, <2>5 DEF dc_simulate_write
    <3> HIDE DEF mem
    <3>2. /\ DOMAIN t = PathFields /\ t.mem = mem /\ t.dc = s.dc
          /\ t.clean = s.clean \ {B} /\ t.exc = ""
          /\ \A f \in PathFields : f \notin {"mem", "clean"} => t[f] = s[f]
      <4> HIDE DEF t
      <4> QED BY <1>1, <3>1 DEF PathFields
    <3>3. t.swept = s.swept
      BY <3>2 DEF PathFields
    <3> HIDE DEF t
    <3>4. DcGood(t)
      BY <1>1, <2>1, <3>2, <3>3 DEF DcGood
    <3>5. PathInv(t) /\ t.kind = s.kind /\ t.precise = s.precise
      BY <1>1, <2>4, <3>2, <3>4
    <3> QED BY <3>2, <3>5 DEF t
  <2>6. CASE ~(~s.dce \/ s.ci) /\ Copies(s.dc, B) # {}
    <3> DEFINE way == HitWay(s.dc, pa)
               c == Touch(s.dc, pa, way)
               d == StoreLine(c, pa, way, width, v)
    <3>1. CacheOK(c) /\ SameLines(s.dc, c)
      BY <1>1, TouchKeeps
    <3>2. t = [m EXCEPT !.dc = d]
      <4>1. HitWays(s.dc, pa) # {}
        BY <2>6, HitsAreCopies
      <4> QED BY <1>3, <2>3, <2>6, <4>1 DEF dc_simulate_write, StoreLine
    <3> HIDE DEF c
    <3>3. \A b \in Nat : /\ Copies(c, b) = Copies(s.dc, b)
                         /\ Once(s.dc, b) => Once(c, b)
                         /\ Right(s.mem, s.dc, b) => Right(s.mem, c, b)
      BY <3>1, SameCopies
    <3>4. way = HitWay(c, pa) /\ Copies(c, BlockOf(pa)) # {}
      BY <1>1, <2>6, <3>3, HitsAreCopies DEF HitWay
    <3>5. /\ CacheOK(d)
          /\ \A b \in Nat :
               /\ Copies(d, b) = Copies(c, b)
               /\ Once(c, b) /\ Right(s.mem, c, b) => Right(mem, d, b)
      <4>1. WordStored(s.mem, mem, pa, width, v)
        BY <2>0 DEF WordStored
      <4> HIDE DEF way, mem
      <4>2. StoredBoth(s.mem, mem, c, StoreLine(c, pa, way, width, v))
        BY <3>1, <3>4, <4>1, WriteBoth
      <4> QED BY <4>2 DEF StoredBoth
    <3> HIDE DEF d, mem
    <3>6. /\ DOMAIN t = PathFields /\ t.mem = mem /\ t.dc = d
          /\ t.clean = s.clean /\ t.exc = ""
          /\ \A f \in PathFields : f \notin {"mem", "dc"} => t[f] = s[f]
      <4> HIDE DEF t
      <4> QED BY <1>1, <3>2 DEF PathFields
    <3>7. t.swept = s.swept
      BY <3>6 DEF PathFields
    <3> HIDE DEF t
    <3>8. DcGood(t)
      <4> SUFFICES ASSUME NEW b \in Nat, b % CacheSets \in s.swept
                   PROVE  Once(d, b) /\ (b \in s.clean => Right(mem, d, b))
        BY <3>6, <3>7 DEF DcGood
      <4>1. Once(s.dc, b) /\ (b \in s.clean => Right(s.mem, s.dc, b))
        BY <1>1 DEF DcGood
      <4>2. Once(c, b) /\ (b \in s.clean => Right(s.mem, c, b))
        BY <3>3, <4>1
      <4>3. Once(d, b)
        BY <3>5, <4>2 DEF Once
      <4> QED BY <3>5, <4>2, <4>3
    <3>9. PathInv(t) /\ t.kind = s.kind /\ t.precise = s.precise
      BY <2>4, <3>5, <3>6, <3>8
    <3> QED BY <3>6, <3>9 DEF t
  <2>7. CASE ~(~s.dce \/ s.ci) /\ Copies(s.dc, B) = {}
    <3> DEFINE c == Refill(mem, s.dc, pa, WriteVictim(s.dc, pa))
    <3>1. CacheOK(c) /\ Refilled(mem, s.dc, c, B)
      <4> HIDE DEF mem
      <4> QED BY <1>1, RefillDoes
    <3>2. \/ t = [m EXCEPT !.dc = c, !.exc = "BUSERR"]
          \/ t = [m EXCEPT !.dc = c, !.clean = @ \cup {B}]
      <4>1. HitWays(s.dc, pa) = {}
        BY <2>7, HitsAreCopies
      <4> QED BY <1>1, <1>3, <2>2, <2>3, <2>7, <4>1
              DEF dc_simulate_write, BusError, PathFields
    <3> HIDE DEF c, mem
    <3>3. /\ Once(c, B) /\ Right(mem, c, B)
          /\ \A b \in Nat : /\ Once(s.dc, b) => Once(c, b)
                            /\ b # B /\ Right(mem, s.dc, b) => Right(mem, c, b)
      BY <1>1, <2>7, <3>1, RefillRight
    <3>6. /\ DOMAIN t = PathFields /\ t.mem = mem /\ t.dc = c
          /\ t.clean \subseteq s.clean \cup {B} /\ t.exc \in {"", "BUSERR"}
          /\ \A f \in PathFields : f \notin {"mem", "dc", "clean", "exc"} => t[f] = s[f]
      <4> HIDE DEF t
      <4> QED BY <1>1, <3>2 DEF PathFields
    <3>7. t.swept = s.swept
      BY <3>6 DEF PathFields
    <3> HIDE DEF t
    <3>8. DcGood(t)
      <4> SUFFICES ASSUME NEW b \in Nat, b % CacheSets \in s.swept
                   PROVE  Once(c, b) /\ (b \in t.clean => Right(mem, c, b))
        BY <3>6, <3>7 DEF DcGood
      <4>1. Once(s.dc, b) /\ (b \in s.clean => Right(s.mem, s.dc, b))
        BY <1>1 DEF DcGood
      <4> QED BY <2>1, <3>3, <3>6, <4>1
    <3>9. PathInv(t) /\ t.kind = s.kind /\ t.precise = s.precise
      BY <2>4, <3>1, <3>6, <3>8
    <3> QED BY <3>6, <3>9 DEF t
  <2> QED BY <2>5, <2>6, <2>7
<1> QED BY <1>2, <1>3

(* d is c with some ways of set x emptied.                                 *)
Emptied(c, d, x, E) ==
  /\ DOMAIN d = CacheSetIds /\ \A y \in CacheSetIds : y # x => d[y] = c[y]
  /\ DOMAIN d[x] = Ways
  /\ \A w \in Ways : d[x][w] = IF w \in E THEN EmptyWay(NoTag) ELSE c[x][w]

(* Emptying ways removes copies and changes none.                          *)
LEMMA EmptiedDoes ==
  ASSUME NEW c, CacheOK(c), NEW d, NEW x \in CacheSetIds, NEW E, Emptied(c, d, x, E)
  PROVE  /\ CacheOK(d)
         /\ \A b \in Nat :
              /\ Copies(d, b) \in SUBSET Copies(c, b)
              /\ b % CacheSets = x => Copies(d, b) \cap E = {}
              /\ Once(c, b) => Once(d, b)
         /\ \A b \in Nat : \A mem : Right(mem, c, b) => Right(mem, d, b)
<1>1. /\ DOMAIN EmptyWay(NoTag) = {"tag", "lru", "line"}
      /\ DOMAIN EmptyWay(NoTag).line = LineIds /\ EmptyWay(NoTag).tag = -1
  BY DEF EmptyWay, LineIds, NoTag
<1>2. CacheOK(d)
  BY <1>1 DEF CacheOK, Emptied
<1>3. \A y \in CacheSetIds, w \in Ways : d[y][w] = c[y][w] \/ (y = x /\ d[y][w] = EmptyWay(NoTag))
  BY DEF Emptied
<1>4. ASSUME NEW b \in Nat, NEW w \in Copies(d, b)
      PROVE  w \in Copies(c, b) /\ d[b % CacheSets][w] = c[b % CacheSets][w]
  BY <1>1, <1>3, BlockSet DEF Copies
<1>5. ASSUME NEW b \in Nat, b % CacheSets = x, NEW w \in Copies(d, b)
      PROVE  w \notin E
  BY <1>1, <1>5, BlockSet DEF Copies, Emptied
<1>6. \A b \in Nat : \A mem : Right(mem, c, b) => Right(mem, d, b)
  BY <1>4 DEF Right, Holds
<1> QED BY <1>2, <1>4, <1>5, <1>6 DEF Once

(* dc_inv() removes the copies of a block: all of its set with the cache   *)
(* off, the one there is with the cache on.                                *)
LEMMA DcInvDoes ==
  ASSUME NEW s, PathInv(s), s.kind = "data", NEW a \in Nat
  PROVE  PathInv(dc_inv(s, a))
<1> DEFINE B == BlockOf(a)
           x == SetOf(a)
           t == dc_inv(s, a)
<1>1. /\ B \in Nat /\ x \in CacheSetIds /\ x = B % CacheSets
      /\ DOMAIN s = PathFields /\ CacheOK(s.dc) /\ DcGood(s)
      /\ DOMAIN s.mem = PathWords
  BY WordBlock, BlockSet DEF PathInv, SetOf
<1> HIDE DEF x
<1>2. CASE ~s.dce
  <2> DEFINE d == [s.dc EXCEPT ![x] = [w \in Ways |-> EmptyWay(NoTag)]]
             more == {b \in Blocks(s) : b % CacheSets = x}
  <2>1. t = [s EXCEPT !.dc = d, !.clean = @ \cup more, !.swept = @ \cup {x}]
    BY <1>2 DEF dc_inv, x
  <2>2. Emptied(s.dc, d, x, Ways)
    BY <1>1 DEF Emptied, CacheOK
  <2> HIDE DEF d, t
  <2>3. /\ DOMAIN t = PathFields /\ t.dc = d /\ t.swept = s.swept \cup {x}
        /\ t.clean = s.clean \cup more
        /\ \A f \in PathFields : f \notin {"dc", "clean", "swept"} => t[f] = s[f]
    BY <1>1, <2>1 DEF PathFields
  <2>4. /\ t.mem = s.mem /\ t.kind = s.kind /\ t.ic = s.ic
        /\ t.tlb = s.tlb /\ t.fresh = s.fresh /\ t.precise = s.precise
    BY <2>3 DEF PathFields
  <2>5. /\ CacheOK(d)
        /\ \A b \in Nat :
             /\ Copies(d, b) \in SUBSET Copies(s.dc, b)
             /\ b % CacheSets = x => Copies(d, b) \cap Ways = {}
             /\ Once(s.dc, b) => Once(d, b)
        /\ \A b \in Nat : \A mem : Right(mem, s.dc, b) => Right(mem, d, b)
    BY <1>1, <2>2, EmptiedDoes
  <2>6. DcGood(t)
    <3> SUFFICES ASSUME NEW b \in Nat, b % CacheSets \in s.swept \cup {x}
                 PROVE  Once(d, b) /\ (b \in s.clean \cup more => Right(s.mem, d, b))
      BY <2>3, <2>4 DEF DcGood
    <3>1. CASE b % CacheSets = x
      <4>1. Copies(d, b) = {}
        BY <2>5, <3>1 DEF Copies
      <4> QED BY <4>1 DEF Once, Right
    <3>2. CASE b % CacheSets # x
      BY <1>1, <2>5, <3>2 DEF DcGood
    <3> QED BY <3>1, <3>2
  <2>7. PathInv(t)
    BY <1>1, <2>3, <2>4, <2>5, <2>6, DataInv
  <2> QED BY <2>7 DEF t
<1>3. CASE s.dce /\ Copies(s.dc, B) = {}
  <2>1. HitWays(s.dc, a) = {}
    BY <1>3, HitsAreCopies
  <2> QED BY <1>3, <2>1 DEF dc_inv
<1>4. CASE s.dce /\ Copies(s.dc, B) # {}
  <2> DEFINE way == HitWay(s.dc, a)
             d == [s.dc EXCEPT ![x][way] = EmptyWay(NoTag)]
  <2>1. t = [s EXCEPT !.dc = d, !.clean = @ \cup {B}]
    <3>1. HitWays(s.dc, a) # {}
      BY <1>4, HitsAreCopies
    <3> QED BY <1>4, <3>1 DEF dc_inv, x
  <2>0. way \in Copies(s.dc, B)
    BY <1>4, HitWayHits
  <2> HIDE DEF way
  <2>2. Emptied(s.dc, d, x, {way})
    BY <1>1 DEF Emptied, CacheOK
  <2> HIDE DEF d, t
  <2>3. /\ DOMAIN t = PathFields /\ t.dc = d /\ t.clean = s.clean \cup {B}
        /\ \A f \in PathFields : f \notin {"dc", "clean"} => t[f] = s[f]
    BY <1>1, <2>1 DEF PathFields
  <2>4. /\ t.mem = s.mem /\ t.kind = s.kind /\ t.ic = s.ic /\ t.swept = s.swept
        /\ t.tlb = s.tlb /\ t.fresh = s.fresh /\ t.precise = s.precise
    BY <2>3 DEF PathFields
  <2>5. /\ CacheOK(d)
        /\ \A b \in Nat :
             /\ Copies(d, b) \in SUBSET Copies(s.dc, b)
             /\ b % CacheSets = x => Copies(d, b) \cap {way} = {}
             /\ Once(s.dc, b) => Once(d, b)
        /\ \A b \in Nat : \A mem : Right(mem, s.dc, b) => Right(mem, d, b)
    BY <1>1, <2>2, EmptiedDoes
  <2>6. DcGood(t)
    <3> SUFFICES ASSUME NEW b \in Nat, b % CacheSets \in s.swept
                 PROVE  Once(d, b) /\ (b \in s.clean \cup {B} => Right(s.mem, d, b))
      BY <2>3, <2>4 DEF DcGood
    <3>1. Once(s.dc, b) /\ Once(d, b) /\ (b \in s.clean => Right(s.mem, d, b))
      BY <1>1, <2>5 DEF DcGood
    <3>2. CASE b = B
      <4>1. Copies(d, b) = {}
        BY <1>1, <2>0, <2>5, <3>1, <3>2 DEF Once
      <4> QED BY <3>1, <4>1 DEF Right
    <3> QED BY <3>1, <3>2
  <2>7. PathInv(t)
    BY <1>1, <2>3, <2>4, <2>5, <2>6, DataInv
  <2> QED BY <2>7 DEF t
<1> QED BY <1>2, <1>3, <1>4

(* ic_inv() removes every copy of a block.                                 *)
LEMMA IcInvDoes ==
  ASSUME NEW s, PathInv(s), s.kind = "insn", NEW a \in Nat
  PROVE  PathInv(ic_inv(s, a))
<1> DEFINE B == BlockOf(a)
           x == SetOf(a)
           t == ic_inv(s, a)
           E == {w \in Ways : ~s.ice \/ s.ic[x][w].tag = TagOf(a)}
           d == [s.ic EXCEPT ![x] = [w \in Ways |->
                   IF ~s.ice \/ s.ic[x][w].tag = TagOf(a)
                   THEN EmptyWay(NoTag) ELSE s.ic[x][w]]]
<1>1. /\ B \in Nat /\ x \in CacheSetIds /\ x = B % CacheSets
      /\ DOMAIN s = PathFields /\ CacheOK(s.ic) /\ IcGood(s)
      /\ DOMAIN s.mem = PathWords /\ s.fresh \subseteq Nat
  BY WordBlock, BlockSet DEF PathInv, SetOf
<1>2. t = [s EXCEPT !.ic = d, !.fresh = @ \cup {B}]
  BY DEF ic_inv
<1>3. Emptied(s.ic, d, x, E)
  BY <1>1 DEF Emptied, CacheOK
<1>4. Copies(s.ic, B) \subseteq E
  BY <1>1 DEF Copies, TagOf
<1> HIDE DEF x, d, t, E
<1>5. /\ DOMAIN t = PathFields /\ t.ic = d /\ t.fresh = s.fresh \cup {B}
      /\ \A f \in PathFields : f \notin {"ic", "fresh"} => t[f] = s[f]
  BY <1>1, <1>2 DEF PathFields
<1>6. /\ t.mem = s.mem /\ t.kind = s.kind /\ t.dc = s.dc
      /\ t.tlb = s.tlb /\ t.precise = s.precise
  BY <1>5 DEF PathFields
<1>7. /\ CacheOK(d)
      /\ \A b \in Nat :
           /\ Copies(d, b) \in SUBSET Copies(s.ic, b)
           /\ b % CacheSets = x => Copies(d, b) \cap E = {}
           /\ Once(s.ic, b) => Once(d, b)
      /\ \A b \in Nat : \A mem : Right(mem, s.ic, b) => Right(mem, d, b)
  BY <1>1, <1>3, EmptiedDoes
<1>8. IcGood(t)
  <2> SUFFICES ASSUME NEW b \in Nat, b \in s.fresh \cup {B}
               PROVE  Right(s.mem, d, b)
    BY <1>5, <1>6 DEF IcGood
  <2>1. CASE b = B
    <3>1. Copies(d, b) = {}
      BY <1>1, <1>4, <1>7, <2>1
    <3> QED BY <3>1 DEF Right
  <2>2. CASE b \in s.fresh
    BY <1>1, <1>7, <2>2 DEF IcGood
  <2> QED BY <2>1, <2>2
<1>9. PathInv(t)
  BY <1>1, <1>5, <1>6, <1>7, <1>8, InsnInv
<1> QED BY <1>9 DEF t

(* ic_simulate_fetch() brings in only what memory holds.                   *)
LEMMA IcFetchDoes ==
  ASSUME NEW s, PathInv(s), s.kind = "insn", NEW pa \in Nat
  PROVE  PathInv(ic_simulate_fetch(s, pa))
<1> DEFINE B == BlockOf(pa)
           t == ic_simulate_fetch(s, pa)
<1>1. /\ B \in Nat /\ DOMAIN s = PathFields /\ CacheOK(s.ic) /\ IcGood(s)
      /\ DOMAIN s.mem = PathWords /\ s.fresh \subseteq Nat
  BY WordBlock DEF PathInv
<1>2. CASE ~s.ice \/ s.ci
  <2>1. t = s \/ t = [s EXCEPT !.exc = "BUSERR"]
    BY <1>2 DEF ic_simulate_fetch, MemRead, BusError
  <2> HIDE DEF t
  <2>2. CASE t = s
    BY <2>2 DEF t
  <2>3. CASE t = [s EXCEPT !.exc = "BUSERR"]
    <3>1. SameStore(s, t)
      BY <2>3, FlagsSame
    <3> QED BY <3>1, SameStoreInv DEF t
  <2> QED BY <2>1, <2>2, <2>3 DEF t
<1>3. CASE ~(~s.ice \/ s.ci) /\ Copies(s.ic, B) # {}
  <2> DEFINE c == Touch(s.ic, pa, HitWay(s.ic, pa))
  <2>1. CacheOK(c) /\ SameLines(s.ic, c)
    BY <1>1, TouchKeeps
  <2> HIDE DEF c
  <2>2. \A b \in Nat : /\ Copies(c, b) = Copies(s.ic, b)
                       /\ Right(s.mem, s.ic, b) => Right(s.mem, c, b)
    BY <2>1, SameCopies
  <2>3. HitWays(s.ic, pa) # {} /\ HitWays(c, pa) # {}
    BY <1>1, <1>3, <2>2, HitsAreCopies
  <2>4. t = [s EXCEPT !.ic = c, !.fresh = @]
    BY <1>3, <2>3 DEF ic_simulate_fetch, c
  <2> HIDE DEF t
  <2>5. /\ DOMAIN t = PathFields /\ t.ic = c /\ t.fresh = s.fresh
        /\ \A f \in PathFields : f \notin {"ic", "fresh"} => t[f] = s[f]
    BY <1>1, <2>4 DEF PathFields
  <2>6. /\ t.mem = s.mem /\ t.kind = s.kind /\ t.dc = s.dc
        /\ t.tlb = s.tlb /\ t.precise = s.precise
    BY <2>5 DEF PathFields
  <2>7. IcGood(t)
    BY <1>1, <2>2, <2>5, <2>6 DEF IcGood
  <2>8. PathInv(t)
    BY <1>1, <2>1, <2>5, <2>6, <2>7, InsnInv
  <2> QED BY <2>8 DEF t
<1>4. CASE ~(~s.ice \/ s.ci) /\ Copies(s.ic, B) = {}
  <2> DEFINE c == IcRefill(s.mem, s.ic, pa, LeastUsed(s.ic, pa))
  <2>1. CacheOK(c) /\ Refilled(s.mem, s.ic, c, B)
    BY <1>1, IcRefillDoes
  <2> HIDE DEF c
  <2>2. /\ Right(s.mem, c, B)
        /\ \A b \in Nat : b # B /\ Right(s.mem, s.ic, b) => Right(s.mem, c, b)
    BY <1>1, <1>4, <2>1, RefillRight
  <2>3. HitWays(s.ic, pa) = {}
    BY <1>4, HitsAreCopies
  <2>4. \/ t = [s EXCEPT !.ic = c, !.exc = "BUSERR"]
        \/ t = [s EXCEPT !.ic = c, !.fresh = @ \cup {B}]
    BY <1>1, <1>4, <2>3 DEF ic_simulate_fetch, c, BusError, PathFields
  <2> HIDE DEF t
  <2>5. /\ DOMAIN t = PathFields /\ t.ic = c /\ t.fresh \subseteq s.fresh \cup {B}
        /\ \A f \in PathFields : f \notin {"ic", "fresh", "exc"} => t[f] = s[f]
    BY <1>1, <2>4 DEF PathFields
  <2>6. /\ t.mem = s.mem /\ t.kind = s.kind /\ t.dc = s.dc
        /\ t.tlb = s.tlb /\ t.precise = s.precise
    BY <2>5 DEF PathFields
  <2>7. IcGood(t)
    BY <1>1, <2>2, <2>5, <2>6 DEF IcGood
  <2>8. PathInv(t)
    BY <1>1, <2>1, <2>5, <2>6, <2>7, InsnInv
  <2> QED BY <2>8 DEF t
<1> QED BY <1>2, <1>3, <1>4

(* A write around the caches: the block is neither clean nor fresh.        *)
LEMMA DirectDoes ==
  ASSUME NEW s, PathInv(s), NEW pa \in Nat, NEW v
  PROVE  PathInv(set_direct(s, pa, v))
<1> DEFINE B == BlockOf(pa)
           new == InsertLanes(s.mem[pa \div 4], pa, 1, v)
           mem == [s.mem EXCEPT ![pa \div 4] = new]
           t == set_direct(s, pa, v)
<1>1. CASE pa \div 4 \notin DOMAIN s.mem
  BY <1>1 DEF set_direct
<1>2. CASE pa \div 4 \in DOMAIN s.mem
  <2>1. t = [s EXCEPT !.mem = mem, !.clean = @ \ {B}, !.fresh = @ \ {B}]
    BY <1>2 DEF set_direct
  <2>2. OneWord(s.mem, mem, pa) /\ DOMAIN mem = DOMAIN s.mem
    <3> HIDE DEF new
    <3> QED BY <1>2 DEF OneWord
  <2> HIDE DEF mem, t
  <2>3. \A b \in Nat : \A c : b # B /\ Right(s.mem, c, b) => Right(mem, c, b)
    BY <2>2, WriteElsewhere
  <2>4. /\ DOMAIN t = PathFields /\ t.mem = mem /\ t.clean = s.clean \ {B}
        /\ t.fresh = s.fresh \ {B}
        /\ \A f \in PathFields : f \notin {"mem", "clean", "fresh"} => t[f] = s[f]
    BY <2>1 DEF PathFields, PathInv
  <2>5. /\ t.dc = s.dc /\ t.kind = s.kind /\ t.ic = s.ic /\ t.swept = s.swept
        /\ t.tlb = s.tlb /\ t.precise = s.precise
    BY <2>4 DEF PathFields
  <2>6. DcGood(s) => DcGood(t)
    BY <2>3, <2>4, <2>5 DEF DcGood
  <2>7. IcGood(s) => IcGood(t)
    BY <2>3, <2>4, <2>5 DEF IcGood
  <2>8. PathInv(t)
    BY <2>2, <2>4, <2>5, <2>6, <2>7 DEF PathInv
  <2> QED BY <2>8 DEF t
<1> QED BY <1>1, <1>2

(* An access starts with no exception pending.                             *)
LEMMA StartDoes ==
  ASSUME NEW s, PathInv(s)
  PROVE  PathInv(PathStart(s)) /\ SameStore(s, PathStart(s)) /\ PathStart(s).exc = ""
BY FlagsSame, SameStoreInv DEF PathStart

(* What a failed access leaves: memory and the data cache as they were.    *)
Undone(s, t) ==
  t.exc \in {"ALIGN", "DPF", "DTLBMISS"} => t.dc = s.dc /\ t.mem = s.mem

(* The translated address is used and the rest of the state is as it was.  *)
LEMMA Translated ==
  ASSUME NEW s, PathInv(s), NEW t, SameStore(s, t)
  PROVE  LET u == [t EXCEPT !.pa = 0]
         IN  PathInv(u) /\ SameStore(s, u) /\ u.exc = t.exc /\ u.kind = s.kind
<1> DEFINE u == [t EXCEPT !.pa = 0]
<1>1. PathInv(t)
  BY SameStoreInv
<1>2. SameStore(t, u) /\ u.exc = t.exc
  BY <1>1, FlagsSame
<1> HIDE DEF u
<1>3. SameStore(s, u) /\ u.kind = s.kind
  BY <1>2 DEF SameStore
<1>4. PathInv(u)
  BY <1>3, SameStoreInv
<1> QED BY <1>2, <1>3, <1>4 DEF u

(* eval_mem*() keep the invariant, and a failing one changes nothing.      *)
LEMMA LoadDoes ==
  ASSUME NEW s, PathInv(s), s.kind = "data", NEW ea \in Nat, NEW width
  PROVE  PathInv(eval_mem(s, ea, width)) /\ Undone(s, eval_mem(s, ea, width))
<1> DEFINE p == PathStart(s)
           t == dmmu_translate(p, ea, FALSE)
           u == [t EXCEPT !.pa = 0]
           r == eval_mem(s, ea, width)
<1>1. PathInv(p) /\ SameStore(s, p) /\ p.exc = "" /\ p.kind = "data"
  BY StartDoes DEF SameStore
<1>2. r = IF ea % width # 0 THEN PathAlign(p)
          ELSE IF t.exc # "" THEN u ELSE dc_simulate_read(u, t.pa)
  BY DEF eval_mem
<1> HIDE DEF p
<1>3. SameStore(p, t) /\ t.pa \in Nat
  BY <1>1, DmmuDoes
<1> HIDE DEF t
<1>4. PathInv(u) /\ SameStore(p, u) /\ u.exc = t.exc /\ u.kind = "data"
  BY <1>1, <1>3, Translated
<1> HIDE DEF u, r
<1>5. CASE r = PathAlign(p)
  <2>1. SameStore(p, r)
    BY <1>1, <1>5, FlagsSame DEF PathAlign
  <2> QED BY <1>1, <2>1, SameStoreInv DEF SameStore, Undone, r
<1>6. CASE r = u
  BY <1>1, <1>4, <1>6 DEF SameStore, Undone, r
<1>7. CASE t.exc = "" /\ r = dc_simulate_read(u, t.pa)
  <2>1. PathInv(r) /\ r.exc \in {"", "BUSERR"}
    BY <1>3, <1>4, <1>7, DcReadDoes
  <2> QED BY <2>1 DEF Undone, r
<1> QED BY <1>2, <1>5, <1>6, <1>7

(* set_mem*() likewise.                                                    *)
LEMMA StoreDoes ==
  ASSUME NEW s, PathInv(s), s.kind = "data", NEW ea \in Nat, NEW width, NEW v
  PROVE  PathInv(set_mem(s, ea, width, v)) /\ Undone(s, set_mem(s, ea, width, v))
<1> DEFINE p == PathStart(s)
           t == dmmu_translate(p, ea, TRUE)
           u == [t EXCEPT !.pa = 0]
           r == set_mem(s, ea, width, v)
<1>1. PathInv(p) /\ SameStore(s, p) /\ p.exc = "" /\ p.kind = "data"
  BY StartDoes DEF SameStore
<1>2. r = IF ea % width # 0 THEN PathAlign(p)
          ELSE IF t.exc # "" THEN u ELSE dc_simulate_write(u, t.pa, width, v)
  BY DEF set_mem
<1> HIDE DEF p
<1>3. SameStore(p, t) /\ t.pa \in Nat
  BY <1>1, DmmuDoes
<1> HIDE DEF t
<1>4. PathInv(u) /\ SameStore(p, u) /\ u.exc = t.exc /\ u.kind = "data"
  BY <1>1, <1>3, Translated
<1> HIDE DEF u, r
<1>5. CASE r = PathAlign(p)
  <2>1. SameStore(p, r)
    BY <1>1, <1>5, FlagsSame DEF PathAlign
  <2> QED BY <1>1, <2>1, SameStoreInv DEF SameStore, Undone, r
<1>6. CASE r = u
  BY <1>1, <1>4, <1>6 DEF SameStore, Undone, r
<1>7. CASE t.exc = "" /\ r = dc_simulate_write(u, t.pa, width, v)
  <2>1. PathInv(r) /\ r.exc \in {"", "BUSERR"}
    BY <1>3, <1>4, <1>7, DcWriteDoes
  <2> QED BY <2>1 DEF Undone, r
<1> QED BY <1>2, <1>5, <1>6, <1>7

(* The end of an access.                                                   *)
LEMMA EndDoes ==
  ASSUME NEW s, PathInv(s), Undone(dev, s)
  PROVE  PathInv(PathEnd(s))
<1> DEFINE u == [s EXCEPT !.exc = ""]
           b == s.precise /\ (s.exc \in {"ALIGN", "DPF", "DTLBMISS"}
                               => s.dc = dev.dc /\ s.mem = dev.mem)
           t == PathEnd(s)
<1>1. b = TRUE
  BY DEF PathInv, Undone
<1>2. t = [s EXCEPT !.exc = "", !.precise = b]
  BY DEF PathEnd
<1> HIDE DEF b, t
<1>3. DOMAIN s = PathFields /\ s.precise = TRUE
  BY DEF PathInv
<1>4. DOMAIN t = PathFields /\ \A f \in PathFields : f # "exc" => t[f] = s[f]
  BY <1>1, <1>2, <1>3 DEF PathFields
<1>5. SameStore(s, t)
  BY <1>4 DEF SameStore, PathFields, PathInv
<1> QED BY <1>5, SameStoreInv DEF t

(* The other accesses, of either side.                                     *)
LEMMA OtherAccesses ==
  ASSUME NEW s, PathInv(s), NEW ea \in Nat
  PROVE  /\ s.kind = "data" => PathInv(dc_prefetch(s, ea))
         /\ s.kind = "insn" => PathInv(ic_prefetch(s, ea)) /\ PathInv(eval_insn(s, ea))
<1> DEFINE p == PathStart(s)
<1>1. PathInv(p) /\ SameStore(s, p) /\ p.exc = "" /\ p.kind = s.kind
  BY StartDoes DEF SameStore
<1>2. ASSUME s.kind = "data" PROVE PathInv(dc_prefetch(s, ea))
  <2> DEFINE t == peek_into_dtlb(p, ea, FALSE, TRUE)
             u == [t EXCEPT !.pa = 0]
  <2>1. dc_prefetch(s, ea) = dc_simulate_read(u, t.pa)
    BY DEF dc_prefetch
  <2> HIDE DEF p
  <2>2. SameStore(p, t) /\ t.pa \in Nat
    BY <1>1, PeekDoes
  <2>4. t.exc = ""
    <3>1. DOMAIN p = PathFields
      BY <1>1 DEF PathInv
    <3> QED BY <1>1, <3>1 DEF peek_into_dtlb, PathFields
  <2> HIDE DEF t
  <2>3. PathInv(u) /\ u.exc = t.exc /\ u.kind = "data"
    BY <1>1, <1>2, <2>2, Translated
  <2> HIDE DEF u
  <2> QED BY <2>1, <2>2, <2>3, <2>4, DcReadDoes
<1>3. ASSUME s.kind = "insn" PROVE PathInv(ic_prefetch(s, ea))
  <2> DEFINE t == peek_into_itlb(p, ea)
             u == [t EXCEPT !.pa = 0]
  <2>1. ic_prefetch(s, ea) = ic_simulate_fetch(u, t.pa)
    BY DEF ic_prefetch
  <2> HIDE DEF p
  <2>2. SameStore(p, t) /\ t.pa \in Nat
    BY <1>1, PeekDoes
  <2> HIDE DEF t
  <2>3. PathInv(u) /\ u.kind = "insn"
    BY <1>1, <1>3, <2>2, Translated
  <2> HIDE DEF u
  <2> QED BY <2>1, <2>2, <2>3, IcFetchDoes
<1>4. ASSUME s.kind = "insn" PROVE PathInv(eval_insn(s, ea))
  <2> DEFINE t == immu_translate(p, ea)
             u == [t EXCEPT !.pa = 0]
             r == eval_insn(s, ea)
  <2>1. r = u \/ r = ic_simulate_fetch(u, t.pa)
    BY DEF eval_insn
  <2> HIDE DEF p
  <2>2. SameStore(p, t) /\ t.pa \in Nat
    BY <1>1, ImmuDoes
  <2> HIDE DEF t
  <2>3. PathInv(u) /\ u.kind = "insn"
    BY <1>1, <1>4, <2>2, Translated
  <2> HIDE DEF u, r
  <2>4. PathInv(r)
    BY <2>1, <2>2, <2>3, IcFetchDoes
  <2> QED BY <2>4 DEF r
<1> QED BY <1>2, <1>3, <1>4

(* At reset the data cache claims nothing it was not cleared for, and the  *)
(* instruction cache is empty.                                             *)
LEMMA PathInvInit == PathInit => PathInv(dev)
<1>0. SUFFICES ASSUME NEW k \in {"data", "insn"}, NEW t \in PathTlbs,
                    dev = [kind |-> k, mem |-> [w \in PathWords |-> ZeroWord], tlb |-> t,
                           dc |-> EmptyCache(0), ic |-> EmptyCache(NoTag), dce |-> FALSE,
                           ice |-> FALSE, mme |-> FALSE, sm |-> TRUE, ci |-> FALSE,
                           pa |-> 0, exc |-> "", precise |-> TRUE, clean |-> {},
                           swept |-> {}, fresh |-> {w \div CacheWords : w \in PathWords}]
             PROVE  PathInv(dev)
  BY DEF PathInit
<1> DEFINE F == {w \div CacheWords : w \in PathWords}
<1>1. F \subseteq Nat
  <2>1. ASSUME NEW w \in PathWords PROVE w \div CacheWords \in Nat
    BY PathAssumption, CacheSizes, NatDivMod
  <2> QED BY <2>1
<1>2. \A tag : CacheOK(EmptyCache(tag))
  BY DEF CacheOK, EmptyCache, EmptyWay, CacheSetIds, LineIds
<1>3. \A b \in Nat : Copies(EmptyCache(NoTag), b) = {}
  <2> SUFFICES ASSUME NEW b \in Nat, NEW w \in Ways
               PROVE  EmptyCache(NoTag)[b % CacheSets][w].tag # b \div CacheSets
    BY DEF Copies
  <2>1. EmptyCache(NoTag)[b % CacheSets][w] = EmptyWay(NoTag)
    BY BlockSet DEF EmptyCache, CacheSetIds
  <2>2. EmptyWay(NoTag).tag = -1
    BY DEF EmptyWay, NoTag
  <2>3. b \div CacheSets \in Nat
    BY BlockSet
  <2> QED BY <2>1, <2>2, <2>3
<1>4. TlbOK(t)
  <2>1. t \in [0 .. TlbSets - 1 -> [TlbWayIds -> TlbEntries]]
    BY PathAssumption
  <2>2. \A e \in TlbEntries : DOMAIN e = TlbFields /\ e.ppn \in Nat
    BY DEF TlbEntries, TlbFields
  <2> QED BY <2>1, <2>2 DEF TlbOK
<1> DEFINE D == EmptyCache(0)
           I == EmptyCache(NoTag)
           M == [w \in PathWords |-> ZeroWord]
<1>5. DOMAIN M = PathWords /\ CacheOK(D) /\ CacheOK(I) /\ \A b \in Nat : Copies(I, b) = {}
  BY <1>2, <1>3
<1> HIDE DEF F, D, I, M
<1>6. dev = [kind |-> k, mem |-> M, tlb |-> t, dc |-> D, ic |-> I, dce |-> FALSE,
             ice |-> FALSE, mme |-> FALSE, sm |-> TRUE, ci |-> FALSE, pa |-> 0,
             exc |-> "", precise |-> TRUE, clean |-> {}, swept |-> {}, fresh |-> F]
  BY <1>0 DEF F, D, I, M
<1>7. /\ DOMAIN dev = PathFields /\ dev.kind = k /\ dev.mem = M /\ dev.tlb = t
      /\ dev.dc = D /\ dev.ic = I /\ dev.precise = TRUE /\ dev.swept = {} /\ dev.fresh = F
  <2>1. DOMAIN dev = PathFields
    BY <1>6 DEF PathFields
  <2>2. dev.kind = k /\ dev.mem = M /\ dev.tlb = t /\ dev.dc = D /\ dev.ic = I
    BY <1>6
  <2>3. dev.swept = {} /\ dev.fresh = F
    BY <1>6
  <2>4. dev.precise = TRUE
    BY <1>6
  <2> QED BY <2>1, <2>2, <2>3, <2>4
<1>8. DcGood(dev)
  BY <1>7 DEF DcGood
<1>9. IcGood(dev)
  BY <1>5, <1>7 DEF IcGood, Right
<1> QED BY <1>1, <1>4, <1>5, <1>7, <1>8, <1>9 DEF PathInv

(* Every access, command and switch keeps the invariant.                   *)
LEMMA PathInvStep ==
  ASSUME PathInv(dev), [PathNext]_dev
  PROVE  PathInv(dev')
<1>1. \A a \in PathLoads \cup PathStores : a[1] \in Nat /\ 4 * (a[1] \div 4) \in Nat
  BY PathAssumption
<1>2. ASSUME NEW on, NEW mmu, NEW sup
      PROVE  /\ PathInv([dev EXCEPT !.dce = on, !.mme = mmu, !.sm = sup])
             /\ PathInv([dev EXCEPT !.ice = on, !.mme = mmu, !.sm = sup])
  <2> DEFINE d == [dev EXCEPT !.dce = on, !.mme = mmu, !.sm = sup]
             i == [dev EXCEPT !.ice = on, !.mme = mmu, !.sm = sup]
  <2>1. SameStore(dev, d)
    BY DEF PathInv, SameStore, PathFields
  <2>2. SameStore(dev, i)
    BY DEF PathInv, SameStore, PathFields
  <2> HIDE DEF d, i
  <2>3. PathInv(d) /\ PathInv(i)
    BY <2>1, <2>2, SameStoreInv
  <2> QED BY <2>3 DEF d, i
<1>3. CASE DataLoad
  <2>1. PICK a \in PathLoads : dev' = PathEnd(eval_mem(dev, a[1], a[2]))
    BY <1>3 DEF DataLoad
  <2>2. LET r == eval_mem(dev, a[1], a[2]) IN PathInv(r) /\ Undone(dev, r)
    BY <1>1, <1>3, LoadDoes DEF DataLoad, Is
  <2> QED BY <2>1, <2>2, EndDoes
<1>4. CASE DataStore
  <2>1. PICK a \in PathStores, v \in PathBytes : dev' = PathEnd(set_mem(dev, a[1], a[2], v))
    BY <1>4 DEF DataStore
  <2>2. LET r == set_mem(dev, a[1], a[2], v) IN PathInv(r) /\ Undone(dev, r)
    BY <1>1, <1>4, StoreDoes DEF DataStore, Is
  <2> QED BY <2>1, <2>2, EndDoes
<1>5. CASE DataPrefetch
  BY <1>1, <1>5, OtherAccesses, StartDoes DEF DataPrefetch, Is
<1>6. CASE DataInvalidate
  BY <1>1, <1>6, DcInvDoes DEF DataInvalidate, Is
<1>7. CASE DataSwitch
  <2>1. PICK on \in BOOLEAN, mmu \in BOOLEAN, sup \in BOOLEAN :
          dev' = [dev EXCEPT !.dce = on, !.mme = mmu, !.sm = sup]
    BY <1>7 DEF DataSwitch
  <2>2. PathInv([dev EXCEPT !.dce = on, !.mme = mmu, !.sm = sup])
    BY <1>2
  <2> QED BY <2>1, <2>2
<1>8. CASE InsnFetch
  BY <1>1, <1>8, OtherAccesses, StartDoes DEF InsnFetch, Is
<1>9. CASE InsnPrefetch
  BY <1>1, <1>9, OtherAccesses, StartDoes DEF InsnPrefetch, Is
<1>10. CASE InsnInvalidate
  BY <1>1, <1>10, IcInvDoes DEF InsnInvalidate, Is
<1>11. CASE InsnSwitch
  <2>1. PICK on \in BOOLEAN, mmu \in BOOLEAN, sup \in BOOLEAN :
          dev' = [dev EXCEPT !.ice = on, !.mme = mmu, !.sm = sup]
    BY <1>11 DEF InsnSwitch
  <2>2. PathInv([dev EXCEPT !.ice = on, !.mme = mmu, !.sm = sup])
    BY <1>2
  <2> QED BY <2>1, <2>2
<1>12. CASE PathDirect
  BY <1>12, PathAssumption, DirectDoes DEF PathDirect
<1>13. CASE UNCHANGED dev
  BY <1>13
<1> QED BY <1>3, <1>4, <1>5, <1>6, <1>7, <1>8, <1>9, <1>10, <1>11, <1>12, <1>13 DEF PathNext

(* A set with no two different members.                                    *)
LEMMA AtMostOne ==
  ASSUME NEW S, \A v, w \in S : v = w
  PROVE  Cardinality(S) <= 1
<1>1. CASE S = {}
  BY <1>1, FS_EmptySet
<1>2. CASE S # {}
  <2>1. PICK x : x \in S
    BY <1>2
  <2>2. S = {x}
    BY <2>1
  <2> QED BY <2>2, FS_Singleton
<1> QED BY <1>1, <1>2

(* The invariant gives what the run checks.                                *)
LEMMA PathInvSound == PathInv(dev) => PathSound
<1> SUFFICES ASSUME PathInv(dev) PROVE PathSound
  OBVIOUS
<1>1. DcCoherent
  <2> SUFFICES ASSUME Is("data"), NEW b \in Blocks(dev), b % CacheSets \in dev.swept
               PROVE  /\ Cardinality(Copies(dev.dc, b)) <= 1
                      /\ b \in dev.clean => \A w \in Copies(dev.dc, b) : IsCopy(dev.dc, b, w)
    BY DEF DcCoherent
  <2>1. b \in Nat
    <3>1. PICK w \in PathWords : b = w \div CacheWords
      BY DEF Blocks, PathInv
    <3> QED BY <3>1, PathAssumption, CacheSizes, NatDivMod
  <2>2. Once(dev.dc, b) /\ (b \in dev.clean => Right(dev.mem, dev.dc, b))
    BY <2>1 DEF PathInv, DcGood, Is
  <2>3. Cardinality(Copies(dev.dc, b)) <= 1
    BY <2>2, AtMostOne DEF Once
  <2> QED BY <2>2, <2>3 DEF Right, Holds, IsCopy, WordOf, LineIds
<1>2. IcFresh
  <2> SUFFICES ASSUME Is("insn"), NEW b \in dev.fresh, NEW w \in Copies(dev.ic, b)
               PROVE  IsCopy(dev.ic, b, w)
    BY DEF IcFresh
  <2>1. b \in Nat
    BY DEF PathInv
  <2>2. Right(dev.mem, dev.ic, b)
    BY <2>1 DEF PathInv, IcGood, Is
  <2> QED BY <2>2 DEF Right, Holds, IsCopy, WordOf, LineIds
<1>3. PathPrecise
  BY DEF PathPrecise, PathInv
<1>4. PeekAgrees
  <2> SUFFICES ASSUME NEW a \in PathLoads, NEW write \in BOOLEAN
               PROVE  LET t == dmmu_translate(PathStart(dev), a[1], write)
                          p == peek_into_dtlb(PathStart(dev), a[1], write, TRUE)
                      IN  IF t.exc = "" THEN p.pa = t.pa /\ p.ci = t.ci ELSE p.pa = 0
    BY DEF PeekAgrees
  <2> DEFINE s == PathStart(dev)
             ea == a[1]
             t == dmmu_translate(s, ea, write)
             p == peek_into_dtlb(s, ea, write, TRUE)
  <2>1. PathInv(s) /\ s.exc = "" /\ DOMAIN s = PathFields /\ ea \in Nat
    BY StartDoes, PathAssumption DEF PathInv
  <2> SUFFICES IF t.exc = "" THEN p.pa = t.pa /\ p.ci = t.ci ELSE p.pa = 0
    OBVIOUS
  <2> HIDE DEF s, ea
  <2>2. CASE ~s.mme
    BY <2>1, <2>2 DEF dmmu_translate, peek_into_dtlb, PathFields
  <2>3. CASE s.mme /\ find_tlbmr(s, ea) = {}
    BY <2>1, <2>3 DEF dmmu_translate, peek_into_dtlb, PathFields, TlbFault
  <2>4. CASE s.mme /\ find_tlbmr(s, ea) # {}
    <3> DEFINE e == TlbHit(s, ea)
               n == TlbUse(s, ea)
               u == [n EXCEPT !.ci = e.ci, !.pa = TlbPhys(e, ea)]
    <3>1. DOMAIN n = PathFields /\ n.exc = ""
      <4>1. TlbSet(ea) \in 0 .. TlbSets - 1
        BY <2>1, <2>4, TlbHitIs DEF PathInv
      <4> QED BY <2>1, <4>1, TlbUseSame DEF SameStore
    <3>2. t = IF DataRight(s, write) \in e.may THEN u ELSE TlbFault(u, "DPF")
      BY <2>4 DEF dmmu_translate
    <3>3. p = IF DataRight(s, write) \notin e.may THEN [s EXCEPT !.pa = 0]
              ELSE [s EXCEPT !.ci = e.ci, !.pa = TlbPhys(e, ea)]
      BY <2>4 DEF peek_into_dtlb
    <3> HIDE DEF n, e, t, p
    <3>4. u.exc = "" /\ u.ci = e.ci /\ u.pa = TlbPhys(e, ea) /\ DOMAIN u = PathFields
      BY <3>1 DEF PathFields
    <3> HIDE DEF u
    <3>5. TlbFault(u, "DPF").exc = "DPF"
      BY <3>4 DEF TlbFault, PathFields
    <3> QED BY <2>1, <3>2, <3>3, <3>4, <3>5 DEF PathFields, t, p
  <2> QED BY <2>2, <2>3, <2>4
<1> QED BY <1>1, <1>2, <1>3, <1>4 DEF PathSound

(* Accesses through the MMUs and the caches always see one memory, leave   *)
(* it alone when they fail, and agree with those of the simulator itself,  *)
(* for caches and TLBs of every size, every memory and every mapping.      *)
THEOREM PathAlwaysSound == PathSpec => []PathSound
<1>1. PathInit => PathInv(dev)
  BY PathInvInit
<1>2. PathInv(dev) /\ [PathNext]_dev => PathInv(dev)'
  <2> SUFFICES ASSUME PathInv(dev), [PathNext]_dev PROVE PathInv(dev')
    BY DEF PathInv, DcGood, IcGood, CacheOK, TlbOK, Right, Holds, Once, Copies
  <2> QED BY PathInvStep
<1>3. PathInv(dev) => PathSound
  BY PathInvSound
<1> QED BY <1>1, <1>2, <1>3, PTL DEF PathSpec

-----------------------------------------------------------------------------
(* The store buffer.                                                       *)

RingIds == 0 .. MAX_SBUF_LEN - 1
At(s, i) == (s.tail + i) % MAX_SBUF_LEN

(* The ring has one entry more than the buffer may fill.                   *)
LEMMA RingSize == MAX_SBUF_LEN \in Nat \ {0} /\ SBUF_LEN \in Nat /\ SBUF_LEN < MAX_SBUF_LEN
BY SbufAssumption

(* Going round the ring step by step or at once.                           *)
LEMMA RingAdd ==
  ASSUME NEW a \in Nat, NEW b \in Nat
  PROVE  /\ ((a % MAX_SBUF_LEN) + b) % MAX_SBUF_LEN = (a + b) % MAX_SBUF_LEN
         /\ a % MAX_SBUF_LEN \in RingIds
<1> DEFINE M == MAX_SBUF_LEN
           r == a % M
           q == a \div M
           x == r + b
           y == a + b
           p == x \div M
           t == x % M
           u == y \div M
           v == y % M
<1>1. M \in Nat \ {0}
  BY RingSize
<1> HIDE DEF M
<1>2. a = M * q + r /\ r \in 0 .. M - 1 /\ q \in Nat
  BY <1>1, NatDivMod
<1> HIDE DEF r, q
<1>0. x \in Nat /\ y \in Nat /\ x = r + b /\ y = a + b
  BY <1>2
<1> HIDE DEF x, y
<1>3. x = M * p + t /\ t \in 0 .. M - 1 /\ p \in Nat
  BY <1>0, <1>1, NatDivMod
<1>4. y = M * u + v /\ v \in 0 .. M - 1 /\ u \in Nat
  BY <1>0, <1>1, NatDivMod
<1> HIDE DEF p, t, u, v
<1>5. (q + p) * M + t = u * M + v /\ q + p \in Nat
  BY <1>0, <1>1, <1>2, <1>3, <1>4, SMT
<1>6. t = v
  <2> DEFINE z == q + p
  <2>1. z * M + t = u * M + v /\ z \in Nat
    BY <1>5
  <2> HIDE DEF z
  <2> QED BY <1>1, <1>3, <1>4, <2>1, Unique
<1> QED BY <1>2, <1>6 DEF M, r, x, y, t, v, RingIds

(* Slots fewer steps apart than the ring is long are different.            *)
LEMMA RingApart ==
  ASSUME NEW a \in Nat, NEW i \in Nat, NEW j \in Nat, i < j, j < MAX_SBUF_LEN
  PROVE  (a + i) % MAX_SBUF_LEN # (a + j) % MAX_SBUF_LEN
<1> DEFINE M == MAX_SBUF_LEN
           x == a + i
           y == a + j
           p == x \div M
           r == x % M
           q == y \div M
           t == y % M
<1>1. M \in Nat \ {0}
  BY RingSize
<1>0. j < M /\ x \in Nat /\ y \in Nat /\ x < y /\ y < x + M
  BY RingSize
<1> HIDE DEF M, x, y
<1>2. x = M * p + r /\ r \in 0 .. M - 1 /\ p \in Nat
  BY <1>0, <1>1, NatDivMod
<1>3. y = M * q + t /\ t \in 0 .. M - 1 /\ q \in Nat
  BY <1>0, <1>1, NatDivMod
<1> HIDE DEF p, r, q, t
<1>4. SUFFICES ASSUME r = t PROVE FALSE
  BY DEF M, x, y, r, t
<1>5. p < q
  <2>1. M * p < M * q
    BY <1>0, <1>1, <1>2, <1>3, <1>4, SMT
  <2> QED BY <1>1, <1>2, <1>3, <2>1, SMT
<1>6. M * q >= M * p + M
  <2>1. q >= p + 1
    BY <1>2, <1>3, <1>5
  <2>2. M * q >= M * (p + 1)
    BY <1>1, <1>2, <1>3, <2>1, SMT
  <2> QED BY <1>1, <1>2, <1>3, <2>2, SMT
<1> QED BY <1>0, <1>1, <1>2, <1>3, <1>4, <1>6

(* A slot is where it is.                                                  *)
LEMMA RingHere ==
  ASSUME NEW t \in RingIds
  PROVE  (t + 0) % MAX_SBUF_LEN = t
<1> DEFINE q == t \div MAX_SBUF_LEN
           z == t % MAX_SBUF_LEN
<1>1. t \in Nat /\ t \in 0 .. MAX_SBUF_LEN - 1 /\ MAX_SBUF_LEN \in Nat \ {0} /\ t + 0 = t
  BY RingSize DEF RingIds
<1>2. t = MAX_SBUF_LEN * q + z /\ z \in 0 .. MAX_SBUF_LEN - 1 /\ q \in Nat
  BY <1>1, NatDivMod
<1> HIDE DEF q, z
<1>3. 0 * MAX_SBUF_LEN + t = q * MAX_SBUF_LEN + z
  BY <1>1, <1>2, SMT
<1>4. t = z
  BY <1>1, <1>2, <1>3, Unique
<1> QED BY <1>1, <1>4 DEF z

(* The end of a sequence.                                                  *)
LEMMA Suffix ==
  ASSUME NEW q \in Seq(Nat), NEW m, m = Len(q), NEW n \in 0 .. m
  PROVE  LET z == SubSeq(q, n + 1, m)
         IN  /\ z \in Seq(Nat) /\ Len(z) = m - n
             /\ \A i \in 1 .. m - n : z[i] = q[n + i]
             /\ n # m => z[Len(z)] = q[m] /\ Len(z) > 0
<1> DEFINE z == SubSeq(q, n + 1, m)
<1>1. m \in Nat /\ n \in Nat /\ n <= m
  OBVIOUS
<1>2. z \in Seq(Nat) /\ Len(z) = m - n
  BY <1>1
<1>3. \A i \in 1 .. m - n : z[i] = q[n + i]
  BY <1>1, SMTT(30)
<1> HIDE DEF z
<1>4. n # m => z[Len(z)] = q[m] /\ Len(z) > 0
  <2> SUFFICES ASSUME n # m PROVE z[Len(z)] = q[m] /\ Len(z) > 0
    OBVIOUS
  <2>1. m - n \in 1 .. m - n /\ n + (m - n) = m
    BY <1>1
  <2> QED BY <1>1, <1>2, <1>3, <2>1, SMTT(30)
<1> QED BY <1>2, <1>3, <1>4 DEF z

(* The ring holds the stores that end at the cycles e: each slot has the   *)
(* cycles from the end of the store before it, the oldest those from prev. *)
EndOf(s, e, i) == IF i = 0 THEN s.prev ELSE e[i]
Queue(s, e) ==
  /\ s.prev \in Nat /\ s.buf \in [RingIds -> Nat]
  /\ s.head \in RingIds /\ s.tail \in RingIds /\ s.count \in 0 .. SBUF_LEN
  /\ s.head = At(s, s.count)
  /\ e \in Seq(Nat) /\ Len(e) = s.count
  /\ \A i \in 1 .. s.count : e[i] = EndOf(s, e, i - 1) + s.buf[At(s, i - 1)]

(* The stores of the buffer end one after the other.                       *)
LEMMA EndsRise ==
  ASSUME NEW s, NEW e, Queue(s, e)
  PROVE  /\ \A i \in 0 .. s.count : EndOf(s, e, i) \in Nat
         /\ \A i \in 1 .. s.count : EndOf(s, e, i - 1) <= EndOf(s, e, i)
         /\ \A i \in 0 .. s.count : s.buf[At(s, i)] \in Nat /\ At(s, i) \in RingIds
<1>0. s.count \in Nat /\ s.tail \in Nat
  BY RingSize DEF Queue, RingIds
<1>1. ASSUME NEW i \in 0 .. s.count PROVE At(s, i) \in RingIds
  <2> DEFINE n == s.tail + i
  <2>1. n \in Nat
    BY <1>0
  <2> HIDE DEF n
  <2>2. n % MAX_SBUF_LEN \in RingIds
    BY <2>1, RingAdd
  <2> QED BY <2>2 DEF At, n
<1>2. \A i \in 0 .. s.count : s.buf[At(s, i)] \in Nat
  BY <1>1 DEF Queue
<1>3. \A i \in 0 .. s.count : EndOf(s, e, i) \in Nat
  BY <1>0 DEF EndOf, Queue
<1>4. ASSUME NEW i \in 1 .. s.count PROVE EndOf(s, e, i - 1) <= EndOf(s, e, i)
  <2>1. /\ EndOf(s, e, i) = e[i] /\ e[i] = EndOf(s, e, i - 1) + s.buf[At(s, i - 1)]
        /\ i - 1 \in 0 .. s.count
    BY <1>0 DEF EndOf, Queue
  <2> QED BY <1>2, <1>3, <2>1
<1> QED BY <1>1, <1>2, <1>3, <1>4

(* Those that have ended are the oldest ones.                              *)
Over(s, e, n) ==
  /\ n \in 0 .. s.count
  /\ \A i \in 1 .. n : e[i] <= s.cycles
  /\ \A i \in n + 1 .. s.count : e[i] > s.cycles

(* Some number of stores has ended, and Ended counts it.                   *)
LEMMA SomeOver ==
  ASSUME NEW s, NEW e, Queue(s, e), s.cycles \in Nat
  PROVE  \E n : Over(s, e, n) /\ n = Ended(e, s.cycles)
<1>0. s.count \in Nat /\ e \in Seq(Nat) /\ Len(e) = s.count
  BY RingSize DEF Queue
<1>1. \A i \in 1 .. s.count : e[i] \in Nat
  BY <1>0
<1>2. ASSUME NEW i \in 2 .. s.count PROVE e[i - 1] <= e[i]
  <2>1. i \in 1 .. s.count /\ i # 0 /\ i - 1 # 0
    BY <1>0
  <2>2. EndOf(s, e, i - 1) <= EndOf(s, e, i)
    BY <2>1, EndsRise
  <2>3. EndOf(s, e, i - 1) = e[i - 1] /\ EndOf(s, e, i) = e[i]
    BY <2>1 DEF EndOf
  <2> QED BY <2>2, <2>3
<1> DEFINE P == {k \in Nat : \A i \in k + 1 .. s.count : e[i] > s.cycles}
<1>3. s.count \in P
  BY <1>0
<1>4. PICK n \in P : \A k \in P : n <= k
  <2>1. P \in SUBSET Nat /\ P # {}
    BY <1>3
  <2> HIDE DEF P
  <2> QED BY <2>1, LeastNat
<1>5. n \in 0 .. s.count
  BY <1>0, <1>3, <1>4
<1>6. n = 0 \/ e[n] <= s.cycles
  <2> SUFFICES ASSUME n # 0, e[n] > s.cycles PROVE FALSE
    BY <1>0, <1>1, <1>5
  <2>1. n - 1 \in P
    BY <1>0, <1>4, <1>5
  <2> QED BY <1>4, <1>5, <2>1
<1>7. \A i \in 1 .. n : e[i] <= s.cycles
  <2> DEFINE Q == {j \in Nat : j < n => e[n - j] <= s.cycles}
  <2>1. 0 \in Q
    BY <1>6, <1>5
  <2>2. ASSUME NEW j \in 1 .. n, j - 1 \in Q PROVE j \in Q
    <3> SUFFICES ASSUME j < n PROVE e[n - j] <= s.cycles
      OBVIOUS
    <3>1. e[n - j] <= e[(n - j) + 1] /\ (n - j) + 1 = n - (j - 1)
      <4> DEFINE i == (n - j) + 1
      <4>1. i \in 2 .. s.count /\ i - 1 = n - j /\ i = n - (j - 1)
        BY <1>0, <1>5
      <4> HIDE DEF i
      <4>2. e[i - 1] <= e[i]
        BY <1>2, <4>1
      <4> QED BY <4>1, <4>2 DEF i
    <3>2. e[n - (j - 1)] <= s.cycles
      BY <1>5, <2>2
    <3>3. n - j \in 1 .. s.count /\ (n - j) + 1 \in 1 .. s.count
      BY <1>0, <1>5
    <3> QED BY <1>1, <3>1, <3>2, <3>3
  <2>3. 0 .. n \subseteq Q
    <3> HIDE DEF Q
    <3> QED BY <1>5, <2>1, <2>2, UpTo
  <2> SUFFICES ASSUME NEW i \in 1 .. n PROVE e[i] <= s.cycles
    OBVIOUS
  <2>4. n - i \in Q /\ n - i < n /\ n - (n - i) = i
    <3>1. n - i \in 0 .. n /\ n - i < n /\ n - (n - i) = i
      BY <1>5
    <3> HIDE DEF Q
    <3> QED BY <2>3, <3>1
  <2> QED BY <2>4
<1>8. Over(s, e, n)
  BY <1>4, <1>5, <1>7 DEF Over
<1>9. {i \in DOMAIN e : e[i] <= s.cycles} = 1 .. n
  <2>1. DOMAIN e = 1 .. s.count
    BY <1>0
  <2>2. ASSUME NEW i \in 1 .. s.count PROVE e[i] <= s.cycles <=> i <= n
    <3>1. CASE i <= n
      BY <1>5, <1>7, <3>1
    <3>2. CASE i > n
      <4>1. e[i] > s.cycles
        BY <1>0, <1>5, <1>8, <3>2 DEF Over
      <4> QED BY <1>1, <3>2, <4>1
    <3> QED BY <1>5, <3>1, <3>2
  <2>3. 1 .. n \subseteq 1 .. s.count
    BY <1>0, <1>5
  <2>4. ASSUME NEW i PROVE i \in {j \in DOMAIN e : e[j] <= s.cycles} <=> i \in 1 .. n
    BY <1>5, <2>1, <2>2, <2>3
  <2> QED BY <2>4
<1>10. Ended(e, s.cycles) = n
  <2>1. Cardinality(1 .. n) = n
    <3>1. Cardinality(1 .. n) = IF 1 > n THEN 0 ELSE n - 1 + 1
      BY <1>4, FS_Interval
    <3> QED BY <1>4, <3>1
  <2> QED BY <1>9, <2>1 DEF Ended
<1> QED BY <1>8, <1>10

SbufFields ==
  {"kind", "cycles", "mem_cycles", "prev", "buf", "head", "tail", "count", "ends",
   "last", "due", "done"}

(* The ring without its n oldest stores, whose rest is counted from now.   *)
Drained(s, e, n) ==
  [s EXCEPT !.prev = s.cycles, !.tail = At(s, n), !.count = @ - n,
            !.buf[At(s, n)] = IF n < s.count THEN @ - (s.cycles - EndOf(s, e, n)) ELSE @]

(* The loop of sbuf_store() and sbuf_load() removes the stores that have   *)
(* ended.                                                                  *)
LEMMA DrainIs ==
  ASSUME NEW s, NEW e, Queue(s, e), s.cycles \in Nat, NEW n, Over(s, e, n)
  PROVE  Drain(s) = Drained(s, e, n)
<1> DEFINE k == s.count
           from(i) == (s.tail + i) % MAX_SBUF_LEN
           Eq(f) == f = [i \in 0 .. k |-> IF i = 0 THEN s.cycles - s.prev
                                          ELSE f[i - 1] - s.buf[from(i - 1)]]
           L == CHOOSE left : Eq(left)
           g == [i \in 0 .. k |-> s.cycles - EndOf(s, e, i)]
<1>0. k \in Nat /\ n \in 0 .. k /\ s.prev \in Nat
  BY RingSize DEF Queue, Over
<1>1. \A i \in 0 .. k : EndOf(s, e, i) \in Nat /\ s.buf[At(s, i)] \in Nat
  BY EndsRise
<1>2. ASSUME NEW i \in 1 .. k PROVE e[i] = EndOf(s, e, i) /\ i - 1 \in 0 .. k
                                    /\ e[i] = EndOf(s, e, i - 1) + s.buf[At(s, i - 1)]
  BY <1>0 DEF Queue, EndOf
<1>3. Eq(g)
  <2> SUFFICES ASSUME NEW i \in 0 .. k
               PROVE  g[i] = IF i = 0 THEN s.cycles - s.prev
                             ELSE g[i - 1] - s.buf[from(i - 1)]
    OBVIOUS
  <2>1. CASE i = 0
    BY <2>1 DEF EndOf
  <2>2. CASE i # 0
    <3>1. i \in 1 .. k /\ i - 1 \in 0 .. k
      BY <1>0, <2>2
    <3>2. /\ g[i] = s.cycles - EndOf(s, e, i)
          /\ g[i - 1] = s.cycles - EndOf(s, e, i - 1)
      BY <3>1
    <3>3. EndOf(s, e, i) = EndOf(s, e, i - 1) + s.buf[At(s, i - 1)]
      BY <1>2, <3>1
    <3>4. from(i - 1) = At(s, i - 1)
      BY DEF At
    <3> HIDE DEF g, from
    <3> QED BY <1>1, <2>2, <3>1, <3>2, <3>3, <3>4
  <2> QED BY <2>1, <2>2
<1>4. Eq(L)
  <2> HIDE DEF g, Eq
  <2> QED BY <1>3
<1>5. \A i \in 0 .. k : L[i] = s.cycles - EndOf(s, e, i)
  <2> DEFINE P == {i \in 0 .. k : L[i] = s.cycles - EndOf(s, e, i)}
  <2>1. L[0] = s.cycles - s.prev /\ \A i \in 1 .. k : L[i] = L[i - 1] - s.buf[At(s, i - 1)]
    <3> HIDE DEF L
    <3> QED BY <1>0, <1>4 DEF At
  <2> HIDE DEF L
  <2>2. 0 \in P
    BY <1>0, <2>1 DEF EndOf
  <2>3. ASSUME NEW i \in 1 .. k, i - 1 \in P PROVE i \in P
    <3>1. L[i - 1] = s.cycles - EndOf(s, e, i - 1) /\ L[i] = L[i - 1] - s.buf[At(s, i - 1)]
      BY <2>1, <2>3
    <3>2. EndOf(s, e, i) = EndOf(s, e, i - 1) + s.buf[At(s, i - 1)] /\ i - 1 \in 0 .. k
      BY <1>2
    <3>3. L[i] = s.cycles - EndOf(s, e, i)
      BY <1>1, <3>1, <3>2
    <3> QED BY <1>0, <3>3
  <2>4. 0 .. k \subseteq P
    <3> HIDE DEF P
    <3> QED BY <1>0, <2>2, <2>3, UpTo
  <2> QED BY <2>4
<1>6. \A i \in 1 .. k : (L[i] >= 0 <=> e[i] <= s.cycles) /\ (L[i] < 0 <=> e[i] > s.cycles)
  <2> SUFFICES ASSUME NEW i \in 1 .. k
               PROVE  (L[i] >= 0 <=> e[i] <= s.cycles) /\ (L[i] < 0 <=> e[i] > s.cycles)
    OBVIOUS
  <2>0. i \in 0 .. k /\ e[i] = EndOf(s, e, i)
    BY <1>0, <1>2
  <2> HIDE DEF L
  <2>1. L[i] = s.cycles - e[i] /\ e[i] \in Nat
    BY <1>1, <1>5, <2>0
  <2> QED BY <2>1
<1> DEFINE Gone(m) == /\ \A i \in 1 .. m : L[i] >= 0
                      /\ m < k => L[m + 1] < 0
           gone == CHOOSE m \in 0 .. k : Gone(m)
<1>7. gone = n
  <2>0. \A i \in 1 .. k : e[i] \in Nat
    BY <1>0, <1>1, <1>2
  <2>1. Gone(n)
    <3> HIDE DEF L
    <3> QED BY <1>0, <1>6 DEF Over
  <2>2. ASSUME NEW m \in 0 .. k, Gone(m) PROVE m = n
    <3>1. CASE m < n
      <4>1. m + 1 \in 1 .. n /\ m + 1 \in 1 .. k
        BY <1>0, <3>1
      <4> HIDE DEF L
      <4> QED BY <1>0, <1>6, <2>0, <2>2, <3>1, <4>1 DEF Over
    <3>2. CASE n < m
      <4>1. n + 1 \in 1 .. m /\ n + 1 \in 1 .. k /\ n < k
        BY <1>0, <3>2
      <4>2. L[n + 1] >= 0
        BY <2>2, <4>1
      <4>3. e[n + 1] > s.cycles
        BY <1>0, <4>1 DEF Over
      <4> HIDE DEF L
      <4> QED BY <1>6, <2>0, <4>1, <4>2, <4>3
    <3> QED BY <1>0, <3>1, <3>2
  <2> HIDE DEF Gone
  <2> QED BY <1>0, <2>1, <2>2
<1>8. Drain(s) = [s EXCEPT !.prev = s.cycles, !.tail = from(gone), !.count = @ - gone,
                  !.buf[from(gone)] = IF gone < s.count THEN @ - L[gone] ELSE @]
  BY DEF Drain
<1>9. L[n] = s.cycles - EndOf(s, e, n) /\ from(n) = At(s, n)
  BY <1>0, <1>5 DEF At
<1> HIDE DEF gone, L, from
<1> QED BY <1>7, <1>8, <1>9 DEF Drained

(* What is left is a ring of the stores that have not ended.               *)
LEMMA DrainDoes ==
  ASSUME NEW s, NEW e, Queue(s, e), DOMAIN s = SbufFields, s.cycles \in Nat,
         s.prev <= s.cycles, NEW n, Over(s, e, n)
  PROVE  LET d == Drain(s)
         IN  /\ DOMAIN d = SbufFields /\ d.prev = s.cycles /\ d.count = s.count - n
             /\ Queue(d, SubSeq(e, n + 1, s.count))
             /\ \A f \in SbufFields \ {"prev", "tail", "count", "buf"} : d[f] = s[f]
<1> DEFINE d == Drain(s)
           k == s.count
           t == At(s, n)
           c == SubSeq(e, n + 1, k)
           v == IF n < k THEN s.buf[t] - (s.cycles - EndOf(s, e, n)) ELSE s.buf[t]
<1>0. /\ k \in Nat /\ n \in 0 .. k /\ k \in 0 .. SBUF_LEN /\ s.prev \in Nat /\ s.tail \in Nat
      /\ SBUF_LEN \in Nat /\ SBUF_LEN < MAX_SBUF_LEN /\ MAX_SBUF_LEN \in Nat
      /\ e \in Seq(Nat) /\ Len(e) = k /\ s.buf \in [RingIds -> Nat]
  BY RingSize DEF Queue, Over, RingIds
<1>1. \A i \in 0 .. k : /\ EndOf(s, e, i) \in Nat /\ s.buf[At(s, i)] \in Nat
                        /\ At(s, i) \in RingIds
  BY EndsRise
<1>2. /\ DOMAIN d = SbufFields /\ d.prev = s.cycles /\ d.tail = t /\ d.count = k - n
      /\ d.buf = [s.buf EXCEPT ![t] = v]
      /\ \A f \in SbufFields \ {"prev", "tail", "count", "buf"} : d[f] = s[f]
  <2>1. d = [s EXCEPT !.prev = s.cycles, !.tail = t, !.count = k - n,
                      !.buf = [s.buf EXCEPT ![t] = v]]
    <3>1. d = Drained(s, e, n)
      BY DrainIs
    <3> HIDE DEF d
    <3> QED BY <3>1 DEF Drained
  <2> HIDE DEF d, v, t
  <2> QED BY <2>1 DEF SbufFields
<1>3. ASSUME NEW i \in 1 .. k
      PROVE  /\ i - 1 \in 0 .. k /\ EndOf(s, e, i) = e[i]
             /\ e[i] = EndOf(s, e, i - 1) + s.buf[At(s, i - 1)]
  BY <1>0 DEF Queue, EndOf
<1>4. c \in Seq(Nat) /\ Len(c) = k - n /\ \A i \in 1 .. k - n : c[i] = e[n + i]
  BY <1>0, SMTT(30)
<1>5. t \in RingIds /\ v \in Nat
        /\ (n < k => s.cycles + v = e[n + 1] /\ v = s.buf[t] - (s.cycles - EndOf(s, e, n)))
  <2>1. CASE n < k
    <3>1. n + 1 \in 1 .. k /\ (n + 1) - 1 = n
      BY <1>0, <2>1
    <3>2. e[n + 1] = EndOf(s, e, n) + s.buf[t] /\ e[n + 1] > s.cycles
      <4>1. e[n + 1] = EndOf(s, e, (n + 1) - 1) + s.buf[At(s, (n + 1) - 1)]
        BY <1>3, <3>1
      <4>2. e[n + 1] > s.cycles
        BY <1>0, <3>1 DEF Over
      <4> QED BY <3>1, <4>1, <4>2
    <3>3. EndOf(s, e, n) \in Nat /\ s.buf[t] \in Nat /\ t \in RingIds
      BY <1>0, <1>1
    <3>4. v = s.buf[t] - (s.cycles - EndOf(s, e, n))
      BY <2>1
    <3> HIDE DEF v, t
    <3> QED BY <3>2, <3>3, <3>4
  <2>2. CASE ~(n < k)
    BY <1>0, <1>1, <2>2
  <2> QED BY <2>1, <2>2
<1>6. ASSUME NEW i \in 0 .. k - n PROVE At(d, i) = At(s, n + i)
  <2> DEFINE x == s.tail + n
  <2>1. x \in Nat /\ x + i = s.tail + (n + i) /\ i \in Nat
    BY <1>0
  <2>2. t = x % MAX_SBUF_LEN
    BY DEF At
  <2> HIDE DEF x, t
  <2>3. (t + i) % MAX_SBUF_LEN = (x + i) % MAX_SBUF_LEN
    BY <2>1, <2>2, RingAdd
  <2> HIDE DEF d
  <2> QED BY <1>2, <2>1, <2>3 DEF At
<1>7. ASSUME NEW i \in 1 .. k - n PROVE At(s, n + i) # t
  <2>1. n \in Nat /\ n + i \in Nat /\ n < n + i /\ n + i < MAX_SBUF_LEN
    BY <1>0
  <2> DEFINE j == n + i
  <2> HIDE DEF j
  <2>2. j \in Nat /\ n < j /\ j < MAX_SBUF_LEN
    BY <2>1 DEF j
  <2>3. (s.tail + n) % MAX_SBUF_LEN # (s.tail + j) % MAX_SBUF_LEN
    BY <1>0, <2>1, <2>2, RingApart
  <2> QED BY <2>3 DEF At, j
<1> HIDE DEF d, c, v, t
<1>8. d.buf \in [RingIds -> Nat] /\ d.buf[t] = v
      /\ \A x \in RingIds : x # t => d.buf[x] = s.buf[x]
  BY <1>0, <1>2, <1>5
<1>9. ASSUME NEW i \in 1 .. k - n
      PROVE  c[i] = EndOf(d, c, i - 1) + d.buf[At(d, i - 1)]
  <2>1. CASE i = 1
    <3>1. n < k /\ 0 \in 0 .. k - n /\ n + 0 = n
      BY <1>0, <2>1
    <3>2. At(d, 0) = t
      BY <1>6, <3>1 DEF t
    <3>3. c[1] = e[n + 1]
      BY <1>4, <2>1
    <3>4. EndOf(d, c, 0) = s.cycles
      BY <1>2 DEF EndOf
    <3> QED BY <1>5, <1>8, <2>1, <3>1, <3>2, <3>3, <3>4
  <2>2. CASE i # 1
    <3> DEFINE j == n + i
    <3>0. k \in Nat /\ n \in 0 .. k
      BY <1>0
    <3>1. j \in 1 .. k /\ i - 1 \in 1 .. k - n /\ i - 1 \in 0 .. k - n /\ n + (i - 1) = j - 1
      BY <2>2, <3>0
    <3>2. At(d, i - 1) = At(s, j - 1) /\ At(s, j - 1) # t
      BY <1>6, <1>7, <3>1
    <3>3. c[i] = e[j] /\ c[i - 1] = e[j - 1]
      BY <1>4, <3>1
    <3> HIDE DEF j
    <3>4. e[j] = EndOf(s, e, j - 1) + s.buf[At(s, j - 1)] /\ j - 1 \in 0 .. k
      BY <1>3, <3>1
    <3>5. EndOf(s, e, j - 1) = e[j - 1] /\ EndOf(d, c, i - 1) = c[i - 1]
      BY <1>0, <3>1, SMTT(30) DEF EndOf
    <3>6. d.buf[At(s, j - 1)] = s.buf[At(s, j - 1)]
      BY <1>1, <1>8, <3>2, <3>4
    <3> QED BY <3>2, <3>3, <3>4, <3>5, <3>6
  <2> QED BY <2>1, <2>2
<1>10. d.head \in RingIds /\ d.head = At(d, d.count)
  <2>1. d.head = s.head /\ s.head \in RingIds /\ s.head = At(s, k)
    BY <1>2 DEF Queue, SbufFields
  <2>2. k - n \in 0 .. k - n /\ n + (k - n) = k
    BY <1>0
  <2>3. At(d, k - n) = At(s, k)
    BY <1>6, <2>2
  <2> QED BY <1>2, <2>1, <2>3
<1>11. Queue(d, c)
  <2>1. d.prev \in Nat /\ d.count \in 0 .. SBUF_LEN /\ d.count = k - n /\ d.tail \in RingIds
    BY <1>0, <1>2, <1>5
  <2> QED BY <1>4, <1>8, <1>9, <1>10, <2>1 DEF Queue
<1> QED BY <1>2, <1>11 DEF d, c

(* Waiting for the oldest store takes it out of the ring.                  *)
LEMMA WaitDoes ==
  ASSUME NEW d, NEW c, Queue(d, c), DOMAIN d = SbufFields, d.mem_cycles \in Nat, d.count > 0
  PROVE  LET w == WaitOne(d)
         IN  /\ DOMAIN w = SbufFields /\ w.prev = c[1] /\ w.count = d.count - 1
             /\ w.mem_cycles = d.mem_cycles + (c[1] - d.prev) /\ Queue(w, Tail(c))
             /\ c[1] \in Nat /\ c[1] >= d.prev
             /\ \A f \in SbufFields \ {"mem_cycles", "prev", "tail", "count"} : w[f] = d[f]
<1> DEFINE w == WaitOne(d)
           k == d.count
           b == d.buf[d.tail]
           e == Tail(c)
<1>0. /\ k \in Nat /\ k \in 1 .. SBUF_LEN /\ d.prev \in Nat /\ d.tail \in RingIds /\ d.tail \in Nat
      /\ SBUF_LEN \in Nat /\ SBUF_LEN < MAX_SBUF_LEN /\ MAX_SBUF_LEN \in Nat \ {0}
      /\ c \in Seq(Nat) /\ Len(c) = k /\ d.buf \in [RingIds -> Nat] /\ b \in Nat
  <2>1. /\ d.prev \in Nat /\ d.tail \in RingIds /\ k \in 0 .. SBUF_LEN /\ c \in Seq(Nat)
        /\ Len(c) = k /\ d.buf \in [RingIds -> Nat]
    BY DEF Queue
  <2>2. SBUF_LEN \in Nat /\ SBUF_LEN < MAX_SBUF_LEN /\ MAX_SBUF_LEN \in Nat \ {0}
    BY RingSize
  <2>3. d.tail \in Nat /\ b \in Nat
    BY <2>1, <2>2 DEF RingIds
  <2>4. k \in Nat /\ k \in 1 .. SBUF_LEN
    BY <2>1, <2>2
  <2> QED BY <2>1, <2>2, <2>3, <2>4
<1>1. ASSUME NEW i \in 1 .. k
      PROVE  /\ i - 1 \in 0 .. k /\ EndOf(d, c, i) = c[i]
             /\ c[i] = EndOf(d, c, i - 1) + d.buf[At(d, i - 1)]
  BY <1>0 DEF Queue, EndOf
<1>2. At(d, 0) = d.tail
  BY <1>0, RingHere DEF At
<1>3. c[1] = d.prev + b
  <2>1. 1 \in 1 .. k /\ 1 - 1 = 0
    BY <1>0
  <2>2. c[1] = EndOf(d, c, 0) + d.buf[At(d, 0)]
    BY <1>1, <2>1
  <2> QED BY <1>2, <2>2 DEF EndOf
<1>4. /\ DOMAIN w = SbufFields /\ w.prev = d.prev + b /\ w.count = k - 1
      /\ w.tail = Ring(d.tail) /\ w.mem_cycles = d.mem_cycles + b
      /\ \A f \in SbufFields \ {"mem_cycles", "prev", "tail", "count"} : w[f] = d[f]
  BY DEF WaitOne, SbufFields
<1>5. w.buf = d.buf /\ w.head = d.head
  BY <1>4 DEF SbufFields
<1> HIDE DEF w, b
<1>6. ASSUME NEW i \in 0 .. k PROVE At(w, i) = At(d, i + 1) /\ At(w, i) \in RingIds
  <2> DEFINE x == d.tail + 1
  <2>0. k \in Nat /\ d.tail \in Nat
    BY <1>0
  <2>1. x \in Nat /\ x + i = d.tail + (i + 1) /\ i \in Nat
    BY <2>0
  <2>2. w.tail = x % MAX_SBUF_LEN
    BY <1>4 DEF Ring
  <2> HIDE DEF x
  <2>3. (w.tail + i) % MAX_SBUF_LEN = (x + i) % MAX_SBUF_LEN
    BY <2>1, <2>2, RingAdd
  <2> DEFINE y == x + i
  <2>4. y \in Nat
    BY <2>1
  <2> HIDE DEF y
  <2>5. y % MAX_SBUF_LEN \in RingIds
    BY <2>4, RingAdd
  <2> QED BY <2>1, <2>3, <2>5 DEF At, y
<1>7. e \in Seq(Nat) /\ Len(e) = k - 1 /\ \A i \in 1 .. k - 1 : e[i] = c[i + 1]
  BY <1>0
<1> HIDE DEF e
<1>8. ASSUME NEW i \in 1 .. k - 1
      PROVE  e[i] = EndOf(w, e, i - 1) + w.buf[At(w, i - 1)]
  <2>1. i + 1 \in 1 .. k /\ (i + 1) - 1 = i /\ i - 1 \in 0 .. k /\ (i - 1) + 1 = i /\ i \in 1 .. k
    BY <1>0
  <2>2. e[i] = EndOf(d, c, i) + d.buf[At(d, i)]
    BY <1>1, <1>7, <2>1
  <2>3. At(w, i - 1) = At(d, i)
    BY <1>6, <2>1
  <2>4. EndOf(d, c, i) = c[i]
    BY <1>1, <2>1
  <2>5. EndOf(w, e, i - 1) = c[i]
    <3>1. CASE i = 1
      BY <1>3, <1>4, <3>1 DEF EndOf
    <3>2. CASE i # 1
      <4>1. i - 1 \in 1 .. k - 1
        BY <1>0, <3>2
      <4> QED BY <1>7, <2>1, <3>2, <4>1 DEF EndOf
    <3> QED BY <3>1, <3>2
  <2> QED BY <1>5, <2>2, <2>3, <2>4, <2>5
<1>9. w.head \in RingIds /\ w.head = At(w, w.count) /\ w.tail \in RingIds
  <2>1. d.head \in RingIds /\ d.head = At(d, k)
    BY DEF Queue
  <2>2. k - 1 \in 0 .. k /\ (k - 1) + 1 = k /\ 0 \in 0 .. k
    BY <1>0
  <2>3. At(w, k - 1) = At(d, k)
    BY <1>6, <2>2
  <2>4. w.tail \in RingIds
    <3> DEFINE y == d.tail + 1
    <3>1. y \in Nat
      BY <1>0
    <3> HIDE DEF y
    <3>2. y % MAX_SBUF_LEN \in RingIds
      BY <3>1, RingAdd
    <3> QED BY <1>4, <3>2 DEF Ring, y
  <2> QED BY <1>4, <1>5, <2>1, <2>3, <2>4
<1>10. Queue(w, e)
  <2>1. w.prev \in Nat /\ w.count \in 0 .. SBUF_LEN
    <3>1. k \in 1 .. SBUF_LEN /\ SBUF_LEN \in Nat /\ d.prev \in Nat /\ b \in Nat
      BY <1>0
    <3>2. w.prev = d.prev + b /\ w.count = k - 1
      BY <1>4
    <3> HIDE DEF k
    <3> QED BY <3>1, <3>2
  <2> QED BY <1>0, <1>4, <1>5, <1>7, <1>8, <1>9, <2>1 DEF Queue
<1>11. c[1] \in Nat /\ c[1] >= d.prev /\ w.prev = c[1]
       /\ w.mem_cycles = d.mem_cycles + (c[1] - d.prev)
  BY <1>0, <1>3, <1>4, SMTT(30)
<1> QED BY <1>4, <1>10, <1>11 DEF w, e

(* A new store takes the free slot at the head.                            *)
LEMMA PutDoes ==
  ASSUME NEW d, NEW c, Queue(d, c), DOMAIN d = SbufFields, d.count < SBUF_LEN,
         NEW cyc \in Nat
  PROVE  LET p == Put(d, cyc)
         IN  /\ DOMAIN p = SbufFields /\ p.count = d.count + 1
             /\ Queue(p, Append(c, EndOf(d, c, d.count) + cyc))
             /\ \A f \in SbufFields \ {"buf", "head", "count"} : p[f] = d[f]
<1> DEFINE p == Put(d, cyc)
           k == d.count
           x == EndOf(d, c, k) + cyc
           e == Append(c, x)
<1>0. /\ k \in Nat /\ k + 1 \in 1 .. SBUF_LEN /\ d.prev \in Nat /\ d.tail \in RingIds /\ d.tail \in Nat
      /\ SBUF_LEN \in Nat /\ SBUF_LEN < MAX_SBUF_LEN /\ MAX_SBUF_LEN \in Nat \ {0}
      /\ c \in Seq(Nat) /\ Len(c) = k /\ d.buf \in [RingIds -> Nat]
      /\ d.head = At(d, k) /\ d.head \in RingIds
  BY RingSize, SMTT(30) DEF Queue, RingIds
<1>1. \A i \in 0 .. k : /\ EndOf(d, c, i) \in Nat /\ d.buf[At(d, i)] \in Nat
                        /\ At(d, i) \in RingIds
  BY EndsRise
<1>2. ASSUME NEW i \in 1 .. k
      PROVE  c[i] = EndOf(d, c, i - 1) + d.buf[At(d, i - 1)] /\ i - 1 \in 0 .. k
  BY <1>0 DEF Queue
<1>3. /\ DOMAIN p = SbufFields /\ p.count = k + 1 /\ p.head = Ring(d.head)
      /\ p.buf = [d.buf EXCEPT ![d.head] = cyc]
      /\ \A f \in SbufFields \ {"buf", "head", "count"} : p[f] = d[f]
  BY DEF Put, SbufFields
<1>4. p.tail = d.tail /\ p.prev = d.prev
  BY <1>3 DEF SbufFields
<1> HIDE DEF p
<1>5. \A i : At(p, i) = At(d, i)
  BY <1>4 DEF At
<1>6. x \in Nat
  BY <1>0, <1>1, SMTT(30)
<1>7. e \in Seq(Nat) /\ Len(e) = k + 1 /\ e[k + 1] = x /\ \A i \in 1 .. k : e[i] = c[i]
  BY <1>0, <1>6
<1>8. /\ p.buf \in [RingIds -> Nat] /\ p.buf[At(d, k)] = cyc
      /\ \A y \in RingIds : y # At(d, k) => p.buf[y] = d.buf[y]
  BY <1>0, <1>3
<1> HIDE DEF e, x
<1>9. \A i \in 0 .. k : EndOf(p, e, i) = EndOf(d, c, i)
  BY <1>4, <1>7 DEF EndOf
<1>10. ASSUME NEW i \in 0 .. k, i < k PROVE At(d, i) # At(d, k)
  BY <1>0, <1>10, RingApart DEF At
<1>11. ASSUME NEW i \in 1 .. k + 1
       PROVE  e[i] = EndOf(p, e, i - 1) + p.buf[At(p, i - 1)]
  <2>1. CASE i = k + 1
    <3>1. i - 1 = k /\ k \in 0 .. k
      BY <1>0, <2>1
    <3> QED BY <1>5, <1>7, <1>8, <1>9, <2>1, <3>1 DEF x
  <2>2. CASE i # k + 1
    <3>1. i \in 1 .. k /\ i - 1 \in 0 .. k /\ i - 1 < k
      BY <1>0, <2>2
    <3>2. p.buf[At(d, i - 1)] = d.buf[At(d, i - 1)]
      BY <1>1, <1>8, <1>10, <3>1
    <3> QED BY <1>2, <1>5, <1>7, <1>9, <3>1, <3>2
  <2> QED BY <2>1, <2>2
<1>12. p.head \in RingIds /\ p.head = At(p, k + 1)
  <2> DEFINE y == d.tail + k
             z == d.head + 1
  <2>1. y \in Nat /\ y + 1 = d.tail + (k + 1) /\ z \in Nat
    BY <1>0, SMTT(30) DEF RingIds
  <2>2. d.head = y % MAX_SBUF_LEN
    BY <1>0 DEF At
  <2>3. p.head = z % MAX_SBUF_LEN
    BY <1>3 DEF Ring
  <2>4. ((y % MAX_SBUF_LEN) + 1) % MAX_SBUF_LEN = (y + 1) % MAX_SBUF_LEN
    <3> HIDE DEF y
    <3> QED BY <2>1, RingAdd
  <2>5. z % MAX_SBUF_LEN \in RingIds
    <3> HIDE DEF z
    <3> QED BY <2>1, RingAdd
  <2>6. At(p, k + 1) = (d.tail + (k + 1)) % MAX_SBUF_LEN
    BY <1>4 DEF At
  <2> QED BY <2>1, <2>2, <2>3, <2>4, <2>5, <2>6
<1>13. Queue(p, e)
  BY <1>0, <1>3, <1>4, <1>7, <1>8, <1>11, <1>12 DEF Queue
<1> QED BY <1>3, <1>13 DEF p, e, x

(* The invariant: the ring is the queue of the history, the latest store   *)
(* is its last one, and the time of the buffer is not in the future.       *)
SbufInv(s) ==
  /\ DOMAIN s = SbufFields /\ s.kind = "sbuf" /\ s.cycles \in Nat /\ s.last \in Nat
  /\ s.mem_cycles \in Nat /\ s.due = s.mem_cycles /\ Queue(s, s.ends)
  /\ IF s.count = 0 THEN s.last <= s.prev ELSE s.last = s.ends[s.count]
  /\ s.prev <= s.cycles + s.mem_cycles /\ (~s.done => s.mem_cycles = 0)

(* A ring does not depend on the history.                                  *)
LEMMA SameRing ==
  ASSUME NEW s, NEW t, NEW e, Queue(s, e), t.prev = s.prev, t.buf = s.buf,
         t.head = s.head, t.tail = s.tail, t.count = s.count
  PROVE  Queue(t, e)
BY DEF Queue, At, EndOf

(* When the ended stores have left, the latest store is the end of the     *)
(* queue, or is in the past.                                               *)
LEMMA LastLeft ==
  ASSUME NEW s, SbufInv(s), ~s.done, NEW n, Over(s, s.ends, n)
  PROVE  /\ s.prev <= s.cycles /\ n \in 0 .. s.count /\ s.count \in Nat
         /\ s.last = IF n = s.count THEN s.last ELSE s.ends[s.count]
         /\ n = s.count => s.last <= s.cycles
         /\ n # s.count => s.last > s.cycles
<1>0. /\ s.count \in Nat /\ s.mem_cycles = 0 /\ s.cycles \in Nat /\ s.prev \in Nat
      /\ s.prev <= s.cycles + s.mem_cycles /\ s.last \in Nat /\ n \in 0 .. s.count
  BY RingSize DEF SbufInv, Queue, Over
<1>1. s.prev <= s.cycles
  BY <1>0
<1>2. CASE s.count = 0
  BY <1>0, <1>1, <1>2 DEF SbufInv
<1>3. CASE s.count # 0
  <2>1. s.last = s.ends[s.count] /\ s.count \in 1 .. s.count
    BY <1>0, <1>3 DEF SbufInv
  <2>2. CASE n = s.count
    BY <1>0, <1>1, <2>1, <2>2 DEF Over
  <2>3. CASE n # s.count
    <3>1. s.count \in n + 1 .. s.count
      BY <1>0, <2>3
    <3> QED BY <1>0, <1>1, <2>1, <2>3, <3>1 DEF Over
  <2> QED BY <2>2, <2>3
<1> QED BY <1>0, <1>1, <1>2, <1>3

(* A store waits exactly as long as the queue makes it wait.               *)
LEMMA StoreExact ==
  ASSUME NEW s, SbufInv(s), ~s.done, NEW cyc \in Nat
  PROVE  SbufInv(sbuf_store(StoreNoted(s, cyc), cyc))
<1> DEFINE p == StoreNoted(s, cyc)
           d == Drain(p)
           r == sbuf_store(p, cyc)
           e == s.ends
           k == s.count
           pending == SubSeq(e, Ended(e, s.cycles) + 1, Len(e))
           full == Len(pending) >= SBUF_LEN
           now == IF full THEN Head(pending) ELSE s.cycles
           end == Later(s.last, now) + cyc
           rest == IF full THEN Tail(pending) ELSE pending
<1>0. /\ DOMAIN s = SbufFields /\ s.kind = "sbuf" /\ s.cycles \in Nat /\ Queue(s, e)
      /\ s.last \in Nat /\ s.mem_cycles = 0 /\ e \in Seq(Nat) /\ Len(e) = k /\ k \in Nat
      /\ SBUF_LEN \in Nat \ {0}
  BY RingSize, SbufAssumption DEF SbufInv, Queue
<1>1. p = [s EXCEPT !.ends = Append(rest, end), !.last = end, !.due = now - s.cycles,
                    !.done = TRUE]
  BY DEF StoreNoted
<1>2. PICK n : Over(s, e, n) /\ n = Ended(e, s.cycles)
  BY <1>0, SomeOver
<1>3. /\ s.prev <= s.cycles /\ n \in 0 .. k
      /\ (n = k => s.last <= s.cycles) /\ (n # k => s.last > s.cycles /\ s.last = e[k])
  BY <1>2, LastLeft
<1>4. /\ DOMAIN p = SbufFields /\ p.ends = Append(rest, end) /\ p.last = end
      /\ p.due = now - s.cycles /\ p.done = TRUE
      /\ \A f \in SbufFields \ {"ends", "last", "due", "done"} : p[f] = s[f]
  <2> HIDE DEF p, rest, end, now
  <2> QED BY <1>0, <1>1 DEF SbufFields
<1>5. /\ p.prev = s.prev /\ p.buf = s.buf /\ p.head = s.head /\ p.tail = s.tail
      /\ p.count = k /\ p.cycles = s.cycles /\ p.kind = "sbuf" /\ p.mem_cycles = 0
  BY <1>0, <1>4 DEF SbufFields
<1> DEFINE c == SubSeq(e, n + 1, k)
<1>13. pending = c /\ r = Put(IF SbufFull(d) THEN WaitOne(d) ELSE d, cyc)
  BY <1>0, <1>2 DEF sbuf_store
<1>14. /\ full <=> Len(c) >= SBUF_LEN
       /\ full => now = Head(c) /\ rest = Tail(c)
       /\ ~full => now = s.cycles /\ rest = c
  <2> HIDE DEF c, pending
  <2> QED BY <1>13
<1>15. end = Later(s.last, now) + cyc
  OBVIOUS
<1>9. /\ c \in Seq(Nat) /\ Len(c) = k - n /\ (n # k => c[Len(c)] = e[k] /\ Len(c) > 0)
      /\ k \in Nat /\ n \in 0 .. k
  <2>1. e \in Seq(Nat) /\ k = Len(e) /\ n \in 0 .. k
    BY <1>0, <1>3
  <2>2. /\ c \in Seq(Nat) /\ Len(c) = k - n
        /\ n # k => c[Len(c)] = e[k] /\ Len(c) > 0
    BY <2>1, Suffix
  <2> QED BY <1>0, <2>1, <2>2
<1> HIDE DEF p, pending, full, now, end, rest, c, r
<1>6. Queue(p, e) /\ Over(p, e, n)
  BY <1>0, <1>2, <1>5, SameRing DEF Over
<1>7. /\ DOMAIN d = SbufFields /\ d.prev = s.cycles /\ d.count = k - n /\ Queue(d, c)
      /\ \A f \in SbufFields \ {"prev", "tail", "count", "buf"} : d[f] = p[f]
  <2>1. p.cycles \in Nat /\ p.prev <= p.cycles
    BY <1>0, <1>3, <1>5
  <2>2. LET g == Drain(p)
        IN  /\ DOMAIN g = SbufFields /\ g.prev = p.cycles /\ g.count = p.count - n
            /\ Queue(g, SubSeq(e, n + 1, p.count))
            /\ \A f \in SbufFields \ {"prev", "tail", "count", "buf"} : g[f] = p[f]
    BY <1>4, <1>6, <2>1, DrainDoes
  <2> QED BY <1>5, <2>2 DEF c
<1> HIDE DEF d
<1>8. /\ d.cycles = s.cycles /\ d.kind = "sbuf" /\ d.mem_cycles = 0 /\ d.done = TRUE
      /\ d.ends = p.ends /\ d.last = end /\ d.due = now - s.cycles
  BY <1>4, <1>5, <1>7 DEF SbufFields
<1>10. d.count = Len(c) /\ d.count \in 0 .. SBUF_LEN /\ d.count \in Nat /\ Len(c) \in Nat
  BY <1>7, <1>9 DEF Queue
<1>11. ASSUME NEW w, Queue(w, rest), DOMAIN w = SbufFields, w.count < SBUF_LEN,
              \A f \in {"cycles", "kind", "done", "ends", "last", "due"} : w[f] = d[f],
              r = Put(w, cyc), now = w.prev, w.prev \in Nat, w.prev >= s.cycles,
              w.mem_cycles = now - s.cycles,
              Later(s.last, now) = EndOf(w, rest, w.count)
       PROVE  SbufInv(r)
  <2>0. w.count \in Nat /\ rest \in Seq(Nat) /\ Len(rest) = w.count
    <3>1. w.count \in 0 .. SBUF_LEN /\ rest \in Seq(Nat) /\ Len(rest) = w.count
      BY <1>11 DEF Queue
    <3> QED BY <1>0, <3>1
  <2>1. /\ DOMAIN r = SbufFields /\ r.count = w.count + 1
        /\ Queue(r, Append(rest, EndOf(w, rest, w.count) + cyc))
        /\ \A f \in SbufFields \ {"buf", "head", "count"} : r[f] = w[f]
    <3>1. LET q == Put(w, cyc)
          IN  /\ DOMAIN q = SbufFields /\ q.count = w.count + 1
              /\ Queue(q, Append(rest, EndOf(w, rest, w.count) + cyc))
              /\ \A f \in SbufFields \ {"buf", "head", "count"} : q[f] = w[f]
      BY <1>11, PutDoes
    <3> QED BY <1>11, <3>1
  <2>2. EndOf(w, rest, w.count) + cyc = end
    BY <1>11, <1>15
  <2>3. end \in Nat
    <3>1. EndOf(w, rest, w.count) \in Nat
      BY <2>0, <1>11, EndsRise
    <3> QED BY <2>2, <3>1
  <2>4. /\ r.cycles = s.cycles /\ r.kind = "sbuf" /\ r.done = TRUE
        /\ r.ends = Append(rest, end) /\ r.last = end /\ r.due = now - s.cycles
        /\ r.prev = w.prev /\ r.mem_cycles = now - s.cycles
    BY <1>4, <1>8, <1>11, <2>1 DEF SbufFields
  <2>5. Queue(r, r.ends)
    BY <2>1, <2>2, <2>4
  <2>6. r.count # 0 /\ r.ends[r.count] = end
    <3>1. r.ends = Append(rest, end) /\ r.count = Len(rest) + 1
      BY <2>0, <2>1, <2>4
    <3> QED BY <2>0, <2>3, <3>1
  <2>7. r.mem_cycles \in Nat /\ r.prev <= r.cycles + r.mem_cycles
    BY <1>0, <1>11, <2>4
  <2> QED BY <1>0, <2>1, <2>3, <2>4, <2>5, <2>6, <2>7 DEF SbufInv
<1>12. CASE full
  <2> DEFINE w == WaitOne(d)
             x == Tail(c)
  <2>1. SbufFull(d) /\ d.count > 0 /\ d.count = Len(c) /\ d.count <= SBUF_LEN
    BY <1>0, <1>10, <1>12, <1>14 DEF SbufFull
  <2>2. /\ DOMAIN w = SbufFields /\ w.prev = c[1] /\ w.count = d.count - 1
        /\ w.mem_cycles = d.mem_cycles + (c[1] - d.prev) /\ Queue(w, x)
        /\ c[1] \in Nat /\ c[1] >= d.prev
        /\ \A f \in SbufFields \ {"mem_cycles", "prev", "tail", "count"} : w[f] = d[f]
    <3>1. d.mem_cycles \in Nat
      BY <1>8
    <3> QED BY <1>7, <2>1, <3>1, WaitDoes
  <2>3. r = Put(w, cyc)
    BY <1>13, <2>1
  <2> HIDE DEF w
  <2>4. rest = x /\ now = c[1]
    <3>1. Head(c) = c[1]
      BY <1>9, <2>1
    <3> QED BY <1>12, <1>14, <3>1
  <2>12. \A i \in 1 .. Len(c) - 1 : x[i] = c[i + 1]
    BY <1>9, <2>1
  <2> HIDE DEF x
  <2>5. s.last = c[Len(c)] /\ s.last > s.cycles
    BY <1>3, <1>9, <2>1
  <2>6. EndOf(w, x, w.count) = s.last
    <3>0. w.count + 1 = Len(c) /\ w.count \in Nat
      BY <1>10, <2>1, <2>2
    <3>1. CASE w.count = 0
      <4>1. Len(c) = 1
        BY <3>0, <3>1
      <4> QED BY <2>2, <2>5, <3>1, <4>1 DEF EndOf
    <3>2. CASE w.count # 0
      <4>1. w.count \in 1 .. Len(c) - 1 /\ w.count + 1 = Len(c)
        BY <1>10, <3>0, <3>2
      <4>2. x[w.count] = c[w.count + 1]
        BY <2>12, <4>1
      <4> QED BY <2>5, <3>2, <4>1, <4>2 DEF EndOf
    <3> QED BY <3>1, <3>2
  <2>7. c[1] <= s.last
    <3>1. EndOf(w, x, w.count) >= w.prev
      <4> DEFINE P == {i \in 0 .. w.count : EndOf(w, x, i) >= w.prev}
      <4>0. w.count \in Nat /\ w.prev \in Nat
        BY <1>10, <2>1, <2>2
      <4>1. 0 \in P
        BY <4>0 DEF EndOf
      <4>2. ASSUME NEW i \in 1 .. w.count, i - 1 \in P PROVE i \in P
        <5>1. EndOf(w, x, i - 1) <= EndOf(w, x, i) /\ EndOf(w, x, i) \in Nat
              /\ EndOf(w, x, i - 1) \in Nat
          BY <2>2, <4>0, EndsRise
        <5> QED BY <4>0, <4>2, <5>1
      <4>3. 0 .. w.count \subseteq P
        <5> HIDE DEF P
        <5> QED BY <4>0, <4>1, <4>2, UpTo
      <4> QED BY <4>0, <4>3
    <3> QED BY <2>2, <2>6, <3>1
  <2>8. Later(s.last, now) = s.last
    <3>1. now \in Nat /\ now <= s.last
      BY <2>2, <2>4, <2>7
    <3> QED BY <1>0, <3>1 DEF Later
  <2>9. w.count < SBUF_LEN
    BY <1>0, <1>10, <2>1, <2>2
  <2>10. w.mem_cycles = now - s.cycles /\ w.prev >= s.cycles /\ now = w.prev /\ w.prev \in Nat
    BY <1>0, <1>7, <1>8, <2>2, <2>4
  <2>11. \A f \in {"cycles", "kind", "done", "ends", "last", "due"} : w[f] = d[f]
    BY <2>2 DEF SbufFields
  <2>13. SbufInv(r)
    BY <1>11, <2>2, <2>3, <2>4, <2>6, <2>8, <2>9, <2>10, <2>11
  <2> QED BY <2>13 DEF r, p
<1>16. CASE ~full
  <2>1. ~SbufFull(d) /\ d.count < SBUF_LEN
    BY <1>0, <1>10, <1>14, <1>16 DEF SbufFull
  <2>2. r = Put(d, cyc)
    BY <1>13, <2>1
  <2>3. rest = c /\ now = s.cycles
    BY <1>14, <1>16
  <2>4. EndOf(d, c, d.count) = Later(s.last, s.cycles)
    <3>1. CASE n = k
      <4>1. d.count = 0
        BY <1>9, <1>7, <3>1
      <4> QED BY <1>0, <1>3, <1>7, <3>1, <4>1 DEF EndOf, Later
    <3>2. CASE n # k
      <4>1. d.count # 0 /\ c[d.count] = s.last
        BY <1>3, <1>9, <1>10, <3>2
      <4> QED BY <1>0, <1>3, <3>2, <4>1 DEF EndOf, Later
    <3> QED BY <3>1, <3>2
  <2>5. d.mem_cycles = now - s.cycles /\ d.prev >= s.cycles /\ now = d.prev /\ d.prev \in Nat
    BY <1>0, <1>7, <1>8, <2>3
  <2>6. SbufInv(r)
    BY <1>7, <1>11, <2>1, <2>2, <2>3, <2>4, <2>5
  <2> QED BY <2>6 DEF r, p
<1> QED BY <1>12, <1>16

IsRecord(d) == d = [f \in SbufFields |-> d[f]]

(* The state after waiting for i stores.                                   *)
Waited(d, c, i) ==
  [d EXCEPT !.mem_cycles = @ + (EndOf(d, c, i) - d.prev), !.prev = EndOf(d, c, i),
            !.tail = At(d, i), !.count = @ - i]

(* sbuf_load() waits for all of them.                                      *)
LEMMA LoadIs ==
  ASSUME NEW s, NEW d, d = Drain(s), NEW c, Queue(d, c), DOMAIN d = SbufFields,
         IsRecord(d), d.mem_cycles \in Nat
  PROVE  sbuf_load(s) = Waited(d, c, d.count)
<1> DEFINE k == d.count
           Eq(f) == f = [n \in 0 .. k |-> IF n = 0 THEN d ELSE WaitOne(f[n - 1])]
           W == CHOOSE w : Eq(w)
           g == [n \in 0 .. k |-> Waited(d, c, n)]
<1>0. /\ k \in Nat /\ d.prev \in Nat /\ d.tail \in RingIds /\ d.tail \in Nat
      /\ c \in Seq(Nat) /\ Len(c) = k /\ d.buf \in [RingIds -> Nat]
      /\ MAX_SBUF_LEN \in Nat \ {0}
  BY RingSize DEF Queue, RingIds
<1>1. \A i \in 0 .. k : /\ EndOf(d, c, i) \in Nat /\ d.buf[At(d, i)] \in Nat
                        /\ At(d, i) \in RingIds
  BY EndsRise
<1>2. sbuf_load(s) = W[k]
  BY DEF sbuf_load
<1>3. Waited(d, c, 0) = d
  <2>1. At(d, 0) = d.tail
    BY <1>0, RingHere DEF At
  <2>2. EndOf(d, c, 0) = d.prev /\ d.count - 0 = d.count
        /\ d.mem_cycles + (d.prev - d.prev) = d.mem_cycles
    BY <1>0 DEF EndOf
  <2>3. Waited(d, c, 0) = [d EXCEPT !.mem_cycles = d.mem_cycles, !.prev = d.prev,
                                    !.tail = d.tail, !.count = d.count]
    BY <2>1, <2>2 DEF Waited
  <2> DEFINE u == [d EXCEPT !.mem_cycles = d.mem_cycles, !.prev = d.prev,
                            !.tail = d.tail, !.count = d.count]
  <2>4. u = [f \in SbufFields |-> d[f]]
    OBVIOUS
  <2> QED BY <2>3, <2>4 DEF IsRecord
<1>4. ASSUME NEW i \in 1 .. k PROVE WaitOne(Waited(d, c, i - 1)) = Waited(d, c, i)
  <2> DEFINE u == Waited(d, c, i - 1)
             x == EndOf(d, c, i - 1)
             y == EndOf(d, c, i)
             t == At(d, i - 1)
  <2>0. i - 1 \in 0 .. k /\ i \in 0 .. k
    BY <1>0
  <2>1. x \in Nat /\ y \in Nat /\ t \in RingIds
    BY <1>1, <2>0
  <2>2. y = x + d.buf[t]
    BY <1>0, SMTT(30) DEF Queue, EndOf
  <2>3. Ring(t) = At(d, i)
    <3> DEFINE z == d.tail + (i - 1)
    <3>1. z \in Nat /\ z + 1 = d.tail + i
      BY <1>0
    <3>2. t = z % MAX_SBUF_LEN
      BY DEF At
    <3>3. ((z % MAX_SBUF_LEN) + 1) % MAX_SBUF_LEN = (z + 1) % MAX_SBUF_LEN
      <4> HIDE DEF z
      <4> QED BY <3>1, RingAdd
    <3> QED BY <3>1, <3>2, <3>3 DEF Ring, At
  <2>4. u = [d EXCEPT !.mem_cycles = d.mem_cycles + (x - d.prev), !.prev = x,
                      !.tail = t, !.count = k - (i - 1)]
    BY DEF Waited
  <2> HIDE DEF u, x, y, t
  <2>5. /\ DOMAIN u = SbufFields /\ u.mem_cycles = d.mem_cycles + (x - d.prev) /\ u.prev = x
        /\ u.tail = t /\ u.count = k - (i - 1)
        /\ \A f \in SbufFields \ {"mem_cycles", "prev", "tail", "count"} : u[f] = d[f]
    BY <2>4 DEF SbufFields
  <2>6. u.buf = d.buf
    BY <2>5 DEF SbufFields
  <2>7. d.buf[t] \in Nat
    BY <1>0, <2>1
  <2>8. /\ u.mem_cycles + u.buf[u.tail] = d.mem_cycles + (y - d.prev)
        /\ u.prev + u.buf[u.tail] = y /\ u.count - 1 = k - i /\ Ring(u.tail) = At(d, i)
    <3>1. u.buf[u.tail] = d.buf[t] /\ Ring(u.tail) = At(d, i)
      BY <2>3, <2>5, <2>6
    <3>2. u.count - 1 = k - i
      BY <1>0, <2>5
    <3>3. d.prev \in Nat /\ x \in Nat /\ d.buf[t] \in Nat /\ d.mem_cycles \in Nat
      BY <1>0, <2>1, <2>7
    <3> QED BY <2>2, <2>5, <3>1, <3>2, <3>3
  <2>9. WaitOne(u) = [u EXCEPT !.mem_cycles = d.mem_cycles + (y - d.prev), !.prev = y,
                               !.tail = At(d, i), !.count = k - i]
    BY <2>8 DEF WaitOne
  <2>10. [u EXCEPT !.mem_cycles = d.mem_cycles + (y - d.prev), !.prev = y,
                   !.tail = At(d, i), !.count = k - i]
         = [d EXCEPT !.mem_cycles = d.mem_cycles + (y - d.prev), !.prev = y,
                     !.tail = At(d, i), !.count = k - i]
    BY <2>5 DEF SbufFields
  <2> QED BY <2>9, <2>10 DEF Waited, u, y
<1>5. Eq(g)
  <2> SUFFICES ASSUME NEW n \in 0 .. k
               PROVE  g[n] = IF n = 0 THEN d ELSE WaitOne(g[n - 1])
    OBVIOUS
  <2>1. CASE n = 0
    BY <1>3, <2>1
  <2>2. CASE n # 0
    <3>1. n \in 1 .. k /\ n - 1 \in 0 .. k
      BY <1>0, <2>2
    <3> QED BY <1>4, <2>2, <3>1
  <2> QED BY <2>1, <2>2
<1>6. Eq(W)
  <2> HIDE DEF g, Eq
  <2> QED BY <1>5
<1> DEFINE P == {n \in 0 .. k : W[n] = Waited(d, c, n)}
<1>7. W[0] = d /\ \A n \in 1 .. k : W[n] = WaitOne(W[n - 1])
  <2> HIDE DEF W
  <2> QED BY <1>0, <1>6
<1> HIDE DEF W
<1>8. 0 \in P
  BY <1>0, <1>3, <1>7
<1>9. ASSUME NEW n \in 1 .. k, n - 1 \in P PROVE n \in P
  BY <1>0, <1>4, <1>7, <1>9
<1>10. 0 .. k \subseteq P
  <2> HIDE DEF P
  <2> QED BY <1>0, <1>8, <1>9, UpTo
<1>11. W[k] = Waited(d, c, k)
  BY <1>0, <1>10
<1> QED BY <1>2, <1>11

(* A load waits exactly until the latest store has ended.                  *)
LEMMA LoadExact ==
  ASSUME NEW s, SbufInv(s), ~s.done
  PROVE  SbufInv(sbuf_load(LoadNoted(s)))
<1> DEFINE p == LoadNoted(s)
           d == Drain(p)
           r == sbuf_load(p)
           e == s.ends
           k == s.count
           due == Later(s.last, s.cycles) - s.cycles
<1>0. /\ DOMAIN s = SbufFields /\ s.kind = "sbuf" /\ s.cycles \in Nat /\ Queue(s, e)
      /\ s.last \in Nat /\ s.mem_cycles = 0 /\ e \in Seq(Nat) /\ Len(e) = k /\ k \in Nat
  BY RingSize DEF SbufInv, Queue
<1>1. p = [s EXCEPT !.ends = << >>, !.due = due, !.done = TRUE]
  BY DEF LoadNoted
<1>2. PICK n : Over(s, e, n)
  BY <1>0, SomeOver
<1>3. /\ s.prev <= s.cycles /\ n \in 0 .. k
      /\ (n = k => s.last <= s.cycles) /\ (n # k => s.last > s.cycles /\ s.last = e[k])
  BY <1>2, LastLeft
<1> HIDE DEF p, due
<1>4. /\ DOMAIN p = SbufFields /\ p.ends = << >> /\ p.due = due /\ p.done = TRUE
      /\ \A f \in SbufFields \ {"ends", "due", "done"} : p[f] = s[f]
  BY <1>0, <1>1 DEF SbufFields
<1>5. /\ p.prev = s.prev /\ p.buf = s.buf /\ p.head = s.head /\ p.tail = s.tail
      /\ p.count = k /\ p.cycles = s.cycles /\ p.kind = "sbuf" /\ p.mem_cycles = 0
      /\ p.last = s.last
  BY <1>0, <1>4 DEF SbufFields
<1>6. Queue(p, e) /\ Over(p, e, n)
  BY <1>0, <1>2, <1>5, SameRing DEF Over
<1> DEFINE c == SubSeq(e, n + 1, k)
<1>7. /\ c \in Seq(Nat) /\ Len(c) = k - n /\ (n # k => c[Len(c)] = e[k] /\ Len(c) > 0)
      /\ k \in Nat /\ n \in 0 .. k
  <2>1. e \in Seq(Nat) /\ k = Len(e) /\ n \in 0 .. k
    BY <1>0, <1>3
  <2>2. /\ c \in Seq(Nat) /\ Len(c) = k - n
        /\ n # k => c[Len(c)] = e[k] /\ Len(c) > 0
    BY <2>1, Suffix
  <2> QED BY <1>0, <2>1, <2>2
<1>8. /\ DOMAIN d = SbufFields /\ d.prev = s.cycles /\ d.count = k - n /\ Queue(d, c)
      /\ \A f \in SbufFields \ {"prev", "tail", "count", "buf"} : d[f] = p[f]
  <2> HIDE DEF c
  <2>1. p.cycles \in Nat /\ p.prev <= p.cycles
    BY <1>0, <1>3, <1>5
  <2>2. LET g == Drain(p)
        IN  /\ DOMAIN g = SbufFields /\ g.prev = p.cycles /\ g.count = p.count - n
            /\ Queue(g, SubSeq(e, n + 1, p.count))
            /\ \A f \in SbufFields \ {"prev", "tail", "count", "buf"} : g[f] = p[f]
    BY <1>4, <1>6, <2>1, DrainDoes
  <2> QED BY <1>5, <2>2 DEF c
<1>18. IsRecord(d)
  <2>1. d = Drained(p, e, n)
    BY <1>0, <1>5, <1>6, DrainIs
  <2> HIDE DEF d
  <2> QED BY <1>4, <2>1 DEF Drained, IsRecord
<1> HIDE DEF c
<1>9. /\ d.cycles = s.cycles /\ d.kind = "sbuf" /\ d.mem_cycles = 0 /\ d.done = TRUE
      /\ d.ends = << >> /\ d.last = s.last /\ d.due = due
  BY <1>4, <1>5, <1>8 DEF SbufFields
<1>10. r = Waited(d, c, d.count)
  <2>1. d.mem_cycles \in Nat
    BY <1>9
  <2> QED BY <1>8, <1>18, <2>1, LoadIs
<1> DEFINE x == EndOf(d, c, d.count)
<1>11. d.count \in Nat /\ x \in Nat /\ d.count = Len(c) /\ At(d, d.count) \in RingIds
  BY <1>7, <1>8, EndsRise
<1>12. x = Later(s.last, s.cycles)
  <2>1. CASE n = k
    <3>1. d.count = 0
      BY <1>7, <1>8, <2>1
    <3> QED BY <1>0, <1>3, <1>8, <2>1, <3>1 DEF EndOf, Later
  <2>2. CASE n # k
    <3>1. d.count # 0 /\ c[d.count] = s.last
      BY <1>3, <1>7, <1>11, <2>2
    <3> QED BY <1>0, <1>3, <2>2, <3>1 DEF EndOf, Later
  <2> QED BY <2>1, <2>2
<1> HIDE DEF d, r, x
<1>13. /\ DOMAIN r = SbufFields /\ r.mem_cycles = d.mem_cycles + (x - d.prev) /\ r.prev = x
       /\ r.tail = At(d, d.count) /\ r.count = d.count - d.count
       /\ \A f \in SbufFields \ {"mem_cycles", "prev", "tail", "count"} : r[f] = d[f]
  BY <1>8, <1>10 DEF SbufFields, Waited, x
<1>14. /\ r.cycles = s.cycles /\ r.kind = "sbuf" /\ r.done = TRUE /\ r.ends = << >>
       /\ r.last = s.last /\ r.due = due /\ r.buf = d.buf /\ r.head = d.head
  BY <1>9, <1>13 DEF SbufFields
<1>15. r.count = 0 /\ r.mem_cycles = x - s.cycles /\ x >= s.last /\ x >= s.cycles /\ due = x - s.cycles
  BY <1>0, <1>8, <1>9, <1>11, <1>12, <1>13 DEF due, Later
<1>16. Queue(r, << >>)
  <2>1. d.head = At(d, d.count) /\ d.head \in RingIds /\ d.buf \in [RingIds -> Nat]
        /\ SBUF_LEN \in Nat
    BY <1>8, RingSize DEF Queue
  <2>2. At(r, 0) = r.tail
    BY <1>11, <1>13, RingHere DEF At
  <2> QED BY <1>11, <1>13, <1>14, <1>15, <2>1, <2>2 DEF Queue
<1>17. SbufInv(r)
  BY <1>0, <1>11, <1>13, <1>14, <1>15, <1>16 DEF SbufInv
<1> QED BY <1>17 DEF r, p

-----------------------------------------------------------------------------
(* Branch prediction.                                                      *)

PredictFields ==
  {"kind", "bpb_enabled", "btic_enabled", "pcu_enabled", "way", "bpb", "recent",
   "last", "mode", "PCMR", "PCCR"}
WayOK(way) ==
  /\ DOMAIN way = BticWays
  /\ \A w \in BticWays : /\ DOMAIN way[w] = {"addr", "lru"}
                         /\ way[w].lru \in 0 .. BTIC_USTATES - 1

(* What btic_update() remembers of targets.                                *)
Used(recent, a) ==
  IF recent = << >> THEN <<a>> ELSE IF Head(recent) = a THEN recent ELSE <<a, Head(recent)>>
RecentOK(recent) ==
  \/ recent = << >> \/ (\E a : recent = <<a>>) \/ (\E a, b : a # b /\ recent = <<a, b>>)

(* The latest target is in the youngest way, and of two ways the other has *)
(* the target before it.                                                   *)
YoungestIs(way, recent, w) ==
  /\ way[w].addr = recent[1] /\ way[w].lru = BTIC_USTATES - 1
  /\ \A v \in BticWays : v # w => /\ way[v].lru < BTIC_USTATES - 1
                                  /\ Len(recent) = 2 => way[v].addr = recent[2]
RecentKept(way, recent) ==
  BTIC_WAYS <= 2 =>
    IF recent = << >> THEN \A w \in BticWays : way[w].lru < BTIC_USTATES - 1
    ELSE \E w \in BticWays : YoungestIs(way, recent, w)

PredictInv(s) ==
  /\ DOMAIN s = PredictFields /\ s.kind = "predict" /\ WayOK(s.way)
  /\ RecentOK(s.recent) /\ RecentKept(s.way, s.recent)
  /\ BPB_PSTATES = 2 => s.bpb.taken \in {0, 1} /\ s.last = s.bpb.taken

(* The way btic_update() takes for a target, and the ways after the target *)
(* is put into it.                                                         *)
BticWay(way, a) ==
  LET hits == {w \in BticWays : way[w].addr = a}
  IN  IF hits # {} THEN CHOOSE x \in hits : \A v \in hits : v <= x ELSE MinWay(way)
Placed(way, x, a) == Use([way EXCEPT ![x].addr = a], x)

(* An entry is used: it is the youngest, and no other is.                  *)
LEMMA UseDoes ==
  ASSUME NEW way, WayOK(way), NEW x, NEW a
  PROVE  LET u == Placed(way, x, a)
         IN  /\ WayOK(u)
             /\ \A v \in BticWays : v # x => /\ u[v].addr = way[v].addr
                                             /\ u[v].lru < BTIC_USTATES - 1
             /\ x \in BticWays => u[x].addr = a /\ u[x].lru = BTIC_USTATES - 1
<1> DEFINE m == [way EXCEPT ![x].addr = a]
           u == Use(m, x)
<1>0. BTIC_USTATES \in Nat \ {0, 1}
  BY PredictAssumption
<1>1. /\ DOMAIN m = BticWays /\ \A v \in BticWays : v # x => m[v] = way[v]
      /\ x \in BticWays => m[x] = [way[x] EXCEPT !.addr = a]
  BY DEF WayOK
<1>2. /\ DOMAIN u = BticWays
      /\ \A v \in BticWays :
           u[v] = [m[v] EXCEPT !.lru = IF v = x THEN BTIC_USTATES - 1
                                       ELSE IF m[v].lru > 0 THEN m[v].lru - 1 ELSE 0]
  BY DEF Use
<1> HIDE DEF m, u
<1>3. ASSUME NEW v \in BticWays, v # x
      PROVE  /\ DOMAIN u[v] = {"addr", "lru"} /\ u[v].addr = way[v].addr
             /\ u[v].lru \in 0 .. BTIC_USTATES - 1 /\ u[v].lru < BTIC_USTATES - 1
  <2>1. DOMAIN way[v] = {"addr", "lru"} /\ way[v].lru \in 0 .. BTIC_USTATES - 1
    BY DEF WayOK
  <2>2. u[v] = [way[v] EXCEPT !.lru = IF way[v].lru > 0 THEN way[v].lru - 1 ELSE 0]
    BY <1>1, <1>2, <1>3
  <2>3. DOMAIN u[v] = {"addr", "lru"} /\ u[v].addr = way[v].addr
        /\ u[v].lru = IF way[v].lru > 0 THEN way[v].lru - 1 ELSE 0
    BY <2>1, <2>2
  <2> QED BY <1>0, <2>1, <2>3
<1>4. ASSUME x \in BticWays
      PROVE  /\ DOMAIN u[x] = {"addr", "lru"} /\ u[x].addr = a
             /\ u[x].lru \in 0 .. BTIC_USTATES - 1 /\ u[x].lru = BTIC_USTATES - 1
  <2>1. DOMAIN way[x] = {"addr", "lru"}
    BY <1>4 DEF WayOK
  <2>2. m[x] = [way[x] EXCEPT !.addr = a] /\ u[x] = [m[x] EXCEPT !.lru = BTIC_USTATES - 1]
    BY <1>1, <1>2, <1>4
  <2>3. DOMAIN m[x] = {"addr", "lru"} /\ m[x].addr = a
    BY <2>1, <2>2
  <2> QED BY <1>0, <2>2, <2>3
<1> QED BY <1>2, <1>3, <1>4 DEF WayOK, u, m, Placed

(* btic_update() takes the way of the target, or else the older of two:    *)
(* never the one that holds the latest target, if there is another.        *)
LEMMA BticKeeps ==
  ASSUME NEW way, WayOK(way), NEW recent, RecentOK(recent), RecentKept(way, recent), NEW a
  PROVE  LET u == Placed(way, BticWay(way, a), a)
         IN  WayOK(u) /\ RecentOK(Used(recent, a)) /\ RecentKept(u, Used(recent, a))
<1> DEFINE x == BticWay(way, a)
           u == Placed(way, x, a)
           hits == {w \in BticWays : way[w].addr = a}
           old == {w \in BticWays : way[w].lru < BTIC_USTATES - 1}
           next == Used(recent, a)
<1>0. BTIC_USTATES \in Nat \ {0, 1} /\ BTIC_WAYS \in Nat \ {0}
  BY PredictAssumption
<1>1. /\ WayOK(u)
      /\ \A v \in BticWays : v # x => u[v].addr = way[v].addr /\ u[v].lru < BTIC_USTATES - 1
      /\ x \in BticWays => u[x].addr = a /\ u[x].lru = BTIC_USTATES - 1
  BY UseDoes
<1>2. RecentOK(next) /\ next # << >> /\ next[1] = a
  <2>1. CASE recent = << >>
    BY <2>1 DEF RecentOK, Used
  <2>2. CASE recent # << >> /\ Head(recent) = a
    <3>1. next = recent
      BY <2>2 DEF Used
    <3> QED BY <2>2, <3>1 DEF RecentOK
  <2>3. CASE recent # << >> /\ Head(recent) # a
    <3>1. next = <<a, Head(recent)>>
      BY <2>3 DEF Used
    <3> QED BY <2>3, <3>1 DEF RecentOK
  <2> QED BY <2>1, <2>2, <2>3
<1> HIDE DEF u
<1>3. ASSUME BTIC_WAYS <= 2 PROVE \E w \in BticWays : YoungestIs(u, next, w)
  <2>0. \A w \in BticWays : way[w].lru \in Int
    BY <1>0 DEF WayOK
  <2>1. BticWays = {0} \/ BticWays = {0, 1}
    BY <1>0, <1>3 DEF BticWays
  <2>2. \A S \in SUBSET BticWays : S # {} => \E y \in S : \A v \in S : v <= y
    BY <2>1
  <2>3. /\ hits # {} => x \in hits
        /\ hits = {} => x \in BticWays /\ (old # {} => x \in old)
    <3>1. hits # {} => x \in hits
      BY <2>2 DEF BticWay
    <3>2. hits = {} => x = IF old = {} THEN 0 ELSE CHOOSE w \in old : \A v \in old : v <= w
      BY DEF MinWay, BticWay
    <3>3. old # {} => (CHOOSE w \in old : \A v \in old : v <= w) \in old
      BY <2>2
    <3> QED BY <2>1, <3>1, <3>2, <3>3
  <2>4. x \in BticWays
    BY <2>3
  <2>5. ASSUME NEW v \in BticWays, v # x, Len(next) = 2 PROVE way[v].addr = next[2]
    <3>0. recent # << >>
      BY <2>5 DEF Used
    <3>1. PICK w \in BticWays : YoungestIs(way, recent, w)
      BY <1>3, <3>0 DEF RecentKept
    <3>2. Head(recent) = recent[1]
      BY <3>0 DEF RecentOK
    <3>3. CASE recent[1] = a
      <4>1. next = recent
        BY <3>0, <3>2, <3>3 DEF Used
      <4>2. recent[1] # recent[2]
        BY <2>5, <4>1 DEF RecentOK
      <4>3. \A y \in BticWays : y # w => way[y].addr = recent[2]
        BY <2>5, <3>1, <4>1 DEF YoungestIs
      <4>4. way[w].addr = a
        BY <3>1, <3>3 DEF YoungestIs
      <4>5. x = w
        BY <2>3, <3>3, <4>2, <4>3, <4>4
      <4> QED BY <2>5, <4>1, <4>3, <4>5
    <3>4. CASE recent[1] # a
      <4>1. next = <<a, recent[1]>>
        BY <3>0, <3>2, <3>4 DEF Used
      <4>2. way[w].addr = recent[1]
        BY <3>1 DEF YoungestIs
      <4>3. v \in BticWays /\ x \in BticWays /\ v # x /\ BticWays = {0, 1}
        BY <2>1, <2>4, <2>5
      <4>4. x # w
        <5>1. CASE hits # {}
          BY <2>3, <3>4, <4>2, <5>1
        <5>2. CASE hits = {}
          <6>1. way[w].lru = BTIC_USTATES - 1 /\ (v # w => way[v].lru < BTIC_USTATES - 1)
            BY <3>1, <4>3 DEF YoungestIs
          <6>2. ~(BTIC_USTATES - 1 < BTIC_USTATES - 1)
            BY <1>0
          <6>3. w \notin old /\ (v # w => v \in old)
            BY <4>3, <6>1, <6>2
          <6> QED BY <2>3, <4>3, <5>2, <6>3
        <5> QED BY <5>1, <5>2
      <4>5. v = w
        BY <4>3, <4>4
      <4> QED BY <4>1, <4>2, <4>5
    <3> QED BY <3>3, <3>4
  <2>6. YoungestIs(u, next, x)
    BY <1>1, <1>2, <2>4, <2>5 DEF YoungestIs
  <2> QED BY <2>4, <2>6
<1> QED BY <1>1, <1>2, <1>3 DEF RecentKept, u

(* A branch: both tables are updated, each if it is there.                 *)
LEMMA BranchKeeps ==
  ASSUME NEW s, PredictInv(s), NEW a, NEW t, NEW taken \in {0, 1}
  PROVE  LET b == IF s.bpb_enabled THEN bpb_update(s, a, taken) ELSE s
             u == IF s.btic_enabled THEN btic_update(b, t) ELSE b
         IN  PredictInv([u EXCEPT !.last = IF s.bpb_enabled THEN taken ELSE @])
<1> DEFINE b == IF s.bpb_enabled THEN bpb_update(s, a, taken) ELSE s
           u == IF s.btic_enabled THEN btic_update(b, t) ELSE b
           r == [u EXCEPT !.last = IF s.bpb_enabled THEN taken ELSE @]
<1>1. /\ DOMAIN b = PredictFields
      /\ \A f \in PredictFields : f # "bpb" => b[f] = s[f]
      /\ BPB_PSTATES = 2 => IF s.bpb_enabled THEN b.bpb.taken = taken
                            ELSE b.bpb.taken = s.bpb.taken
  <2>0. DOMAIN s = PredictFields
    BY DEF PredictInv
  <2>1. CASE ~s.bpb_enabled
    BY <2>0, <2>1
  <2>2. CASE s.bpb_enabled
    <3> DEFINE old == s.bpb.taken
               n == IF s.bpb.addr # a THEN (BPB_PSTATES \div 2 - 1) + taken
                    ELSE IF taken = 1
                    THEN IF old < BPB_PSTATES - 1 THEN old + 1 ELSE old
                    ELSE IF old > 0 THEN old - 1 ELSE 0
    <3>1. b = [s EXCEPT !.bpb = [addr |-> a, taken |-> n]]
      BY <2>2 DEF bpb_update
    <3>2. BPB_PSTATES = 2 => n = taken
      <4>1. ASSUME BPB_PSTATES = 2 PROVE old \in {0, 1} /\ BPB_PSTATES \div 2 = 1
        BY <4>1 DEF PredictInv
      <4> HIDE DEF old
      <4> QED BY <4>1
    <3> HIDE DEF n, b
    <3>3. DOMAIN b = PredictFields /\ b.bpb = [addr |-> a, taken |-> n]
          /\ \A f \in PredictFields : f # "bpb" => b[f] = s[f]
      BY <2>0, <3>1 DEF PredictFields
    <3> QED BY <2>2, <3>2, <3>3
  <2> QED BY <2>1, <2>2
<1> HIDE DEF b
<1>2. b.way = s.way /\ b.recent = s.recent /\ b.last = s.last /\ b.kind = "predict"
  BY <1>1 DEF PredictFields, PredictInv
<1>3. /\ DOMAIN u = PredictFields
      /\ \A f \in PredictFields : f \notin {"way", "recent"} => u[f] = b[f]
      /\ WayOK(u.way) /\ RecentOK(u.recent) /\ RecentKept(u.way, u.recent)
  <2>0. WayOK(s.way) /\ RecentOK(s.recent) /\ RecentKept(s.way, s.recent)
    BY DEF PredictInv
  <2>1. CASE ~s.btic_enabled
    BY <1>1, <1>2, <2>0, <2>1
  <2>2. CASE s.btic_enabled
    <3> DEFINE way == Placed(s.way, BticWay(s.way, t), t)
               recent == Used(s.recent, t)
    <3>1. WayOK(way) /\ RecentOK(recent) /\ RecentKept(way, recent)
      BY <2>0, BticKeeps
    <3>2. u = [b EXCEPT !.way = way, !.recent = recent]
      BY <1>2, <2>2 DEF btic_update, Placed, Used, BticWay
    <3> HIDE DEF u, way, recent
    <3> QED BY <1>1, <3>1, <3>2 DEF PredictFields
  <2> QED BY <2>1, <2>2
<1> HIDE DEF u
<1>4. u.last = s.last /\ u.bpb = b.bpb /\ u.kind = "predict"
  BY <1>2, <1>3 DEF PredictFields
<1>5. /\ DOMAIN r = PredictFields /\ r.last = IF s.bpb_enabled THEN taken ELSE s.last
      /\ \A f \in PredictFields : f # "last" => r[f] = u[f]
  BY <1>3, <1>4 DEF PredictFields
<1> HIDE DEF r
<1>6. r.way = u.way /\ r.recent = u.recent /\ r.bpb = b.bpb /\ r.kind = "predict"
  BY <1>4, <1>5 DEF PredictFields
<1>7. BPB_PSTATES = 2 => r.bpb.taken \in {0, 1} /\ r.last = r.bpb.taken
  BY <1>1, <1>5, <1>6 DEF PredictInv
<1>8. PredictInv(r)
  BY <1>3, <1>5, <1>6, <1>7 DEF PredictInv
<1> QED BY <1>8 DEF r, u, b

(* The performance counters leave the tables alone.                        *)
LEMMA PcuKeeps ==
  ASSUME NEW s, PredictInv(s), NEW v
  PROVE  /\ PredictInv([s EXCEPT !.PCCR = v]) /\ PredictInv([s EXCEPT !.PCMR = v])
         /\ PredictInv([s EXCEPT !.mode = v])
<1>1. DOMAIN s = PredictFields
  BY DEF PredictInv
<1>2. ASSUME NEW t, DOMAIN t = PredictFields, t.kind = s.kind, t.way = s.way, t.recent = s.recent,
             t.bpb = s.bpb, t.last = s.last
      PROVE  PredictInv(t)
  BY <1>2 DEF PredictInv
<1>3. PredictInv([s EXCEPT !.PCCR = v])
  BY <1>1, <1>2 DEF PredictFields
<1>4. PredictInv([s EXCEPT !.PCMR = v])
  BY <1>1, <1>2 DEF PredictFields
<1>5. PredictInv([s EXCEPT !.mode = v])
  BY <1>1, <1>2 DEF PredictFields
<1> QED BY <1>3, <1>4, <1>5

(* The inductive invariant of both.                                        *)
TimingInv(s) == SbufInv(s) \/ PredictInv(s)

(* An empty buffer and cleared tables satisfy the invariant.               *)
LEMMA TimingInvInit == SbufInit \/ PredictInit => TimingInv(dev)
<1>1. ASSUME SbufInit PROVE SbufInv(dev)
  <2> DEFINE B == [i \in 0 .. MAX_SBUF_LEN - 1 |-> 0]
  <2>1. B \in [RingIds -> Nat]
    BY DEF RingIds
  <2> HIDE DEF B
  <2>2. dev = [kind |-> "sbuf", cycles |-> 0, mem_cycles |-> 0, prev |-> 0, buf |-> B,
               head |-> 0, tail |-> 0, count |-> 0, ends |-> << >>, last |-> 0,
               due |-> 0, done |-> FALSE]
    BY <1>1 DEF SbufInit, B
  <2>3. DOMAIN dev = SbufFields
    BY <2>2 DEF SbufFields
  <2>4. /\ dev.kind = "sbuf" /\ dev.cycles = 0 /\ dev.mem_cycles = 0 /\ dev.prev = 0
        /\ dev.buf = B /\ dev.head = 0 /\ dev.tail = 0 /\ dev.count = 0
    BY <2>2
  <2>5. dev.ends = << >> /\ dev.last = 0 /\ dev.due = 0
    BY <2>2
  <2>6. 0 \in RingIds /\ SBUF_LEN \in Nat
    BY RingSize DEF RingIds
  <2>7. At(dev, 0) = 0
    BY <2>4, <2>6, RingHere DEF At
  <2>8. Queue(dev, dev.ends)
    BY <2>1, <2>4, <2>5, <2>6, <2>7 DEF Queue
  <2> QED BY <2>3, <2>4, <2>5, <2>8 DEF SbufInv
<1>2. ASSUME PredictInit PROVE PredictInv(dev)
  <2>1. PICK p \in BOOLEAN, t \in BOOLEAN, c \in BOOLEAN :
          dev = [kind |-> "predict", bpb_enabled |-> p, btic_enabled |-> t, pcu_enabled |-> c,
                 way |-> [w \in BticWays |-> [addr |-> 0, lru |-> 0]],
                 bpb |-> [addr |-> 0, taken |-> 0], recent |-> << >>,
                 last |-> 0, mode |-> "SM", PCMR |-> {}, PCCR |-> 0]
    BY <1>2 DEF PredictInit
  <2> DEFINE W == [w \in BticWays |-> [addr |-> 0, lru |-> 0]]
  <2>2. WayOK(W) /\ RecentKept(W, << >>) /\ RecentOK(<< >>)
    BY PredictAssumption DEF WayOK, RecentKept, RecentOK
  <2> HIDE DEF W
  <2>3. DOMAIN dev = PredictFields
    BY <2>1 DEF PredictFields
  <2>4. dev.kind = "predict" /\ dev.way = W /\ dev.recent = << >> /\ dev.last = 0
        /\ dev.bpb.taken = 0
    BY <2>1 DEF W
  <2> QED BY <2>2, <2>3, <2>4 DEF PredictInv
<1> QED BY <1>1, <1>2 DEF TimingInv

(* Every store, load and branch keeps the invariant.                       *)
LEMMA TimingInvStep ==
  ASSUME TimingInv(dev), [SbufNext \/ PredictNext]_dev
  PROVE  TimingInv(dev')
<1>1. CASE l_sw
  <2>1. PICK cyc \in StoreCycles : dev' = sbuf_store(StoreNoted(dev, cyc), cyc)
    BY <1>1 DEF l_sw
  <2>2. cyc \in Nat /\ SbufInv(dev) /\ ~dev.done
    BY <1>1, SbufAssumption DEF l_sw, TimingInv, Is, PredictInv
  <2> QED BY <2>1, <2>2, StoreExact DEF TimingInv
<1>2. CASE SbufLoad
  <2>1. SbufInv(dev) /\ ~dev.done /\ dev' = sbuf_load(LoadNoted(dev))
    BY <1>2 DEF SbufLoad, TimingInv, Is, PredictInv
  <2> QED BY <2>1, LoadExact DEF TimingInv
<1>3. CASE SbufTime
  <2>1. PICK n \in 1 .. SBUF_IDLE :
          dev' = [dev EXCEPT !.cycles = @ + dev.mem_cycles + n, !.mem_cycles = 0,
                             !.due = 0, !.done = FALSE]
    BY <1>3 DEF SbufTime
  <2>2. SbufInv(dev) /\ n \in Nat
    BY <1>3, SbufAssumption DEF SbufTime, TimingInv, Is, PredictInv
  <2> DEFINE r == [dev EXCEPT !.cycles = @ + dev.mem_cycles + n, !.mem_cycles = 0,
                              !.due = 0, !.done = FALSE]
  <2>3. /\ DOMAIN r = SbufFields /\ r.cycles = dev.cycles + dev.mem_cycles + n
        /\ r.mem_cycles = 0 /\ r.due = 0
        /\ \A f \in SbufFields \ {"cycles", "mem_cycles", "due", "done"} : r[f] = dev[f]
    BY <2>2 DEF SbufInv, SbufFields
  <2> HIDE DEF r
  <2>4. /\ r.kind = dev.kind /\ r.last = dev.last /\ r.ends = dev.ends /\ r.count = dev.count
        /\ r.prev = dev.prev /\ r.buf = dev.buf /\ r.head = dev.head /\ r.tail = dev.tail
    BY <2>3 DEF SbufFields
  <2>5. /\ dev.cycles \in Nat /\ dev.mem_cycles \in Nat /\ dev.prev \in Nat
        /\ dev.prev <= dev.cycles + dev.mem_cycles
    BY <2>2 DEF SbufInv, Queue
  <2>6. r.cycles \in Nat /\ r.prev <= r.cycles + r.mem_cycles
    BY <2>2, <2>3, <2>4, <2>5
  <2>7. Queue(r, r.ends)
    <3>1. Queue(dev, dev.ends)
      BY <2>2 DEF SbufInv
    <3>2. Queue(r, dev.ends)
      BY <2>4, <3>1, SameRing
    <3> QED BY <2>4, <3>2
  <2>8. SbufInv(r)
    BY <2>2, <2>3, <2>4, <2>6, <2>7 DEF SbufInv
  <2> QED BY <2>1, <2>8 DEF r, TimingInv
<1>4. CASE PredictBranch
  <2>1. PredictInv(dev)
    BY <1>4 DEF PredictBranch, TimingInv, Is, SbufInv
  <2>2. PICK a \in Targets, t \in Targets, taken \in {0, 1} :
          LET s == IF dev.bpb_enabled THEN bpb_update(dev, a, taken) ELSE dev
              u == IF dev.btic_enabled THEN btic_update(s, t) ELSE s
          IN  dev' = [u EXCEPT !.last = IF dev.bpb_enabled THEN taken ELSE @]
    BY <1>4 DEF PredictBranch
  <2>3. PredictInv(dev')
    BY <2>1, <2>2, BranchKeeps
  <2> QED BY <2>3 DEF TimingInv
<1>5. CASE PcuEvent
  <2>1. PredictInv(dev)
    BY <1>5 DEF PcuEvent, TimingInv, Is, SbufInv
  <2>2. PICK v : dev' = [dev EXCEPT !.PCCR = v]
    BY <1>5 DEF PcuEvent, pcu_count_event
  <2>3. PredictInv([dev EXCEPT !.PCCR = v])
    BY <2>1, PcuKeeps
  <2>4. PredictInv(dev')
    BY <2>2, <2>3
  <2> QED BY <2>4 DEF TimingInv
<1>6. CASE PcuWrite
  <2>1. PredictInv(dev)
    BY <1>6 DEF PcuWrite, TimingInv, Is, SbufInv
  <2>2. PICK v : dev' = [dev EXCEPT !.PCMR = v] \/ dev' = [dev EXCEPT !.mode = v]
    BY <1>6 DEF PcuWrite
  <2>3. PredictInv([dev EXCEPT !.PCMR = v]) /\ PredictInv([dev EXCEPT !.mode = v])
    BY <2>1, PcuKeeps
  <2>4. PredictInv(dev')
    BY <2>2, <2>3
  <2> QED BY <2>4 DEF TimingInv
<1>7. CASE UNCHANGED dev
  BY <1>7
<1> QED BY <1>1, <1>2, <1>3, <1>4, <1>5, <1>6, <1>7 DEF SbufNext, PredictNext

(* The invariant implies what is claimed of both.                          *)
LEMMA TimingInvRight == TimingInv(dev) => TimingRight
<1>1. ASSUME SbufInv(dev) PROVE TimingRight
  BY <1>1 DEF SbufInv, Queue, At, TimingRight, SbufExact, BticKeepsRecent, BpbRepeats, Is
<1>2. ASSUME PredictInv(dev) PROVE TimingRight
  <2>1. SbufExact
    BY <1>2 DEF PredictInv, SbufExact, Is
  <2>2. BpbRepeats
    <3> SUFFICES ASSUME BPB_PSTATES = 2
                 PROVE  dev.bpb.taken \div (BPB_PSTATES \div 2) = dev.last
      BY DEF BpbRepeats
    <3>1. dev.bpb.taken \in {0, 1} /\ dev.last = dev.bpb.taken
      BY <1>2 DEF PredictInv
    <3> QED BY <3>1
  <2>3. BticKeepsRecent
    <3> SUFFICES ASSUME BTIC_WAYS <= 2, NEW i \in 1 .. Len(dev.recent), i <= BTIC_WAYS
                 PROVE  \E w \in BticWays : dev.way[w].addr = dev.recent[i]
      BY DEF BticKeepsRecent
    <3>0. RecentOK(dev.recent) /\ RecentKept(dev.way, dev.recent) /\ BTIC_WAYS \in Nat \ {0}
      BY <1>2, PredictAssumption DEF PredictInv
    <3>1. Len(dev.recent) \in 0 .. 2 /\ dev.recent # << >>
      <4> DEFINE q == dev.recent
      <4>1. q = << >> \/ (\E a : q = <<a>>) \/ (\E a, b : a # b /\ q = <<a, b>>)
        BY <3>0 DEF RecentOK
      <4>2. CASE q = << >>
        <5>1. Len(dev.recent) = 0
          BY <4>2
        <5> QED BY <5>1
      <4>3. CASE \E a : q = <<a>>
        BY <4>3
      <4>4. CASE \E a, b : q = <<a, b>>
        BY <4>4
      <4> QED BY <4>1, <4>2, <4>3, <4>4
    <3>2. PICK w \in BticWays : YoungestIs(dev.way, dev.recent, w)
      BY <3>0, <3>1 DEF RecentKept
    <3>3. CASE i = 1
      BY <3>2, <3>3 DEF YoungestIs
    <3>4. CASE i # 1
      <4>0. i = 2 /\ Len(dev.recent) = 2 /\ BTIC_WAYS = 2
        <5> DEFINE n == Len(dev.recent)
        <5>1. n \in 0 .. 2 /\ i \in 1 .. n
          BY <3>1
        <5> HIDE DEF n
        <5>2. i = 2 /\ n = 2 /\ BTIC_WAYS = 2
          BY <3>0, <3>4, <5>1
        <5> QED BY <5>2 DEF n
      <4>1. i = 2 /\ Len(dev.recent) = 2 /\ 0 \in BticWays /\ 1 \in BticWays
        BY <4>0 DEF BticWays
      <4>2. PICK v \in BticWays : v # w
        BY <4>1
      <4> QED BY <3>2, <4>1, <4>2 DEF YoungestIs
    <3> QED BY <3>3, <3>4
  <2> QED BY <2>1, <2>2, <2>3 DEF TimingRight
<1> QED BY <1>1, <1>2 DEF TimingInv

(* The store buffer always accounts for every cycle, the branch target     *)
(* cache always has the targets used last, and the prediction buffer the   *)
(* direction of the latest branch: for a store buffer of every length,     *)
(* stores of any duration and a behaviour of any length.                   *)
THEOREM TimingAlwaysRight == TimingSpec => []TimingRight
<1>1. SbufInit \/ PredictInit => TimingInv(dev)
  BY TimingInvInit
<1>2. TimingInv(dev) /\ [SbufNext \/ PredictNext]_dev => TimingInv(dev)'
  <2> SUFFICES ASSUME TimingInv(dev), [SbufNext \/ PredictNext]_dev PROVE TimingInv(dev')
    BY DEF TimingInv, SbufInv, PredictInv, Queue, At, EndOf, WayOK, RecentOK, RecentKept,
           YoungestIs
  <2> QED BY TimingInvStep
<1>3. TimingInv(dev) => TimingRight
  BY TimingInvRight
<1> QED BY <1>1, <1>2, <1>3, PTL DEF TimingSpec
=============================================================================
