----------------------------- MODULE DebugUnit ------------------------------
(***************************************************************************)
(* The debug unit (debug/debug-unit.c): matchpoints, chained watchpoints,  *)
(* the two counters, the stall state of the processor and the development  *)
(* interface that a debugger writes.  The number of matchpoints and the    *)
(* width of the counters are parameters (8 and 16 in the code); the last   *)
(* two watchpoints depend on the counters.                                 *)
(***************************************************************************)
EXTENDS Device

CONSTANTS
  MAX_MATCHPOINTS,
  DuBits,       \* width of the fields COUNT and MATCH of a DWCR
  DuSetups,     \* what software programs: [mp, cw, wgb, wce, awtc]
  DuData,       \* addresses and data the processor accesses
  DuExceptions  \* exceptions that have a bit in DSR

ASSUME DuAssumption == MAX_MATCHPOINTS \in Nat

MatchIds == 0 .. MAX_MATCHPOINTS - 1
WatchIds == 0 .. MAX_MATCHPOINTS + 1
DuActions == {"IFEA", "LEA", "SEA", "LD", "SD"}
DuLimit == 2^DuBits
-----------------------------------------------------------------------------
(* Unstalling makes a changed NPC valid again and ends a halt.             *)
StallOnly(s, b) == [s EXCEPT !.riscop = b, !.stalled = b]
set_stall_state(s, b) ==
  [s EXCEPT !.riscop = b, !.stalled = b, !.halted = @ /\ b, !.npcbad = @ /\ b]

du_reset(s) == set_stall_state(s, FALSE)

(* The kind of access a matchpoint watches (DCR, field CT).                *)
DuWatches(ct, action) ==
  CASE ct = "LSEA" -> action \in {"LEA", "SEA"}
    [] ct = "LSD" -> action \in {"LD", "SD"}
    [] OTHER -> ct = action

(* The comparison (DCR, field CC).  The signed comparison of the code is   *)
(* one of "long" variables, which on a 64-bit host are never negative.     *)
DuCompare(cc, x, v) ==
  CASE cc = "MASKED" -> \E b \in 0 .. 7 : (x \div 2^b) % 2 = 1 /\ (v \div 2^b) % 2 = 1
    [] cc = "EQ" -> x = v
    [] cc = "NE" -> x # v
    [] cc = "LT" -> x < v
    [] cc = "LE" -> x <= v
    [] cc = "GT" -> x > v
    [] cc = "GE" -> x >= v
    [] OTHER -> FALSE

DuMatches(s, action, x) ==
  {i \in MatchIds : /\ s.setup.mp[i].dp
                    /\ DuWatches(s.setup.mp[i].ct, action)
                    /\ DuCompare(s.setup.mp[i].cc, x, s.setup.mp[i].v)}

(* One watchpoint, from its own condition and the watchpoint before it.    *)
DuChained(link, own, before) ==
  CASE link = "none" -> own
    [] link = "and" -> own /\ before
    [] link = "or" -> own \/ before
    [] OTHER -> FALSE

(* Watchpoint i, on top of those already found; the first has no           *)
(* predecessor and ignores "and" and "or".                                 *)
DuLink(s, own, wp, i) ==
  LET link == IF i = 0 /\ s.setup.cw[0] # "none" THEN "rsvd" ELSE s.setup.cw[i]
  IN  IF DuChained(link, i \in own, i - 1 \in wp) THEN wp \cup {i} ELSE wp

(* Watchpoints lo .. hi, in order.                                         *)
DuChain(s, own, found, lo, hi) ==
  LET wp[n \in 0 .. hi - lo + 1] ==
        IF n = 0 THEN found ELSE DuLink(s, own, wp[n - 1], lo + n - 1)
  IN  wp[hi - lo + 1]

(* Counter c gains the watchpoints that are assigned to it.  The count is  *)
(* a short: when it is negative its sign spreads over the field MATCH.     *)
DuCount(s, wp, c) ==
  LET k == Cardinality({i \in wp : (i \in s.setup.awtc) = (c = 1)})
      n == (s.dwcr[c].count + IF c \in s.setup.wce THEN k ELSE 0) % DuLimit
  IN  [count |-> n, match |-> IF n >= DuLimit \div 2 THEN DuLimit - 1
                              ELSE s.dwcr[c].match]

calculate_watchpoints(s, action, x) ==
  LET mp == DuMatches(s, action, x)
      wp == DuChain(s, mp, {}, 0, MAX_MATCHPOINTS - 1)
      w == IF s.setup.wce = {} THEN s
           ELSE [s EXCEPT !.dwcr = [c \in {0, 1} |-> DuCount(s, wp, c)]]
      hit == {MAX_MATCHPOINTS + c : c \in {d \in {0, 1} :
                w.dwcr[d].count = w.dwcr[d].match}}
      all == DuChain(s, hit, wp, MAX_MATCHPOINTS, MAX_MATCHPOINTS + 1)
      brk == all \cap s.setup.wgb
  IN  IF mp = {} THEN [s EXCEPT !.broke = FALSE]
      ELSE [w EXCEPT !.wbs = @ \cup brk, !.broke = brk # {}]

check_debug_unit(s, action, x) ==
  IF s.inreset \/ (s.setup.wgb = {} /\ s.setup.awtc = {}) THEN s
  ELSE calculate_watchpoints(s, action, x)

(* An exception the debugger has not asked for also sets the stall state.  *)
debug_ignore_exception(s, e) ==
  set_stall_state([s EXCEPT !.drr = IF e \in s.dsr THEN @ \cup {e} ELSE @],
                  e \in s.dsr)

(* A write to RISCOP; the falling edge of RESET resets the whole simulator.*)
set_devint_reg(s, rst, stall) ==
  LET w == [s EXCEPT !.inreset = rst, !.riscop = stall]
      r == IF s.inreset /\ ~rst
           THEN du_reset([w EXCEPT !.npcbad = FALSE, !.dsr = {}, !.drr = {}]) ELSE w
  IN  set_stall_state(r, r.riscop)
-----------------------------------------------------------------------------
DuInit ==
  \E u \in DuSetups, d \in SUBSET DuExceptions :
    dev = [kind |-> "du", setup |-> u, dsr |-> d, drr |-> {}, wbs |-> {},
           dwcr |-> [c \in {0, 1} |-> [count |-> 0, match |-> 1]],
           broke |-> FALSE, riscop |-> FALSE, stalled |-> FALSE,
           halted |-> FALSE, npcbad |-> FALSE, inreset |-> FALSE]

(* The processor accesses memory; a breakpoint becomes a trap exception.   *)
DuAccess ==
  /\ Is("du") /\ ~dev.stalled
  /\ \E a \in DuActions, x \in DuData :
       LET s == check_debug_unit(dev, a, x)
       IN  dev' = IF s.broke THEN debug_ignore_exception(s, "TRAP") ELSE s

DuException ==
  /\ Is("du") /\ ~dev.stalled
  /\ \E e \in DuExceptions : dev' = debug_ignore_exception(dev, e)

(* The program of a library build exits (l.nop 1).                         *)
DuHalt ==
  /\ Is("du") /\ ~dev.stalled
  /\ dev' = set_stall_state([dev EXCEPT !.halted = TRUE], TRUE)

DuDevelopment ==
  /\ Is("du")
  /\ \E rst, stall \in BOOLEAN : dev' = set_devint_reg(dev, rst, stall)

(* SPR writes of the debugger: NPC while stalled, and the counters.        *)
DuWriteNpc == Is("du") /\ dev.stalled /\ dev' = [dev EXCEPT !.npcbad = TRUE]
DuWriteDwcr ==
  /\ Is("du") /\ dev.stalled
  /\ \E c \in {0, 1}, m \in 1 .. DuLimit - 1 :
       dev' = [dev EXCEPT !.dwcr[c] = [count |-> 0, match |-> m]]

DuNext == \/ DuAccess \/ DuException \/ DuHalt \/ DuDevelopment
          \/ DuWriteNpc \/ DuWriteDwcr

DuSpec == DuInit /\ [][DuNext]_dev
-----------------------------------------------------------------------------
(* The stall bit a debugger reads in RISCOP is the stall state of the      *)
(* processor, and a running processor is neither halted nor waiting for a  *)
(* valid NPC, across resets, exceptions and exits.                         *)
DuStallAgrees ==
  Is("du") => /\ dev.riscop = dev.stalled
              /\ ~dev.stalled => ~dev.halted /\ ~dev.npcbad

(* A chain of "and" links is the conjunction of the matchpoints up to it,  *)
(* a chain of "or" links the disjunction.                                  *)
DuChainMeaning ==
  Is("du") => \A a \in DuActions, x \in DuData, i \in MatchIds :
    LET mp == DuMatches(dev, a, x)
        wp == DuChain(dev, mp, {}, 0, MAX_MATCHPOINTS - 1)
        all(link) == \A j \in 1 .. i : dev.setup.cw[j] = link
    IN  /\ dev.setup.cw[0] = "none" /\ all("and") => (i \in wp <=> 0 .. i \subseteq mp)
        /\ dev.setup.cw[0] = "none" /\ all("or") => (i \in wp <=> (0 .. i) \cap mp # {})

(* The debug unit agrees with the processor about its state                *)
(* (set_stall_state) and with the debugger about its watchpoints           *)
(* (calculate_watchpoints).                                                *)
DuSound == DuStallAgrees /\ DuChainMeaning
=============================================================================
