--------------------------------- MODULE Mc ---------------------------------
(***************************************************************************)
(* The memory controller (peripheral/mc.c).  Memory areas wait in the list *)
(* mc_areas until the first reset of "their" controller takes them into a  *)
(* list of its own; the lists are kept as the pointers they are: "nxt" is  *)
(* the field next of struct mc_area and 0 is NULL.  Chip selects have an   *)
(* enable bit and a select value; the timing registers are left out: the   *)
(* tests that should look at the memory type ("x && 0x07 == TYPE") are     *)
(* false for every type, so no delay is ever adjusted.                     *)
(*                                                                         *)
(* "hung" is the state in which a loop of mc_reset() does not end.         *)
(* "mixed" is history: after some reset an area of one controller was on   *)
(* the list of another.                                                    *)
(***************************************************************************)
EXTENDS Device

CONSTANTS
  N_CE,        \* chip selects of a controller
  McConfigs,   \* configurations: sequences of areas [cs, mc], in the order
               \* of their registration
  McControllers, \* the indices of the controllers, in the order of
               \* their resets
  McSelects,   \* chip select values
  McMasks      \* values of BA_MASK

(* Indices should be unique (mc_sec_end does not check it); 0 is what a    *)
(* reset leaves.                                                           *)
ASSUME McAssumption ==
  /\ N_CE \in Nat \ {0} /\ McControllers \in Seq(Int)
  /\ \A i, j \in DOMAIN McControllers : McControllers[i] = McControllers[j] => i = j
  /\ McConfigs \subseteq Seq([cs : Int, mc : Int])
  /\ McSelects \subseteq Int /\ 0 \in McSelects /\ McMasks \subseteq Int

McIndices == {McControllers[i] : i \in DOMAIN McControllers}
McAreas(s) == DOMAIN s.areas
ChipSelects == 0 .. N_CE - 1

(* mc_reg_mem_area() puts each area in front of the list.                  *)
mc_reg_mem_area(areas) ==
  [kind |-> "mc", areas |-> areas, nxt |-> [a \in DOMAIN areas |-> a - 1],
   waiting |-> Len(areas), own |-> [m \in McIndices |-> 0], hung |-> FALSE,
   mixed |-> FALSE,
   csc |-> [m \in McIndices |-> [c \in ChipSelects |->
              [en |-> FALSE, sel |-> 0]]],
   mask |-> [m \in McIndices |-> 0],
   mem |-> [a \in DOMAIN areas |-> [valid |-> TRUE, cmp |-> 0, mask |-> 0]]]

(* The list that starts with a: its areas in order, then NULL.  A list of  *)
(* more entries than there are areas has a cycle.                          *)
McList(s, a) ==
  LET l[n \in 0 .. Len(s.areas)] ==
        IF n = 0 THEN a ELSE IF l[n - 1] = 0 THEN 0 ELSE s.nxt[l[n - 1]]
  IN  l
OnList(s, a) == {McList(s, a)[n] : n \in 0 .. Len(s.areas)} \ {0}
Cyclic(s, a) == McList(s, a)[Len(s.areas)] # 0
McMixed(s) == \E m \in McIndices : \E a \in OnList(s, s.own[m]) : s.areas[a].mc # m
-----------------------------------------------------------------------------
(* One round of the loop of mc_reset() that moves areas from mc_areas to   *)
(* the controller's list: w holds the state, cur and prev.                 *)
GrabStep(w, m) ==
  LET s == w.s
      c == w.cur
      cut == IF w.prev # 0 THEN [s EXCEPT !.nxt[w.prev] = s.nxt[c]]
             ELSE [s EXCEPT !.waiting = s.nxt[c]]
  IN  IF c = 0 THEN w
      ELSE IF s.areas[c].mc # m THEN [w EXCEPT !.prev = c, !.cur = s.nxt[c]]
      ELSE [s |-> [cut EXCEPT !.nxt[c] = cut.own[m], !.own[m] = c],
            prev |-> c, cur |-> s.nxt[c]]

McGrab(s, m) ==
  LET rounds == Len(s.areas) + 1
      w[n \in 0 .. rounds] ==
        IF n = 0 THEN [s |-> s, prev |-> 0, cur |-> s.waiting] ELSE GrabStep(w[n - 1], m)
      g == w[rounds].s
  IN  [g EXCEPT !.hung = w[rounds].cur # 0 \/ Cyclic(g, g.own[m]),
                !.mixed = @ \/ McMixed(g)]

(* The first area on the list with this chip select.                       *)
McSelected(s, m, cs) ==
  LET l == McList(s, s.own[m])
      hits == {n \in 0 .. Len(s.areas) : l[n] # 0 /\ s.areas[l[n]].cs = cs}
  IN  IF hits = {} THEN 0 ELSE l[CHOOSE n \in hits : \A k \in hits : n <= k]

SetNoMask(s, m, cs) ==
  LET a == McSelected(s, m, cs)
  IN  IF a = 0 THEN s
      ELSE [s EXCEPT !.mem[a] = [valid |-> s.csc[m][cs].en,
                                 cmp |-> s.csc[m][cs].sel, mask |-> @.mask]]
set_csc_tms(s, m, cs) ==
  LET a == McSelected(s, m, cs)
  IN  IF a = 0 THEN s
      ELSE [s EXCEPT !.mem[a] = [valid |-> s.csc[m][cs].en,
                                 cmp |-> s.csc[m][cs].sel, mask |-> s.mask[m]]]

(* set_csc_tms() for every chip select, in order.                          *)
SetAll(s, m) ==
  LET t[n \in 0 .. N_CE] == IF n = 0 THEN s ELSE set_csc_tms(t[n - 1], m, n - 1)
  IN  t[N_CE]

mc_reset(s, m) ==
  LET g == McGrab([s EXCEPT !.mask[m] = 0,
                     !.csc[m] = [c \in ChipSelects |->
                                   [en |-> c = 0, sel |-> 0]]], m)
      owned == OnList(g, g.own[m])
      off == [g EXCEPT !.mem = [a \in McAreas(s) |->
                [g.mem[a] EXCEPT !.valid = @ /\ a \notin owned]]]
  IN  IF g.hung THEN g ELSE set_csc_tms(off, m, 0)

(* sim_reset() resets one after the other, until one does not return.      *)
McResetAll(s) ==
  LET r[n \in 0 .. Len(McControllers)] ==
        IF n = 0 THEN s
        ELSE IF r[n - 1].hung THEN r[n - 1] ELSE mc_reset(r[n - 1], McControllers[n])
  IN  r[Len(McControllers)]
McInit == \E c \in McConfigs : dev = McResetAll(mc_reg_mem_area(c))
-----------------------------------------------------------------------------
(* Also a write to a timing register, which sets the decoder again from    *)
(* the CSC as it is.                                                       *)
McWriteCsc ==
  /\ Is("mc") /\ ~dev.hung
  /\ \E m \in McIndices, c \in ChipSelects, e \in BOOLEAN, v \in McSelects :
       dev' = set_csc_tms([dev EXCEPT !.csc[m][c] = [en |-> e, sel |-> v]], m, c)

McWriteMask ==
  /\ Is("mc") /\ ~dev.hung
  /\ \E m \in McIndices, v \in McMasks :
       dev' = SetAll([dev EXCEPT !.mask[m] = v], m)

McReset == Is("mc") /\ ~dev.hung /\ dev' = McResetAll(dev)

McNext == McWriteCsc \/ McWriteMask \/ McReset

McSpec == McInit /\ [][McNext]_dev
-----------------------------------------------------------------------------
(* As long as no reset has mixed up the lists of two controllers, the      *)
(* address decoder of a memory area that a controller has taken, and that  *)
(* answers to some address, is what that controller's registers say, after *)
(* every order of writes and resets (set_csc_tms, mc_reset).               *)
McDecoderFollows ==
  Is("mc") /\ ~dev.hung /\ ~dev.mixed =>
    \A m \in McIndices, cs \in ChipSelects :
      LET a == McSelected(dev, m, cs) IN
        a # 0 => /\ dev.mem[a].valid = dev.csc[m][cs].en
                 /\ dev.mem[a].valid =>
                      /\ dev.mem[a].cmp = dev.csc[m][cs].sel
                      /\ dev.mem[a].mask = dev.mask[m]
=============================================================================
