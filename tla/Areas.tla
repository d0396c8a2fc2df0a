------------------------------- MODULE Areas --------------------------------
(***************************************************************************)
(* Memory areas (cpu/common/abstract.c): the list of areas that devices    *)
(* register, the search for the area of an address with the area of the    *)
(* last access as a cache, and the accesses of the processor and of the    *)
(* simulator itself.  An area offers the widths (1, 2 or 4 bytes) it can   *)
(* be read and written with; index 0 stands for NULL.                      *)
(*                                                                         *)
(* History: "kept" is the area that was switched off while it was that of  *)
(* the last access, until an access goes elsewhere.                        *)
(***************************************************************************)
EXTENDS Device

CONSTANTS
  AreaRequests,  \* what devices register: [addr, size, mc, reads, writes]
  AreaProbes,    \* addresses that are accessed
  AreaTop,       \* where addresses wrap (2^32)
  AreaMax        \* bound on the number of areas

(* Sizes from one byte to 2^30, the largest bit_mask() below is defined    *)
(* for.                                                                    *)
ASSUME AreaAssumption ==
  /\ AreaRequests \subseteq
       [addr : 0 .. AreaTop - 1, size : 1 .. 2^30, mc : BOOLEAN,
        reads : SUBSET {1, 2, 4}, writes : SUBSET {1, 2, 4}]
  /\ AreaTop \in Nat \ {0} /\ AreaProbes \subseteq 0 .. AreaTop - 1

(* bit_mask: the mask of the offsets inside a block of that size.          *)
bit_mask(size) ==
  LET wide == {k \in 0 .. 30 : 2^k >= size} IN 2^(CHOOSE k \in wide : \A l \in wide : k <= l) - 1

AreaBytes(a) == a.lo .. a.lo + a.size - 1
AreaIn(s, i, addr) == addr - (addr % s.areas[i].size) = s.areas[i].lo

(* The test of register_memoryarea_mask for an overlap.  The end of the    *)
(* area at the top of the address space wraps to 0.                        *)
AreaEnd(a) == (a.lo + a.size) % AreaTop
Overlaps(a, b) ==
  \/ a.lo >= b.lo /\ a.lo < AreaEnd(b)
  \/ AreaEnd(a) > b.lo /\ a.lo < AreaEnd(b)

(* reg_mem_area: size and address are rounded to a power of two, then an   *)
(* overlap with any area ends the program.                                 *)
reg_mem_area(s, r) ==
  LET size == bit_mask(r.size) + 1
      a == [lo |-> r.addr - (r.addr % size), size |-> size, valid |-> TRUE,
            reads |-> r.reads, writes |-> r.writes]
  IN  IF \E i \in 1 .. Len(s.areas) : Overlaps(a, s.areas[i])
      THEN [s EXCEPT !.exited = TRUE]
      ELSE [s EXCEPT !.areas = Append(@, a), !.cur = Len(s.areas) + 1,
                     !.mc = IF r.mc THEN Len(s.areas) + 1 ELSE @]

(* verify_memoryarea: the memory controller first, then the area of the    *)
(* last access, then the list; only the list is tested for "valid".        *)
ListFirst(s, addr) ==
  IF \E i \in 1 .. Len(s.areas) : AreaIn(s, i, addr) /\ s.areas[i].valid
  THEN CHOOSE i \in 1 .. Len(s.areas) :
         /\ AreaIn(s, i, addr) /\ s.areas[i].valid
         /\ \A j \in 1 .. i - 1 : ~AreaIn(s, j, addr) \/ ~s.areas[j].valid
  ELSE 0
VerifyAny(s, addr) == [s EXCEPT !.cur = IF s.cur # 0 THEN s.cur ELSE ListFirst(s, addr)]
verify_memoryarea(s, addr) ==
  [s EXCEPT !.cur = IF s.mc # 0 /\ AreaIn(s, s.mc, addr) THEN s.mc
                    ELSE IF s.cur # 0 /\ AreaIn(s, s.cur, addr) THEN s.cur
                    ELSE ListFirst(s, addr)]

set_mem_valid(s, i, b) == [s EXCEPT !.areas[i].valid = b]

(* evalsim_mem*: a width the area cannot be read with is a bus error at    *)
(* cur_vadd, which only stores set.                                        *)
evalsim_mem(s, addr, width) ==
  LET t == verify_memoryarea(s, addr)
  IN  IF t.cur = 0 THEN [t EXCEPT !.eear = addr]
      ELSE IF width \in t.areas[t.cur].reads THEN [t EXCEPT !.eear = -1]
      ELSE [t EXCEPT !.eear = t.vadd]

setsim_mem(s, addr, width) ==
  LET t == verify_memoryarea(s, addr)
  IN  IF t.cur = 0 THEN [t EXCEPT !.eear = addr]
      ELSE [t EXCEPT !.vadd = addr,
                     !.eear = IF width \in t.areas[t.cur].writes THEN -1 ELSE addr]

(* eval_direct*, set_direct* and set_program*: messages, no exceptions.    *)
direct_mem(s, addr) == [verify_memoryarea(s, addr) EXCEPT !.eear = -1]
-----------------------------------------------------------------------------
AreaInit ==
  dev = [kind |-> "area", areas |-> <<>>, cur |-> 0, mc |-> 0, exited |-> FALSE,
         vadd |-> 0, eear |-> -1, asked |-> -1, kept |-> 0]

(* Another area may have become the cached one.                            *)
Displaced(s) == [s EXCEPT !.kept = IF s.cur = @ THEN @ ELSE 0]

AreaRegister ==
  /\ Is("area") /\ ~dev.exited /\ dev.asked = -1 /\ Len(dev.areas) < AreaMax
  /\ \E r \in AreaRequests :
       (r.mc => dev.mc = 0) /\ dev' = Displaced(reg_mem_area(dev, r))

(* "asked" is the address of the last access, "eear" that of its bus error *)
(* or -1.                                                                  *)
Accessed(s, a) == [Displaced(s) EXCEPT !.asked = a]
AreaAccess ==
  /\ Is("area") /\ ~dev.exited /\ dev.areas # <<>>
  /\ \E a \in AreaProbes, w \in {1, 2, 4} :
       /\ a % w = 0
       /\ \/ dev' = Accessed(evalsim_mem(dev, a, w), a)
          \/ dev' = Accessed(setsim_mem(dev, a, w), a)
          \/ dev' = Accessed(direct_mem(dev, a), a)

(* The memory controller switches a chip select.                           *)
AreaSwitch ==
  /\ Is("area") /\ ~dev.exited /\ dev.mc # 0
  /\ \E i \in 1 .. Len(dev.areas), b \in BOOLEAN :
       /\ i # dev.mc
       /\ dev' = [set_mem_valid(dev, i, b) EXCEPT
                    !.asked = -1,
                    !.kept = IF i # dev.cur THEN @ ELSE IF b THEN 0 ELSE i]

AreaNext == AreaRegister \/ AreaAccess \/ AreaSwitch

AreaSpec == AreaInit /\ [][AreaNext]_dev
-----------------------------------------------------------------------------
(* No address belongs to two areas, after their sizes were rounded up, in  *)
(* whatever order they were registered, by calls or by the sections of a   *)
(* configuration file; but the area that ends where addresses wrap may     *)
(* overlap any other, and nobody notices.                                  *)
AreaAtTop(a) == a.lo + a.size >= AreaTop
AreasDisjoint ==
  Is("area") \/ Is("config") => \A i, j \in 1 .. Len(dev.areas) :
    \/ i = j
    \/ dev.areas[i].lo + dev.areas[i].size <= dev.areas[j].lo
    \/ dev.areas[j].lo + dev.areas[j].size <= dev.areas[i].lo
    \/ AreaAtTop(dev.areas[i]) \/ AreaAtTop(dev.areas[j])

(* An access reaches an area that contains its address and is valid, or no *)
(* valid area does and it is a bus error.  The exception is the area that  *)
(* was switched off while it was cached: the cache is not tested for       *)
(* "valid", and it answers until an access goes elsewhere.                 *)
AreaRight ==
  Is("area") /\ dev.asked # -1 =>
    IF dev.cur # 0
    THEN /\ dev.asked \in AreaBytes(dev.areas[dev.cur])
         /\ dev.areas[dev.cur].valid \/ dev.cur = dev.kept
    ELSE \A i \in 1 .. Len(dev.areas) :
           dev.areas[i].valid => dev.asked \notin AreaBytes(dev.areas[i])

(* An address has one area at most (register_memoryarea_mask), and an      *)
(* access finds it (verify_memoryarea), with the two exceptions above.     *)
AreasSound == AreasDisjoint /\ AreaRight
=============================================================================
