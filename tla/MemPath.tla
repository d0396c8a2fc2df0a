------------------------------- MODULE MemPath ------------------------------
(***************************************************************************)
(* A memory access of the processor: the caches, the MMUs and the          *)
(* functions that compose them.                                            *)
(*                                                                         *)
(* The data and the instruction cache (cache/dcache-model.c and            *)
(* icache-model.c) map a set and a way to a tag, a usage count and a line  *)
(* of words; a word is four byte lanes, lane 0 at the lowest address.      *)
(* Memory maps the words that exist: a read of another one is a bus error  *)
(* and leaves cur_area NULL.                                               *)
(*                                                                         *)
(* The data and the instruction MMU (mmu/dmmu.c and immu.c): software      *)
(* fills the TLB, translation checks rights, keeps usage counts and sets   *)
(* the cache inhibit flag.  An address is a page and an offset.            *)
(*                                                                         *)
(* The access itself (eval_mem*, set_mem* and eval_insn of                 *)
(* cpu/common/abstract.c): alignment, translation, then the cache.  Of the *)
(* three widths of each function there is one definition with the width as *)
(* a parameter.  Two kinds of behaviour: "data" with the data cache and    *)
(* the data MMU, "insn" with the instruction cache and MMU.  The cache     *)
(* commands of mtspr (cpu/or1k/sprs.c) and the accesses of the debugger    *)
(* around the cache are actions of their own.                              *)
(***************************************************************************)
EXTENDS Device

CONSTANTS
  CacheSets, CacheWays, CacheWords,  \* words per block
  CacheUstates

Lanes == 0 .. 3
ZeroWord == [l \in Lanes |-> 0]
NoTag == -1
Ways == 0 .. CacheWays - 1
BlockOf(a) == a \div (4 * CacheWords)
SetOf(a) == BlockOf(a) % CacheSets
TagOf(a) == BlockOf(a) \div CacheSets
WordIn(a) == (a \div 4) % CacheWords
EmptyWay(tag) == [tag |-> tag, lru |-> 0, line |-> [w \in 0 .. CacheWords - 1 |-> ZeroWord]]
EmptyCache(tag) == [set \in 0 .. CacheSets - 1 |-> [way \in Ways |-> EmptyWay(tag)]]

(* The lanes that an access of a width covers.                             *)
LanesOf(a, width) == (a % 4) .. (a % 4) + width - 1
InsertLanes(word, a, width, v) == [l \in Lanes |-> IF l \in LanesOf(a, width) THEN v ELSE word[l]]
-----------------------------------------------------------------------------
(* The way that holds a block; the last one if several do.                 *)
HitWays(c, a) == {w \in Ways : c[SetOf(a)][w].tag = TagOf(a)}
HitWay(c, a) == Max(HitWays(c, a))

(* A hit: younger ways age, the way becomes the youngest.                  *)
Touch(c, a, way) ==
  [c EXCEPT ![SetOf(a)] = [w \in Ways |->
     [@[w] EXCEPT !.lru = IF w = way THEN CacheUstates - 1
                          ELSE IF @ > c[SetOf(a)][way].lru THEN @ - 1 ELSE @]]]

(* The victim of a read miss is the first way with the least usage count;  *)
(* a write miss takes the last way that is not the youngest.               *)
LeastUsed(c, a) ==
  LET rank(w) == c[SetOf(a)][w].lru * CacheWays + w
  IN  CHOOSE w \in Ways : \A v \in Ways : rank(w) <= rank(v)
WriteVictim(c, a) ==
  LET old == {w \in Ways : c[SetOf(a)][w].lru < CacheUstates - 1}
  IN  IF old = {} THEN 0 ELSE Max(old)

(* Refill: if a word of the block does not exist the way is left empty.    *)
(* Lines of empty ways are never read: they are shown as zero.             *)
Blocks(s) == {w \div CacheWords : w \in DOMAIN s.mem}
BlockWords(a) == {BlockOf(a) * CacheWords + i : i \in 0 .. CacheWords - 1}
Refill(mem, c, a, way) ==
  IF BlockWords(a) \subseteq DOMAIN mem
  THEN [c EXCEPT ![SetOf(a)] = [w \in Ways |->
          IF w = way
          THEN [tag |-> TagOf(a), lru |-> CacheUstates - 1,
                line |-> [i \in 0 .. CacheWords - 1 |-> mem[BlockOf(a) * CacheWords + i]]]
          ELSE [@[w] EXCEPT !.lru = IF @ > 0 THEN @ - 1 ELSE 0]]]
  ELSE [c EXCEPT ![SetOf(a)][way] = EmptyWay(NoTag)]

(* The value of a read is the line or the memory word, cut to the lanes of *)
(* the access: what matters is whether the line holds what memory does.    *)
BusError(s) == [s EXCEPT !.exc = "BUSERR"]
MemRead(s, pa) == IF pa \div 4 \in DOMAIN s.mem THEN s ELSE BusError(s)

(* dc_simulate_read.  A failing refill is a bus error too.                 *)
dc_simulate_read(s, pa) ==
  LET miss == HitWays(s.dc, pa) = {}
      c == IF miss THEN Refill(s.mem, s.dc, pa, LeastUsed(s.dc, pa))
           ELSE Touch(s.dc, pa, HitWay(s.dc, pa))
  IN  IF ~s.dce \/ s.ci THEN MemRead(s, pa)
      ELSE IF HitWays(c, pa) = {} THEN BusError([s EXCEPT !.dc = c])
      ELSE [s EXCEPT !.dc = c, !.clean = IF miss THEN @ \cup {BlockOf(pa)} ELSE @]

(* dc_simulate_write: memory first, then the line if the cache is on.      *)
(* "clean" are the blocks whose copies nobody has written around.          *)
WriteHitOnly(s, pa, width, v) ==
  LET m == [s EXCEPT !.mem[pa \div 4] = InsertLanes(@, pa, width, v)]
  IN  IF pa \div 4 \notin DOMAIN s.mem THEN BusError(s)
      ELSE IF ~s.dce \/ s.ci THEN [m EXCEPT !.clean = @ \ {BlockOf(pa)}]
      ELSE IF HitWays(s.dc, pa) # {} THEN [m EXCEPT !.dc = Touch(s.dc, pa, HitWay(s.dc, pa))]
      ELSE m
dc_simulate_write(s, pa, width, v) ==
  LET m == [s EXCEPT !.mem[pa \div 4] = InsertLanes(@, pa, width, v)]
      way == HitWay(s.dc, pa)
      c == Refill(m.mem, s.dc, pa, WriteVictim(s.dc, pa))
  IN  IF pa \div 4 \notin DOMAIN s.mem THEN BusError(s)
      ELSE IF ~s.dce \/ s.ci THEN [m EXCEPT !.clean = @ \ {BlockOf(pa)}]
      ELSE IF HitWays(s.dc, pa) # {}
      THEN [m EXCEPT !.dc = [Touch(s.dc, pa, way) EXCEPT
                               ![SetOf(pa)][way].line[WordIn(pa)] =
                                  InsertLanes(@, pa, width, v)]]
      ELSE IF HitWays(c, pa) = {} THEN BusError([m EXCEPT !.dc = c])
      ELSE [m EXCEPT !.dc = c, !.clean = @ \cup {BlockOf(pa)}]

(* dc_inv: with the cache off the whole set, else one way that matches.    *)
(* "swept" are the sets that were cleared as a whole.                      *)
dc_inv(s, a) ==
  IF ~s.dce
  THEN [s EXCEPT !.dc[SetOf(a)] = [w \in Ways |-> EmptyWay(NoTag)],
                 !.clean = @ \cup {b \in Blocks(s) : b % CacheSets = SetOf(a)},
                 !.swept = @ \cup {SetOf(a)}]
  ELSE IF HitWays(s.dc, a) = {} THEN s
  ELSE [s EXCEPT !.dc[SetOf(a)][HitWay(s.dc, a)] = EmptyWay(NoTag),
                 !.clean = @ \cup {BlockOf(a)}]

(* A miss of the instruction cache sets the tag and ages the other ways    *)
(* before the refill, which takes back the tag only if it fails.           *)
IcRefill(mem, c, a, way) ==
  LET aged == [c EXCEPT ![SetOf(a)] =
                 [w \in Ways |-> [@[w] EXCEPT !.lru = IF @ > 0 THEN @ - 1 ELSE 0]]]
  IN  IF BlockWords(a) \subseteq DOMAIN mem THEN Refill(mem, c, a, way)
      ELSE [aged EXCEPT ![SetOf(a)][way] = EmptyWay(NoTag)]

(* ic_simulate_fetch: the first matching way, or the least used one.       *)
ic_simulate_fetch(s, pa) ==
  LET miss == HitWays(s.ic, pa) = {}
      c == IF miss THEN IcRefill(s.mem, s.ic, pa, LeastUsed(s.ic, pa))
           ELSE Touch(s.ic, pa, HitWay(s.ic, pa))
  IN  IF ~s.ice \/ s.ci THEN MemRead(s, pa)
      ELSE IF HitWays(c, pa) = {} THEN BusError([s EXCEPT !.ic = c])
      ELSE [s EXCEPT !.ic = c, !.fresh = IF miss THEN @ \cup {BlockOf(pa)} ELSE @]

(* ic_inv: "fresh" are the blocks that were not written since.             *)
ic_inv(s, a) ==
  [s EXCEPT !.ic[SetOf(a)] = [w \in Ways |->
                                IF ~s.ice \/ @[w].tag = TagOf(a)
                                THEN EmptyWay(NoTag) ELSE @[w]],
            !.fresh = @ \cup {BlockOf(a)}]
-----------------------------------------------------------------------------
(* The MMUs.                                                               *)

CONSTANTS
  TlbSets, TlbWays,
  TlbPage,     \* bytes of a page
  TlbHigh      \* 0x80000000: uncached from here on when the MMU is off

TlbWayIds == 0 .. TlbWays - 1
TlbEntry(v, page, ppn, ci, may) ==
  [v |-> v, page |-> page, ppn |-> ppn, ci |-> ci, may |-> may, lru |-> 0]
TlbEmpty == TlbEntry(FALSE, 0, 0, FALSE, {})
TlbEntries ==
  [v : BOOLEAN, page : Nat, ppn : Nat, ci : BOOLEAN,
   may : SUBSET {"SRE", "SWE", "URE", "UWE", "SXE", "UXE"}, lru : Nat]
TlbSet(ea) == (ea \div TlbPage) % TlbSets

(* dmmu_find_tlbmr, immu_find_tlbmr: the ways that match.                  *)
find_tlbmr(s, ea) ==
  {w \in TlbWayIds : LET e == s.tlb[TlbSet(ea)][w]
                     IN  e.v /\ e.page \div TlbSets = (ea \div TlbPage) \div TlbSets}
TlbWay(s, ea) == Min(find_tlbmr(s, ea))
TlbHit(s, ea) == s.tlb[TlbSet(ea)][TlbWay(s, ea)]
TlbPhys(entry, ea) == entry.ppn * TlbPage + (ea % TlbPage)

(* Every usage count of the set ages, then the bits of lru_reload, which   *)
(* is made of the number of sets, are or-ed into the entry that was hit.   *)
LruReload == IF TlbSets >= 4 THEN 3 ELSE TlbSets - 1
OrReload(x) == IF LruReload = 1 THEN x + 1 - (x % 2) ELSE IF LruReload = 3 THEN 3 ELSE x
TlbUse(s, ea) ==
  [s EXCEPT !.tlb[TlbSet(ea)] = [w \in TlbWayIds |->
     LET older == IF @[w].lru > 0 THEN @[w].lru - 1 ELSE 0
     IN  [@[w] EXCEPT !.lru = IF w = TlbWay(s, ea) THEN OrReload(older) ELSE older]]]

TlbFault(s, e) == [s EXCEPT !.exc = e]
TlbRight(s, sup, user) == IF s.sm THEN sup ELSE user
DataRight(s, write) ==
  IF write THEN TlbRight(s, "SWE", "UWE") ELSE TlbRight(s, "SRE", "URE")

(* dmmu_translate: "pa" is the result; a page fault is raised last.        *)
dmmu_translate(s, ea, write) ==
  IF ~s.mme THEN [s EXCEPT !.ci = ea >= TlbHigh, !.pa = ea]
  ELSE IF find_tlbmr(s, ea) = {} THEN TlbFault([s EXCEPT !.pa = 0], "DTLBMISS")
  ELSE LET e == TlbHit(s, ea)
           u == [TlbUse(s, ea) EXCEPT !.ci = e.ci, !.pa = TlbPhys(e, ea)]
       IN  IF DataRight(s, write) \in e.may THEN u ELSE TlbFault(u, "DPF")

immu_translate(s, ea) ==
  IF ~s.mme THEN [s EXCEPT !.ci = ea >= TlbHigh, !.pa = ea]
  ELSE IF find_tlbmr(s, ea) = {} THEN TlbFault([s EXCEPT !.pa = 0], "ITLBMISS")
  ELSE LET e == TlbHit(s, ea)
           u == [TlbUse(s, ea) EXCEPT !.ci = e.ci, !.pa = TlbPhys(e, ea)]
       IN  IF TlbRight(s, "SXE", "UXE") \in e.may THEN u ELSE TlbFault(u, "IPF")

(* peek_into_dtlb: no exception; through the cache it sets the inhibit     *)
(* flag like a translation.  A miss or a missing right gives address 0.    *)
peek_into_dtlb(s, ea, write, dc) ==
  IF ~s.mme THEN [s EXCEPT !.ci = IF dc THEN ea >= TlbHigh ELSE @, !.pa = ea]
  ELSE IF find_tlbmr(s, ea) = {} THEN [s EXCEPT !.pa = 0]
  ELSE LET e == TlbHit(s, ea)
       IN  IF DataRight(s, write) \notin e.may THEN [s EXCEPT !.pa = 0]
           ELSE [s EXCEPT !.ci = IF dc THEN e.ci ELSE @, !.pa = TlbPhys(e, ea)]

peek_into_itlb(s, ea) ==
  IF ~s.mme THEN [s EXCEPT !.pa = ea]
  ELSE IF find_tlbmr(s, ea) = {} \/ TlbRight(s, "SXE", "UXE") \notin TlbHit(s, ea).may
  THEN [s EXCEPT !.pa = 0]
  ELSE [s EXCEPT !.pa = TlbPhys(TlbHit(s, ea), ea)]
-----------------------------------------------------------------------------
(* The access.                                                             *)

CONSTANTS
  PathWords,    \* words of memory that exist
  PathTlbs,     \* contents of the TLB
  PathLoads,    \* loads: <<address, width>>
  PathStores,   \* stores: <<address, width>>
  PathDirects,  \* addresses written around the cache
  PathBytes     \* data

ASSUME PathAssumption ==
  /\ {CacheSets, CacheWays, CacheWords, TlbSets, TlbWays, TlbPage} \subseteq Nat \ {0}
  /\ PathWords \subseteq Nat /\ PathDirects \subseteq Nat
  /\ \A a \in PathLoads \cup PathStores : a[1] \in Nat /\ a[2] \in Nat \ {0}
  /\ PathTlbs \subseteq [0 .. TlbSets - 1 -> [TlbWayIds -> TlbEntries]]

(* "exc" is the exception an access takes; it is pending until the end of  *)
(* the access only.                                                        *)
PathStart(s) == [s EXCEPT !.exc = ""]
PathAlign(s) == [s EXCEPT !.exc = "ALIGN"]

(* The end of an access.  "precise" is history: none that took an          *)
(* exception of the MMU or for its alignment has changed memory or cache.  *)
PathEnd(s) ==
  [s EXCEPT !.exc = "",
            !.precise = @ /\ (s.exc \in {"ALIGN", "DPF", "DTLBMISS"}
                               => s.dc = dev.dc /\ s.mem = dev.mem)]

eval_mem(s, ea, width) ==
  LET t == dmmu_translate(PathStart(s), ea, FALSE)
  IN  IF ea % width # 0 THEN PathAlign(PathStart(s))
      ELSE IF t.exc # "" THEN [t EXCEPT !.pa = 0]
      ELSE dc_simulate_read([t EXCEPT !.pa = 0], t.pa)

set_mem(s, ea, width, v) ==
  LET t == dmmu_translate(PathStart(s), ea, TRUE)
  IN  IF ea % width # 0 THEN PathAlign(PathStart(s))
      ELSE IF t.exc # "" THEN [t EXCEPT !.pa = 0]
      ELSE dc_simulate_write([t EXCEPT !.pa = 0], t.pa, width, v)

eval_insn(s, ea) ==
  LET t == immu_translate(PathStart(s), ea)
  IN  IF t.exc # "" THEN [t EXCEPT !.pa = 0]
      ELSE ic_simulate_fetch([t EXCEPT !.pa = 0], t.pa)

(* Prefetch (DCBPR, ICBPR): after a miss in the TLB address 0 is read, and *)
(* the instruction side uses the inhibit flag of the last fetch.           *)
dc_prefetch(s, ea) ==
  LET t == peek_into_dtlb(PathStart(s), ea, FALSE, TRUE) IN dc_simulate_read([t EXCEPT !.pa = 0], t.pa)
ic_prefetch(s, ea) ==
  LET t == peek_into_itlb(PathStart(s), ea) IN ic_simulate_fetch([t EXCEPT !.pa = 0], t.pa)

(* set_direct*, set_program*, and DMA: memory changes, no cache does.      *)
set_direct(s, pa, v) ==
  IF pa \div 4 \notin DOMAIN s.mem THEN s
  ELSE [s EXCEPT !.mem[pa \div 4] = InsertLanes(@, pa, 1, v), !.clean = @ \ {BlockOf(pa)},
                 !.fresh = @ \ {BlockOf(pa)}]
-----------------------------------------------------------------------------
(* The data cache starts as zero bytes, with 0 a valid tag; the tags of    *)
(* the instruction cache are cleared to -1.                                *)
PathInit ==
  \E k \in {"data", "insn"}, t \in PathTlbs :
    dev = [kind |-> k, mem |-> [w \in PathWords |-> ZeroWord], tlb |-> t,
           dc |-> EmptyCache(0), ic |-> EmptyCache(NoTag), dce |-> FALSE, ice |-> FALSE,
           mme |-> FALSE, sm |-> TRUE, ci |-> FALSE, pa |-> 0, exc |-> "",
           precise |-> TRUE, clean |-> {}, swept |-> {},
           fresh |-> {w \div CacheWords : w \in PathWords}]

DataLoad == Is("data") /\ \E a \in PathLoads : dev' = PathEnd(eval_mem(dev, a[1], a[2]))
DataStore ==
  Is("data") /\ \E a \in PathStores, v \in PathBytes : dev' = PathEnd(set_mem(dev, a[1], a[2], v))
DataPrefetch == Is("data") /\ \E a \in PathLoads : dev' = PathStart(dc_prefetch(dev, 4 * (a[1] \div 4)))
DataInvalidate == Is("data") /\ \E a \in PathLoads : dev' = dc_inv(dev, a[1])
DataSwitch ==
  /\ Is("data")
  /\ \E on, mmu, sup \in BOOLEAN :
       dev' = [dev EXCEPT !.dce = on, !.mme = mmu, !.sm = sup]

InsnFetch == Is("insn") /\ \E a \in PathLoads : dev' = PathStart(eval_insn(dev, 4 * (a[1] \div 4)))
InsnPrefetch == Is("insn") /\ \E a \in PathLoads : dev' = PathStart(ic_prefetch(dev, 4 * (a[1] \div 4)))
InsnInvalidate == Is("insn") /\ \E a \in PathLoads : dev' = ic_inv(dev, a[1])
InsnSwitch ==
  /\ Is("insn")
  /\ \E on, mmu, sup \in BOOLEAN :
       dev' = [dev EXCEPT !.ice = on, !.mme = mmu, !.sm = sup]

(* The debugger, the loader or a DMA channel writes a byte.                *)
PathDirect ==
  /\ Is("data") \/ Is("insn")
  /\ \E a \in PathDirects, v \in PathBytes : dev' = set_direct(dev, a, v)

PathNext == \/ DataLoad \/ DataStore \/ DataPrefetch \/ DataInvalidate \/ DataSwitch
            \/ InsnFetch \/ InsnPrefetch \/ InsnInvalidate \/ InsnSwitch \/ PathDirect

PathSpec == PathInit /\ [][PathNext]_dev
-----------------------------------------------------------------------------
Copies(c, b) == {w \in Ways : c[b % CacheSets][w].tag = b \div CacheSets}
IsCopy(c, b, w) == \A i \in 0 .. CacheWords - 1 :
                     c[b % CacheSets][w].line[i] = dev.mem[b * CacheWords + i]

(* Once its set has been invalidated with the cache off, a block is in the *)
(* data cache at most once, and if nobody wrote around the cache since,    *)
(* the copy is what memory holds, for stores of every width and through    *)
(* every mapping.                                                          *)
DcCoherent ==
  Is("data") => \A b \in Blocks(dev) : b % CacheSets \in dev.swept =>
    /\ Cardinality(Copies(dev.dc, b)) <= 1
    /\ b \in dev.clean => \A w \in Copies(dev.dc, b) : IsCopy(dev.dc, b, w)

(* After an invalidation of the block that follows the last write to it,   *)
(* the instruction cache delivers what memory holds.                       *)
IcFresh ==
  Is("insn") => \A b \in dev.fresh : \A w \in Copies(dev.ic, b) : IsCopy(dev.ic, b, w)

(* An access that takes an exception of the MMU or for its alignment       *)
(* changes neither memory nor a cache.                                     *)
PathPrecise == Is("data") => dev.precise

(* A simulator access finds the address and the inhibit flag that an       *)
(* access of the processor would have, and address 0 where the processor   *)
(* would take an exception.                                                *)
PeekAgrees ==
  Is("data") => \A a \in PathLoads, write \in BOOLEAN :
    LET t == dmmu_translate(PathStart(dev), a[1], write)
        p == peek_into_dtlb(PathStart(dev), a[1], write, TRUE)
    IN  IF t.exc = "" THEN p.pa = t.pa /\ p.ci = t.ci ELSE p.pa = 0

(* Accesses through MMU and cache (eval_mem*, set_mem*, eval_insn) see one *)
(* memory, leave it alone when they fail, and agree with those of the      *)
(* simulator itself.                                                       *)
PathSound == DcCoherent /\ IcFresh /\ PathPrecise /\ PeekAgrees
=============================================================================
