-------------------------------- MODULE Alu ---------------------------------
(***************************************************************************)
(* What the instructions compute (cpu/or32/insnset.c), but for branches    *)
(* (module Pipeline), stores (MemPath, Timing) and the codes of l.nop.  A  *)
(* register has ALU_W bits, a half of them in a half word and a quarter in *)
(* a byte; every instruction is run on all pairs of operands.              *)
(*                                                                         *)
(* The C code relies in places on what C leaves undefined.  The sum of two *)
(* signed numbers that does not fit wraps, but a compiler may drop a test  *)
(* that only such a sum can pass: the repository's flags (-O2) let gcc     *)
(* never set the overflow flag of l.add.  A shift by the width or more     *)
(* uses the count modulo the width or shifts everything out.  The product  *)
(* of l.mac wraps or does not.                                             *)
(*                                                                         *)
(* History: "op", "a" and "b" are the latest instruction and its operands, *)
(* "carry" the carry before it, "low" the operands of a l.add that a       *)
(* l.addc continues, and "acc" the exact sum of the products accumulated,  *)
(* with "exact" telling that each one fitted in a register and "macs"      *)
(* counting them.                                                          *)
(***************************************************************************)
EXTENDS Device, FiniteSetsExt

CONSTANTS
  ALU_W,        \* bits of a register, a multiple of 4
  ALU_MACS      \* bound: products accumulated

ASSUME AluAssumption == ALU_W \in {4 * n : n \in 1 .. 8} /\ ALU_MACS \in Nat

AluTop == 2 ^ ALU_W
AluWords == 0 .. AluTop - 1
Wrap(n) == n % AluTop
(* (orreg_t): the word as a signed number; and the low n bits so.          *)
LowSigned(a, n) == LET v == a % 2 ^ n IN IF v >= 2 ^ (n - 1) THEN v - 2 ^ n ELSE v
Signed(a) == LowSigned(a, ALU_W)
FitsSigned(n) == -(AluTop \div 2) <= n /\ n < AluTop \div 2

AluBitsOf(a) == {i \in 0 .. ALU_W - 1 : (a \div 2 ^ i) % 2 = 1}
AluWord(bits) == MapThenSumSet(LAMBDA i : 2 ^ i, bits)

NoValue == -1       \* the destination register keeps its value

AluInit ==
  \E cy, ove, f \in BOOLEAN :
    dev = [kind |-> "alu", op |-> "none", a |-> 0, b |-> 0, carry |-> FALSE,
           low |-> <<0, 0>>, macs |-> 0, d |-> NoValue, CY |-> cy, OV |-> FALSE,
           OVE |-> ove, F |-> f, hi |-> 0, lo |-> 0, acc |-> 0,
           exact |-> TRUE, exc |-> "none", st |-> "run"]

(* A result with the carry and the overflow flag, and the range exception. *)
Flags(s, d, cy, ov) ==
  [s EXCEPT !.d = d, !.CY = cy, !.OV = ov,
            !.exc = IF s.OVE /\ ov THEN "RANGE" ELSE "none"]
-----------------------------------------------------------------------------
(* Arithmetic.  The results of an instruction are a set of states.         *)
OverflowTest(exact) == IF FitsSigned(exact) THEN {FALSE} ELSE {TRUE, FALSE}

l_add(s, a, b) ==
  {Flags(s, Wrap(a + b), Wrap(a + b) < b, ov) :
     ov \in OverflowTest(Signed(a) + Signed(b))}

AddcStrict(s, a, b) ==
  LET c == Bit(s.CY)
      t == Wrap(a + b + c)
  IN  {Flags(s, t, t < b, ov) : ov \in OverflowTest(Signed(a) + Signed(b) + c)}
l_addc(s, a, b) ==
  LET c == Bit(s.CY)
      t == Wrap(a + b + c)
  IN  {Flags(s, t, (s.CY /\ t <= b) \/ t < b, ov) :
         ov \in OverflowTest(Signed(a) + Signed(b) + c)}

l_sub(s, a, b) ==
  {Flags(s, Wrap(a - b), b > a, ov) :
     ov \in OverflowTest(Signed(a) - Signed(b))}

l_mul(s, a, b) ==
  {Flags(s, Wrap(Signed(a) * Signed(b)), a * b > AluTop - 1,
         ~ FitsSigned(Signed(a) * Signed(b)))}

l_mulu(s, a, b) ==
  {[s EXCEPT !.d = Wrap(a * b), !.OV = FALSE, !.CY = a * b > AluTop - 1,
             !.exc = "none"]}

(* A division by 0 sets the carry and keeps the register; the exception is *)
(* for the carry.  The smallest number by -1 traps on the host.            *)
Quotient(a, b) ==
  LET mag(n) == IF n < 0 THEN -n ELSE n
      q == mag(a) \div mag(b)
  IN  IF (a < 0) = (b < 0) THEN q ELSE -q
Divided(s, b, d) ==
  [s EXCEPT !.d = IF b = 0 THEN NoValue ELSE d, !.CY = b = 0, !.OV = FALSE,
            !.exc = IF s.OVE /\ b = 0 THEN "RANGE" ELSE "none"]
l_div(s, a, b) ==
  IF b # 0 /\ ~ FitsSigned(Quotient(Signed(a), Signed(b)))
  THEN {[s EXCEPT !.st = "SIGFPE"]}
  ELSE {Divided(s, b, IF b = 0 THEN NoValue
                      ELSE Wrap(Quotient(Signed(a), Signed(b))))}
l_divu(s, a, b) == {Divided(s, b, IF b = 0 THEN NoValue ELSE a \div b)}
-----------------------------------------------------------------------------
(* Moves, logic and shifts.                                                *)
Gives(s, d) == [s EXCEPT !.d = d, !.exc = "none"]

l_movhi(s, a) == {Gives(s, Wrap(a * 2 ^ (ALU_W \div 2)))}
l_and(s, a, b) == {Gives(s, AluWord(AluBitsOf(a) \cap AluBitsOf(b)))}
l_or(s, a, b) == {Gives(s, AluWord(AluBitsOf(a) \cup AluBitsOf(b)))}
l_xor(s, a, b) == {Gives(s, AluWord(SymDiff(AluBitsOf(a), AluBitsOf(b))))}

ShiftCounts(b) == IF b < ALU_W THEN {b} ELSE {b % ALU_W, ALU_W}
l_sll(s, a, b) == {Gives(s, Wrap(a * 2 ^ n)) : n \in ShiftCounts(b)}
l_sra(s, a, b) == {Gives(s, Wrap(Signed(a) \div 2 ^ n)) : n \in ShiftCounts(b)}
l_srl(s, a, b) == {Gives(s, a \div 2 ^ n) : n \in ShiftCounts(b)}
l_ror(s, a, b) ==
  LET k == b % ALU_W
  IN  {Gives(s, AluWord(AluBitsOf(a \div 2 ^ k)
                          \cup AluBitsOf(Wrap(a * 2 ^ n)))) :
         n \in ShiftCounts(ALU_W - k)}

(* The word is turned by swapping ever larger neighbours; the last swap is *)
(* a signed shift, which fills the upper half with the sign.               *)
Swap(bits, k) == {IF (i \div k) % 2 = 0 THEN i + k ELSE i - k : i \in bits}
Sizes == SetToSortSeq({k \in 1 .. ALU_W \div 4 : \E n \in 0 .. 5 : k = 2 ^ n},
                      LAMBDA x, y : x < y)
SwapAll(bits) == FoldLeft(Swap, bits, Sizes)
ffs(bits) == IF bits = {} THEN 0 ELSE Min(bits) + 1
l_ff1(s, a) == {Gives(s, ffs(AluBitsOf(a)))}
l_fl1(s, a) ==
  LET half == ALU_W \div 2
      t == SwapAll(AluBitsOf(a))
      sign == IF ALU_W - 1 \in t THEN half .. ALU_W - 1 ELSE {}
      n == ffs(Swap(t, half) \cup sign)
  IN  {Gives(s, IF n = 0 THEN 0 ELSE ALU_W + 1 - n)}

l_cmov(s, a, b) == {Gives(s, IF s.F THEN a ELSE b)}
l_ext(s, op, a) ==
  {Gives(s, CASE op = "l_extbs" -> Wrap(LowSigned(a, ALU_W \div 4))
              [] op = "l_extbz" -> a % 2 ^ (ALU_W \div 4)
              [] op = "l_exths" -> Wrap(LowSigned(a, ALU_W \div 2))
              [] op = "l_exthz" -> a % 2 ^ (ALU_W \div 2)
              [] op \in {"l_extws", "l_extwz"} -> a)}

(* A load of the word a, which may end with an exception or a breakpoint:  *)
(* then nothing is set.                                                    *)
l_load(s, op, a) ==
  {Gives(s, NoValue),
   Gives(s, CASE op = "l_lbs" -> Wrap(LowSigned(a, ALU_W \div 4))
              [] op = "l_lbz" -> a % 2 ^ (ALU_W \div 4)
              [] op = "l_lhs" -> Wrap(LowSigned(a, ALU_W \div 2))
              [] op = "l_lhz" -> a % 2 ^ (ALU_W \div 2)
              [] op \in {"l_lws", "l_lwz"} -> a)}

l_sf(s, op, a, b) ==
  {[s EXCEPT !.d = NoValue, !.exc = "none",
     !.F = CASE op = "l_sfeq" -> a = b
             [] op = "l_sfne" -> a # b
             [] op = "l_sfgts" -> Signed(a) > Signed(b)
             [] op = "l_sfges" -> Signed(a) >= Signed(b)
             [] op = "l_sflts" -> Signed(a) < Signed(b)
             [] op = "l_sfles" -> Signed(a) <= Signed(b)
             [] op = "l_sfgtu" -> a > b
             [] op = "l_sfgeu" -> a >= b
             [] op = "l_sfltu" -> a < b
             [] op = "l_sfleu" -> a <= b]}
-----------------------------------------------------------------------------
(* The accumulator, twice as wide as a register.                           *)
MacWide == AluTop * AluTop
Accumulate(s, t) ==
  LET l == (s.hi * AluTop + s.lo + t) % MacWide
  IN  [s EXCEPT !.hi = l \div AluTop, !.lo = l % AluTop, !.d = NoValue,
                !.exc = "none"]
Products(a, b) == {Signed(Wrap(a * b)), Signed(a) * Signed(b)}
Recorded(s, product, sign) ==
  [s EXCEPT !.acc = @ + sign * product, !.exact = @ /\ FitsSigned(product)]

l_mac(s, a, b) ==
  {Recorded(Accumulate(s, t), Signed(a) * Signed(b), 1) :
     t \in Products(a, b)}
l_msb(s, a, b) ==
  {Recorded(Accumulate(s, -t), Signed(a) * Signed(b), -1) :
     t \in Products(a, b)}
l_macrc(s) ==
  {[Gives(s, s.lo) EXCEPT !.lo = 0, !.hi = 0, !.acc = 0, !.exact = TRUE]}
-----------------------------------------------------------------------------
Comparisons ==
  {"l_sfeq", "l_sfne", "l_sfgts", "l_sfges", "l_sflts", "l_sfles", "l_sfgtu",
   "l_sfgeu", "l_sfltu", "l_sfleu"}
Extensions ==
  {"l_extbs", "l_extbz", "l_exths", "l_exthz", "l_extws", "l_extwz"}
Loads == {"l_lbs", "l_lbz", "l_lhs", "l_lhz", "l_lws", "l_lwz"}

(* The outcomes of an instruction of two operands, of one, of the          *)
(* accumulator.                                                            *)
Binary(s, a, b) ==
  [l_add |-> l_add(s, a, b), l_addc |-> l_addc(s, a, b),
   l_sub |-> l_sub(s, a, b), l_mul |-> l_mul(s, a, b),
   l_mulu |-> l_mulu(s, a, b), l_div |-> l_div(s, a, b),
   l_divu |-> l_divu(s, a, b), l_and |-> l_and(s, a, b),
   l_or |-> l_or(s, a, b), l_xor |-> l_xor(s, a, b),
   l_sll |-> l_sll(s, a, b), l_sra |-> l_sra(s, a, b),
   l_srl |-> l_srl(s, a, b), l_ror |-> l_ror(s, a, b),
   l_cmov |-> l_cmov(s, a, b)]

Ran(s, op, a, b) == [s EXCEPT !.op = op, !.a = a, !.b = b, !.carry = dev.CY]

AluBinary ==
  /\ Is("alu") /\ dev.op = "none"
  /\ \E a, b \in AluWords :
       LET run == Binary(dev, a, b)
       IN  \E op \in DOMAIN run : \E s \in run[op] : dev' = Ran(s, op, a, b)

AluCompare ==
  /\ Is("alu") /\ dev.op = "none"
  /\ \E a, b \in AluWords, op \in Comparisons : \E s \in l_sf(dev, op, a, b) :
       dev' = Ran(s, op, a, b)

AluUnary ==
  /\ Is("alu") /\ dev.op = "none"
  /\ \E a \in AluWords :
       \/ \E s \in l_movhi(dev, a) : dev' = Ran(s, "l_movhi", a, 0)
       \/ \E s \in l_ff1(dev, a) : dev' = Ran(s, "l_ff1", a, 0)
       \/ \E s \in l_fl1(dev, a) : dev' = Ran(s, "l_fl1", a, 0)
       \/ \E op \in Extensions : \E s \in l_ext(dev, op, a) :
            dev' = Ran(s, op, a, 0)
       \/ \E op \in Loads : \E s \in l_load(dev, op, a) :
            dev' = Ran(s, op, a, 0)

(* The upper words of a sum of two words each.                             *)
AluCarryOn ==
  /\ Is("alu") /\ dev.op = "l_add" /\ ~ dev.OVE /\ ~ dev.F
  /\ \E a, b \in AluWords : \E s \in l_addc(dev, a, b) :
       dev' = [Ran(s, "wide", a, b) EXCEPT !.low = <<dev.a, dev.b>>,
                                           !.OV = FALSE]

(* l.mac, l.msb and l.macrc in any order.                                  *)
MacOps == {"none", "l_mac", "l_msb", "l_macrc"}
AluMac ==
  /\ Is("alu") /\ dev.op \in MacOps /\ ~ dev.CY /\ ~ dev.OVE /\ ~ dev.F
  /\ dev.macs < ALU_MACS
  /\ \E a, b \in AluWords :
       \/ \E s \in l_mac(dev, a, b) : dev' = [s EXCEPT !.op = "l_mac", !.macs = @ + 1]
       \/ \E s \in l_msb(dev, a, b) : dev' = [s EXCEPT !.op = "l_msb", !.macs = @ + 1]
AluMacRead ==
  /\ Is("alu") /\ dev.op \in {"l_mac", "l_msb"}
  /\ \E s \in l_macrc(dev) : dev' = [s EXCEPT !.op = "l_macrc"]

AluNext ==
  AluBinary \/ AluCompare \/ AluUnary \/ AluCarryOn \/ AluMac \/ AluMacRead
-----------------------------------------------------------------------------
(* Arithmetic is exact: the register has the result modulo the width, the  *)
(* carry tells that an unsigned result did not fit, a sum of two words     *)
(* each by l.add and l.addc is the sum of the numbers with its carry, the  *)
(* overflow flag is set only for a signed result that does not fit, and    *)
(* the range exception is taken exactly when the instruction set the flag  *)
(* that it watches and SR[OVE] allows it.                                  *)
AluArithmetic ==
  (Is("alu") /\ dev.st = "run") =>
    LET a == dev.a
        b == dev.b
        c == Bit(dev.carry)
        sum == a + b + (IF dev.op = "l_addc" THEN c ELSE 0)
        wide == (a * AluTop + dev.low[1]) + (b * AluTop + dev.low[2])
        got == dev.d * AluTop + Wrap(dev.low[1] + dev.low[2])
    IN  /\ dev.op \in {"l_add", "l_addc"} =>
             sum = dev.d + Bit(dev.CY) * AluTop
        /\ dev.op = "wide" => wide = got + Bit(dev.CY) * MacWide
        /\ dev.op = "l_sub" => a - b = dev.d - Bit(dev.CY) * AluTop
        /\ dev.op = "l_mulu" => /\ (a * b - dev.d) % AluTop = 0
                                /\ dev.CY <=> a * b # dev.d
        /\ dev.op = "l_mul" =>
             /\ (Signed(a) * Signed(b) - dev.d) % AluTop = 0
             /\ dev.OV <=> Signed(a) * Signed(b) # Signed(dev.d)
        /\ dev.op = "l_divu" /\ b > 0 => dev.d * b <= a /\ a < (dev.d + 1) * b
        /\ dev.op = "l_div" /\ b > 0 =>
             \E r \in (1 - AluTop) .. (AluTop - 1) :
               /\ Signed(a) = Signed(dev.d) * Signed(b) + r
               /\ r # 0 => (r < 0 <=> Signed(a) < 0)
               /\ r * r < Signed(b) * Signed(b)
        /\ dev.op \in {"l_div", "l_divu"} => dev.CY = (b = 0)
        /\ dev.op = "l_add" /\ dev.OV => Signed(a) + Signed(b) # Signed(dev.d)
        /\ dev.op \in {"l_add", "l_addc", "l_sub", "l_mul"} =>
             (dev.exc = "RANGE" <=> dev.OVE /\ dev.OV)

(* Bits go where they belong: l.ff1 and l.fl1 find the lowest and the      *)
(* highest one, l.ror turns the word for every count, the extensions and   *)
(* the loads of a part keep its signed or unsigned value, and a signed     *)
(* shift to the right divides, rounding down.                              *)
AluBitsRight ==
  Is("alu") =>
    LET bits == AluBitsOf(dev.a)
        part(op) == IF op \in {"l_lbs", "l_lbz", "l_extbs", "l_extbz"}
                    THEN ALU_W \div 4 ELSE ALU_W \div 2
    IN  /\ dev.op = "l_ff1" =>
             IF bits = {} THEN dev.d = 0
             ELSE dev.d - 1 \in bits /\ \A i \in bits : dev.d - 1 <= i
        /\ dev.op = "l_fl1" =>
             IF bits = {} THEN dev.d = 0
             ELSE dev.d - 1 \in bits /\ \A i \in bits : i <= dev.d - 1
        /\ dev.op = "l_ror" =>
             \A i \in 0 .. ALU_W - 1 :
               i \in AluBitsOf(dev.d) <=> (i + dev.b) % ALU_W \in bits
        /\ dev.op = "l_sra" /\ dev.b < ALU_W =>
             /\ Signed(dev.d) * 2 ^ dev.b <= Signed(dev.a)
             /\ Signed(dev.a) < (Signed(dev.d) + 1) * 2 ^ dev.b
        /\ (dev.op \in {"l_extbs", "l_exths", "l_lbs", "l_lhs"}
              /\ dev.d # NoValue) =>
             /\ FitsSigned(Signed(dev.d) * 2 ^ (ALU_W - part(dev.op)))
             /\ (dev.d - dev.a) % 2 ^ part(dev.op) = 0
        /\ (dev.op \in {"l_extbz", "l_exthz", "l_lbz", "l_lhz"}
              /\ dev.d # NoValue) =>
             /\ dev.d < 2 ^ part(dev.op)
             /\ (dev.d - dev.a) % 2 ^ part(dev.op) = 0

(* Whatever the order of l.mac, l.msb and l.macrc, MACHI and MACLO         *)
(* together are the sum of the products since the latest l.macrc, as long  *)
(* as each product fits in a register.                                     *)
MacExact ==
  (Is("alu") /\ dev.op \in MacOps /\ dev.exact) =>
    dev.hi * AluTop + dev.lo = dev.acc % MacWide

(* The instructions of insnset.c compute what their names say on every     *)
(* pair of operands.                                                       *)
AluRight == AluArithmetic /\ AluBitsRight /\ MacExact
=============================================================================
