------------------------------- MODULE Float --------------------------------
(***************************************************************************)
(* Floating point: the instructions lf.* (cpu/or32/insnset.c), the control *)
(* register FPCSR (float_set_rm() and float_set_flags() of                 *)
(* cpu/or32/execute.c) and the single-precision routines of softfloat that *)
(* they call, but for the remainder.  The format is a parameter: a sign,   *)
(* FEXP exponent bits, FFRAC fraction bits and, behind these while a       *)
(* result is computed, FGUARD guard bits (8, 23 and 7 in the code), so     *)
(* that every pair of numbers can be run in every rounding mode, and the   *)
(* bits that are shifted out behind the guard bits matter.                 *)
(*                                                                         *)
(* A number is the integer whose bits it has.  A routine returns a number  *)
(* z with the flags fl that it raises; softfloat collects flags in         *)
(* "sticky".  History: "ran" is the latest instruction, with its operands, *)
(* the flags that it raised and the rounding mode that software chose.     *)
(***************************************************************************)
EXTENDS Device, FiniteSetsExt

CONSTANTS
  FEXP, FFRAC,  \* bits of the exponent and of the fraction
  FGUARD,       \* guard bits
  FINT,         \* bits of an integer register
  FloatFew      \* operands of the multiply and add

ASSUME FloatAssumption ==
  FEXP \in Nat \ {0, 1} /\ FFRAC \in Nat \ {0} /\ FGUARD \in Nat \ {0, 1, 2}
  /\ FINT \in Nat \ {0, 1}

Guard == FGUARD
FTop == FFRAC + Guard           \* the leading bit of a significand being rounded
FBias == 2 ^ (FEXP - 1) - 1
FSpecial == 2 ^ FEXP - 1        \* the exponent of infinities and NaNs
Hidden == 2 ^ FFRAC
SignBit == 2 ^ (FEXP + FFRAC)
Floats == 0 .. 2 * SignBit - 1
Modes == {"RN", "RZ", "RIP", "RIN"}

extractFloat32Frac(a) == a % Hidden
extractFloat32Exp(a) == (a \div Hidden) % 2 ^ FEXP
extractFloat32Sign(a) == a \div SignBit
(* The fields are added: an integer part of the significand moves on into  *)
(* the exponent.                                                           *)
packFloat32(zSign, zExp, zSig) == zSign * SignBit + zExp * Hidden + zSig
Z(z, flags) == [z |-> z, fl |-> flags]
Xor(x, y) == (x + y) % 2

float32_is_nan(a) ==
  extractFloat32Exp(a) = FSpecial /\ extractFloat32Frac(a) # 0
float32_is_signaling_nan(a) ==
  float32_is_nan(a) /\ extractFloat32Frac(a) < Hidden \div 2
Quiet(a) == IF extractFloat32Frac(a) < Hidden \div 2 THEN a + Hidden \div 2 ELSE a
DefaultNaN == packFloat32(1, FSpecial, Hidden \div 2)
propagateFloat32NaN(a, b) ==
  LET flags == IF float32_is_signaling_nan(a) \/ float32_is_signaling_nan(b)
               THEN {"invalid"} ELSE {}
  IN  Z(IF /\ float32_is_nan(a)
           /\ ~ (float32_is_signaling_nan(a) /\ float32_is_nan(b))
        THEN Quiet(a) ELSE Quiet(b), flags)
-----------------------------------------------------------------------------
(* Shift to the right; the bits that fall off are kept in the lowest one.  *)
ShiftLosing(a, n) == a \div 2 ^ n
Jam(a, n) ==
  IF a = 0 THEN 0
  ELSE LET q == a \div 2 ^ n
       IN  IF a % 2 ^ n # 0 /\ q % 2 = 0 THEN q + 1 ELSE q
Msb(a) == CHOOSE i \in 0 .. 30 : 2 ^ i <= a /\ a \div 2 ^ i = 1

Increment(rm, zSign) ==
  CASE rm = "RN" -> 2 ^ (Guard - 1)
    [] rm = "RZ" -> 0
    [] rm = "RIP" -> IF zSign = 1 THEN 0 ELSE 2 ^ Guard - 1
    [] rm = "RIN" -> IF zSign = 1 THEN 2 ^ Guard - 1 ELSE 0

(* The guard bits are dropped; a tie goes to the even number.              *)
Rounded(rm, zSig, inc) ==
  LET r == (zSig + inc) \div 2 ^ Guard
  IN  IF zSig % 2 ^ Guard = 2 ^ (Guard - 1) /\ rm = "RN" THEN r - (r % 2) ELSE r

roundAndPackFloat32(rm, zSign, zExp, zSig) ==
  LET inc == Increment(rm, zSign)
      over == zSig + inc >= 2 ^ (FTop + 1)
      last == FSpecial - 2
      tiny == zExp < 0 /\ (zExp < -1 \/ ~ over)
      sig == IF zExp < 0 THEN Jam(zSig, -zExp) ELSE zSig
      bits == sig % 2 ^ Guard
      r == Rounded(rm, sig, inc)
  IN  IF zExp > last \/ (zExp = last /\ over)
      THEN Z(packFloat32(zSign, FSpecial, 0) - Bit(inc = 0),
             {"overflow", "inexact"})
      ELSE Z(packFloat32(zSign, IF r = 0 \/ zExp < 0 THEN 0 ELSE zExp, r),
             (IF bits # 0 THEN {"inexact"} ELSE {})
               \cup (IF tiny /\ bits # 0 THEN {"underflow"} ELSE {}))

normalizeRoundAndPackFloat32(rm, zSign, zExp, zSig) ==
  LET n == FTop - Msb(zSig)
  IN  roundAndPackFloat32(rm, zSign, zExp - n, zSig * 2 ^ n)

(* A number that is not 0 as an exponent and a significand with its        *)
(* leading bit; a subnormal one is normalised.                             *)
Unpacked(a) ==
  LET f == extractFloat32Frac(a)
      n == FFRAC - Msb(f)
  IN  IF extractFloat32Exp(a) # 0 THEN <<extractFloat32Exp(a), f + Hidden>>
      ELSE <<1 - n, f * 2 ^ n>>
-----------------------------------------------------------------------------
(* The sum of the magnitudes.  The significand of the number with the      *)
(* smaller exponent is shifted; a subnormal has exponent 1.                *)
RealExp(e) == IF e = 0 THEN 1 ELSE e
Lead(e, bit) == IF e = 0 THEN 0 ELSE bit

addFloat32Sigs(rm, a, b, zSign) ==
  LET ae == extractFloat32Exp(a)
      be == extractFloat32Exp(b)
      as == extractFloat32Frac(a) * 2 ^ (Guard - 1)
      bs == extractFloat32Frac(b) * 2 ^ (Guard - 1)
      lead == 2 ^ (FTop - 1)
      ze == IF ae > be THEN ae ELSE be
      sum == IF ae > be THEN as + lead + Jam(bs + Lead(be, lead), ae - RealExp(be))
             ELSE bs + lead + Jam(as + Lead(ae, lead), be - RealExp(ae))
  IN  IF float32_is_nan(a) \/ float32_is_nan(b) THEN propagateFloat32NaN(a, b)
      ELSE IF ae = FSpecial THEN Z(a, {})
      ELSE IF be = FSpecial THEN Z(packFloat32(zSign, FSpecial, 0), {})
      ELSE IF ae = be /\ ae = 0
      THEN Z(packFloat32(zSign, 0, (as + bs) \div 2 ^ (Guard - 1)), {})
      ELSE IF ae = be THEN roundAndPackFloat32(rm, zSign, ae, 2 * lead + as + bs)
      ELSE IF 2 * sum >= 2 ^ (FTop + 1)
      THEN roundAndPackFloat32(rm, zSign, ze, sum)
      ELSE roundAndPackFloat32(rm, zSign, ze - 1, 2 * sum)

(* The difference of the magnitudes.                                       *)
subFloat32Sigs(rm, a, b, zSign) ==
  LET ae == extractFloat32Exp(a)
      be == extractFloat32Exp(b)
      as == extractFloat32Frac(a) * 2 ^ Guard
      bs == extractFloat32Frac(b) * 2 ^ Guard
      lead == 2 ^ FTop
      bigA == as + lead - Jam(bs + Lead(be, lead), ae - RealExp(be))
      bigB == bs + lead - Jam(as + Lead(ae, lead), be - RealExp(ae))
      give(sign, e, sig) == normalizeRoundAndPackFloat32(rm, sign, e - 1, sig)
  IN  IF float32_is_nan(a) \/ float32_is_nan(b) THEN propagateFloat32NaN(a, b)
      ELSE IF ae = FSpecial /\ be = FSpecial THEN Z(DefaultNaN, {"invalid"})
      ELSE IF ae = FSpecial THEN Z(a, {})
      ELSE IF be = FSpecial THEN Z(packFloat32(1 - zSign, FSpecial, 0), {})
      ELSE IF ae > be THEN give(zSign, ae, bigA)
      ELSE IF ae < be THEN give(1 - zSign, be, bigB)
      ELSE IF as > bs THEN give(zSign, RealExp(ae), as - bs)
      ELSE IF bs > as THEN give(1 - zSign, RealExp(be), bs - as)
      ELSE Z(packFloat32(Bit(rm = "RIN"), 0, 0), {})

float32_add(rm, a, b) ==
  IF extractFloat32Sign(a) = extractFloat32Sign(b)
  THEN addFloat32Sigs(rm, a, b, extractFloat32Sign(a))
  ELSE subFloat32Sigs(rm, a, b, extractFloat32Sign(a))
float32_sub(rm, a, b) ==
  IF extractFloat32Sign(a) = extractFloat32Sign(b)
  THEN subFloat32Sigs(rm, a, b, extractFloat32Sign(a))
  ELSE addFloat32Sigs(rm, a, b, extractFloat32Sign(a))
-----------------------------------------------------------------------------
IsInf(a) == a % SignBit = FSpecial * Hidden
IsZero(a) == a % SignBit = 0

float32_mul(rm, a, b) ==
  LET zSign == Xor(extractFloat32Sign(a), extractFloat32Sign(b))
      ua == Unpacked(a)
      ub == Unpacked(b)
      sig == Jam((ua[2] * 2 ^ Guard) * (ub[2] * 2 ^ (Guard + 1)), FTop + 2)
      exp == ua[1] + ub[1] - FBias
  IN  IF float32_is_nan(a) \/ float32_is_nan(b) THEN propagateFloat32NaN(a, b)
      ELSE IF (IsInf(a) /\ IsZero(b)) \/ (IsZero(a) /\ IsInf(b))
      THEN Z(DefaultNaN, {"invalid"})
      ELSE IF IsInf(a) \/ IsInf(b) THEN Z(packFloat32(zSign, FSpecial, 0), {})
      ELSE IF IsZero(a) \/ IsZero(b) THEN Z(packFloat32(zSign, 0, 0), {})
      ELSE IF sig < 2 ^ FTop
      THEN roundAndPackFloat32(rm, zSign, exp - 1, 2 * sig)
      ELSE roundAndPackFloat32(rm, zSign, exp, sig)

(* The quotient is shifted into place first; its lowest bit tells that the *)
(* division left a remainder.                                              *)
float32_div(rm, a, b) ==
  LET zSign == Xor(extractFloat32Sign(a), extractFloat32Sign(b))
      ua == Unpacked(a)
      ub == Unpacked(b)
      sa == ua[2] * 2 ^ Guard
      sb == ub[2] * 2 ^ (Guard + 1)
      big == sb <= sa + sa
      na == IF big THEN sa \div 2 ELSE sa
      exp == ua[1] - ub[1] + FBias - 2 + Bit(big)
      q == (na * 2 ^ (FTop + 2)) \div sb
      sig == IF q % 2 ^ (Guard - 1) = 0 /\ sb * q # na * 2 ^ (FTop + 2)
             THEN q + 1 ELSE q
  IN  IF float32_is_nan(a) \/ float32_is_nan(b) THEN propagateFloat32NaN(a, b)
      ELSE IF (IsInf(a) /\ IsInf(b)) \/ (IsZero(a) /\ IsZero(b))
      THEN Z(DefaultNaN, {"invalid"})
      ELSE IF IsInf(a) THEN Z(packFloat32(zSign, FSpecial, 0), {})
      ELSE IF IsInf(b) THEN Z(packFloat32(zSign, 0, 0), {})
      ELSE IF IsZero(b) THEN Z(packFloat32(zSign, FSpecial, 0), {"divbyzero"})
      ELSE IF IsZero(a) THEN Z(packFloat32(zSign, 0, 0), {})
      ELSE roundAndPackFloat32(rm, zSign, exp, sig)
-----------------------------------------------------------------------------
(* Comparisons, of the bits.                                               *)
Ordered(a, b) == ~ float32_is_nan(a) /\ ~ float32_is_nan(b)
float32_eq(a, b) ==
  Z(Ordered(a, b) /\ (a = b \/ (IsZero(a) /\ IsZero(b))),
    IF float32_is_signaling_nan(a) \/ float32_is_signaling_nan(b)
    THEN {"invalid"} ELSE {})
float32_le(a, b) ==
  LET neg == extractFloat32Sign(a) = 1
  IN  Z(/\ Ordered(a, b)
        /\ IF extractFloat32Sign(a) # extractFloat32Sign(b)
           THEN neg \/ (IsZero(a) /\ IsZero(b))
           ELSE a = b \/ neg # (a < b),
        IF Ordered(a, b) THEN {} ELSE {"invalid"})
float32_lt(a, b) ==
  LET neg == extractFloat32Sign(a) = 1
  IN  Z(/\ Ordered(a, b)
        /\ IF extractFloat32Sign(a) # extractFloat32Sign(b)
           THEN neg /\ ~ (IsZero(a) /\ IsZero(b))
           ELSE a # b /\ neg # (a < b),
        IF Ordered(a, b) THEN {} ELSE {"invalid"})
-----------------------------------------------------------------------------
(* Conversions from and to an integer of FINT bits.                        *)
IntTop == 2 ^ (FINT - 1)
roundAndPackInt32(rm, zSign, absZ) ==
  LET r == Rounded(rm, absZ, Increment(rm, zSign))
  IN  IF r > IntTop - 1 + zSign
      THEN Z(IF zSign = 1 THEN -IntTop ELSE IntTop - 1, {"invalid"})
      ELSE Z(IF zSign = 1 THEN -r ELSE r,
             IF absZ % 2 ^ Guard # 0 THEN {"inexact"} ELSE {})
float32_to_int32(rm, a) ==
  LET e == extractFloat32Exp(a)
      left == FINT + 23 - FFRAC       \* 32 in the code
      sig == (extractFloat32Frac(a) + Lead(e, Hidden)) * 2 ^ left
      n == FBias + left + FFRAC - Guard - e
  IN  roundAndPackInt32(rm, IF float32_is_nan(a) THEN 0
                            ELSE extractFloat32Sign(a),
                        IF n > 0 THEN Jam(sig, n) ELSE sig)
int32_to_float32(rm, i) ==
  IF i = 0 THEN Z(0, {})
  ELSE IF i = -IntTop THEN Z(packFloat32(1, FBias + FINT - 1, 0), {})
  ELSE normalizeRoundAndPackFloat32(rm, Bit(i < 0), FBias + FTop - 1,
                                    IF i < 0 THEN -i ELSE i)
-----------------------------------------------------------------------------
NotRun == [op |-> "none", a |-> 0, b |-> 0, z |-> Z(0, {}), rm |-> "RN"]
FloatInit ==
  \E hard \in BOOLEAN :
    dev = [kind |-> "float", hardfloat |-> hard, RM |-> "RN", flags |-> {},
           rounding |-> "RN", sticky |-> {}, F |-> FALSE, exc |-> "none",
           ran |-> NotRun]

float_set_rm(s) == [s EXCEPT !.rounding = s.RM]
float_set_flags(s) == [s EXCEPT !.flags = s.sticky, !.sticky = {}]
l_invalid(s) == [s EXCEPT !.exc = "ILLEGAL"]

Arithmetic == {"add", "sub", "mul", "div", "ftoi"}
Compare == {"sfeq", "sfne", "sfgt", "sfge", "sflt", "sfle"}
Computed(rm, op, a, b) ==
  CASE op = "add" -> float32_add(rm, a, b)
    [] op = "sub" -> float32_sub(rm, a, b)
    [] op = "mul" -> float32_mul(rm, a, b)
    [] op = "div" -> float32_div(rm, a, b)
    [] op = "ftoi" -> float32_to_int32(rm, a)
Compared(op, a, b) ==
  LET eq == float32_eq(a, b)
      le == float32_le(a, b)
      lt == float32_lt(a, b)
      ord(c, z) == Z(c /\ Ordered(a, b), z.fl)
  IN  CASE op = "sfeq" -> eq
        [] op = "sfne" -> Z(~ eq.z, eq.fl)
        [] op = "sfge" -> ord(~ lt.z, lt)
        [] op = "sfgt" -> ord(~ le.z, le)
        [] op = "sfle" -> ord(le.z, le)
        [] op = "sflt" -> ord(lt.z, lt)

(* An instruction: the mode is set, softfloat computes and collects flags, *)
(* and FPCSR receives them.                                                *)
LfRun(s, op, a, b, z) ==
  IF s.hardfloat
  THEN LET m == float_set_rm(s)
       IN  float_set_flags([m EXCEPT !.sticky = @ \cup z.fl,
             !.ran = [op |-> op, a |-> a, b |-> b, z |-> z, rm |-> s.RM]])
  ELSE l_invalid(s)

LfArithmetic ==
  /\ Is("float") /\ dev.ran.op = "none"
  /\ \E op \in Arithmetic, a, b \in Floats :
       /\ op = "ftoi" => b = 0
       /\ dev' = LfRun(dev, op, a, b, Computed(dev.RM, op, a, b))
LfItof ==
  /\ Is("float") /\ dev.ran.op = "none"
  /\ \E i \in -IntTop .. IntTop - 1 :
       dev' = LfRun(dev, "itof", i, 0, int32_to_float32(dev.RM, i))
LfCompare ==
  /\ Is("float") /\ dev.ran.op = "none"
  /\ \E op \in Compare, a, b \in Floats :
       LET s == LfRun(dev, op, a, b, Compared(op, a, b))
       IN  dev' = IF dev.hardfloat THEN [s EXCEPT !.F = Compared(op, a, b).z] ELSE s
(* The sum of the old destination register and a product, each rounded.    *)
lf_madd_s(d, a, b) ==
  LET p == float32_mul(dev.RM, a, b)
      z == float32_add(dev.RM, d, p.z)
  IN  LfRun(dev, "madd", a, b, Z(z.z, p.fl \cup z.fl))
LfMadd ==
  /\ Is("float") /\ dev.ran.op = "none"
  /\ \E d, a, b \in FloatFew : dev' = lf_madd_s(d, a, b)
(* One more instruction after any other, which raises no flag.             *)
LfAgain ==
  /\ Is("float") /\ dev.ran.op # "none"
  /\ dev' = [LfRun(dev, "sfeq", 0, 0, Compared("sfeq", 0, 0)) EXCEPT !.F = TRUE]
(* l.mtspr of FPCSR: software chooses a rounding mode.                     *)
LfSetMode ==
  /\ Is("float") /\ dev.ran.op = "none"
  /\ \E rm \in Modes : dev' = [dev EXCEPT !.RM = rm]

FloatNext ==
  LfArithmetic \/ LfItof \/ LfCompare \/ LfMadd \/ LfAgain \/ LfSetMode
-----------------------------------------------------------------------------
(* The reference.  Magnitudes are counted in units of the smallest number; *)
(* an infinity has the value that follows the largest finite number.       *)
Magnitude(m) ==
  LET e == extractFloat32Exp(m)
  IN  (extractFloat32Frac(m) + Lead(e, Hidden)) * 2 ^ (RealExp(e) - 1)
One == Magnitude(FBias * Hidden)
Infinity == FSpecial * Hidden
ValueOf(a) == IF extractFloat32Sign(a) = 1 THEN -Magnitude(a % SignBit)
              ELSE Magnitude(a % SignBit)
Abs(n) == IF n < 0 THEN -n ELSE n

(* The magnitude to which n / d is rounded.                                *)
Nearest(rm, sign, n, d) ==
  LET lo == Max({m \in 0 .. Infinity : Magnitude(m) * d <= n})
      hi == IF lo = Infinity THEN Infinity ELSE lo + 1
      below == n - Magnitude(lo) * d
      above == Magnitude(hi) * d - n
      outward == rm = (IF sign = 1 THEN "RIN" ELSE "RIP")
  IN  IF lo = Infinity
      THEN IF rm = "RN" \/ outward THEN Infinity ELSE Infinity - 1
      ELSE IF below = 0 THEN lo
      ELSE IF rm = "RN"
      THEN IF below < above \/ (below = above /\ lo % 2 = 0) THEN lo ELSE hi
      ELSE IF outward THEN hi ELSE lo

RoundsTo(r, sign, n, d) ==
  LET m == Nearest(r.rm, sign, n, d)
      exact == m < Infinity /\ Magnitude(m) * d = n
  IN  /\ r.z.z = sign * SignBit + m
      /\ ("inexact" \in r.z.fl) = ~ exact
      /\ ("overflow" \in r.z.fl) =
           (m = Infinity \/ n >= Magnitude(Infinity) * d)
      /\ "underflow" \in r.z.fl => ~ exact /\ m <= Hidden
      /\ {"invalid", "divbyzero"} \cap r.z.fl = {}

Finite(a) == extractFloat32Exp(a) < FSpecial
SumRight(r, a, b) ==
  LET v == ValueOf(a) + ValueOf(b)
      same == extractFloat32Sign(a) = extractFloat32Sign(b)
      sign == IF v # 0 THEN Bit(v < 0)
              ELSE IF same THEN extractFloat32Sign(a) ELSE Bit(r.rm = "RIN")
  IN  RoundsTo(r, sign, Abs(v), 1)
Negated(a) == (a + SignBit) % (2 * SignBit)

(* Every lf.* instruction gives the number that IEEE 754 asks for, in each *)
(* rounding mode: the sum, difference, product and quotient of finite      *)
(* numbers are the exact result rounded, with the flags for inexact and    *)
(* overflowing results and the sign of a zero; a conversion to an integer  *)
(* rounds and saturates; a comparison with a NaN fails, but for "not       *)
(* equal", and treats the two zeros as equal.                              *)
FloatAsIEEE ==
  Is("float") =>
    LET r == dev.ran
        a == r.a
        b == r.b
        sign == Xor(extractFloat32Sign(a), extractFloat32Sign(b))
        ordered == Finite(a) /\ Finite(b)
        i == r.z.z
    IN  /\ r.op = "add" /\ ordered => SumRight(r, a, b)
        /\ r.op = "sub" /\ ordered => SumRight(r, a, Negated(b))
        /\ r.op = "mul" /\ ordered =>
             RoundsTo(r, sign, Abs(ValueOf(a) * ValueOf(b)), One)
        /\ r.op = "div" /\ ordered /\ ~ IsZero(b) =>
             RoundsTo(r, sign, Abs(ValueOf(a)) * One, Abs(ValueOf(b)))
        /\ (r.op \in {"add", "sub", "mul", "div"}
              /\ (float32_is_nan(a) \/ float32_is_nan(b))) =>
             float32_is_nan(i) /\ ~ float32_is_signaling_nan(i)
        /\ r.op = "itof" => ValueOf(i) = a * One
        /\ r.op = "ftoi" /\ Finite(a) /\ r.z.fl \cap {"invalid"} = {} =>
             /\ Abs(i * One - ValueOf(a)) < One
             /\ r.rm = "RN" => 2 * Abs(i * One - ValueOf(a)) <= One
             /\ r.rm = "RIN" => i * One <= ValueOf(a)
             /\ r.rm = "RIP" => i * One >= ValueOf(a)
             /\ r.rm = "RZ" => Abs(i * One) <= Abs(ValueOf(a))
        /\ r.op \in Compare /\ ordered =>
             r.z.z = CASE r.op = "sfeq" -> ValueOf(a) = ValueOf(b)
                       [] r.op = "sfne" -> ValueOf(a) # ValueOf(b)
                       [] r.op = "sfgt" -> ValueOf(a) > ValueOf(b)
                       [] r.op = "sfge" -> ValueOf(a) >= ValueOf(b)
                       [] r.op = "sflt" -> ValueOf(a) < ValueOf(b)
                       [] r.op = "sfle" -> ValueOf(a) <= ValueOf(b)
        /\ r.op \in Compare /\ ~ Ordered(a, b) => r.z.z = (r.op = "sfne")

(* The flags of FPCSR are those of the latest instruction, with those of   *)
(* the product of a multiply and add, whatever ran before.                 *)
FloatFlagsOwn == Is("float") => dev.flags = dev.ran.z.fl

(* The floating point instructions compute what IEEE 754 asks for, and     *)
(* report it in FPCSR (float_set_flags).                                   *)
FloatRight == FloatAsIEEE /\ FloatFlagsOwn
=============================================================================
