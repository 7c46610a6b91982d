---------------------------- MODULE EmulatedOps ----------------------------
(***************************************************************************)
(* What the emulators of machine/muldiv_emulation.c and fp_emulation.c     *)
(* compute, with the functions of softfloat/ they call for comparison and  *)
(* classification, and what the instruction set asks of them.              *)
(*                                                                         *)
(* A register has XBITS bits; the word of emulate_mul_div32 is half of it. *)
(* A float is a pattern of a sign, EXP bits of exponent and FRAC bits of   *)
(* fraction.                                                               *)
(***************************************************************************)
EXTENDS Integers, FiniteSetsExt

CONSTANTS
  XBITS,  \* bits of a register
  EXP,    \* bits of the exponent of a float
  FRAC    \* bits of its fraction, at least 2 to have both kinds of NaN

ASSUME WidthAssumption == XBITS \in Nat \ {0}
ASSUME FloatAssumption == EXP \in Nat \ {0} /\ FRAC \in Nat \ {0, 1}

Registers == 0 .. 2 ^ XBITS - 1
Floats == 0 .. 2 ^ (1 + EXP + FRAC) - 1

Bit(v, i) == (v \div 2 ^ i) % 2

\* v converted to an unsigned and a signed integer of w bits.
Unsigned(v, w) == v % 2 ^ w
Signed(v, w) ==
  IF Unsigned(v, w) < 2 ^ (w - 1) THEN Unsigned(v, w)
  ELSE Unsigned(v, w) - 2 ^ w

-----------------------------------------------------------------------------
(* Multiplication and division *)

MulDivOps == {"mul", "mulh", "mulhu", "mulhsu", "div", "divu", "rem", "remu"}
WordOps == {"mul", "div", "divu", "rem", "remu"}

Size(n) == IF n < 0 THEN -n ELSE n

\* C's division, which rounds towards zero, and its remainder.
Quotient(a, b) ==
  LET q == Size(a) \div Size(b) IN IF (a < 0) = (b < 0) THEN q ELSE -q
Remainder(a, b) == a - b * Quotient(a, b)

\* C leaves open what a division by zero gives, and one that overflows.
Undefined(op, a, b, w) ==
  \/ op \in {"div", "divu", "rem", "remu"} /\ Unsigned(b, w) = 0
  \/ op \in {"div", "rem"} /\ Signed(a, w) = -(2 ^ (w - 1)) /\ Signed(b, w) = -1

\* The operations on operands and results of w bits.
Low(op, a, b, w) ==
  CASE op = "mul" -> a * b
    [] op = "div" -> Quotient(Signed(a, w), Signed(b, w))
    [] op = "divu" -> Unsigned(a, w) \div Unsigned(b, w)
    [] op = "rem" -> Remainder(Signed(a, w), Signed(b, w))
    [] op = "remu" -> Unsigned(a, w) % Unsigned(b, w)

\* The upper half of a product, in a double_int, which is signed.
High(op, a, b) ==
  LET product == CASE op = "mulh" -> Signed(a, XBITS) * Signed(b, XBITS)
                   [] op = "mulhu" -> a * b
                   [] op = "mulhsu" -> Signed(a, XBITS) * b
  IN  Signed(product, 2 * XBITS) \div 2 ^ XBITS

\* What emulate_mul_div may write to rd.
MulDiv(op, a, b) ==
  IF Undefined(op, a, b, XBITS) THEN Registers
  ELSE {Unsigned(IF op \in {"mulh", "mulhu", "mulhsu"} THEN High(op, a, b)
                 ELSE Low(op, a, b, XBITS), XBITS)}

\* And emulate_mul_div32, whose result is sign-extended.
MulDiv32(op, a, b) ==
  LET w == XBITS \div 2
  IN  IF Undefined(op, a, b, w) THEN Registers
      ELSE {Unsigned(Signed(Low(op, a, b, w), w), XBITS)}

-----------------------------------------------------------------------------
(* Floating point without arithmetic *)

Sign(p) == Bit(p, EXP + FRAC)
Exponent(p) == (p \div 2 ^ FRAC) % 2 ^ EXP
Fraction(p) == p % 2 ^ FRAC
Magnitude(p) == p % 2 ^ (EXP + FRAC)
InfOrNaN(p) == Exponent(p) = 2 ^ EXP - 1
IsNaN(p) == InfOrNaN(p) /\ Fraction(p) # 0
IsSigNaN(p) == IsNaN(p) /\ Bit(p, FRAC - 1) = 0

Eq(a, b) ==
  /\ ~IsNaN(a) /\ ~IsNaN(b)
  /\ a = b \/ (Magnitude(a) = 0 /\ Magnitude(b) = 0)

\* f32_lt and f32_lt_quiet, which raise different flags.
Lt(a, b) ==
  /\ ~IsNaN(a) /\ ~IsNaN(b)
  /\ IF Sign(a) # Sign(b)
     THEN Sign(a) = 1 /\ (Magnitude(a) # 0 \/ Magnitude(b) # 0)
     ELSE a # b /\ (Sign(a) = 1 <=> ~(a < b))

\* The bits f32_classify sets.
ClassBits(p) ==
  LET subnormalOrZero == Exponent(p) = 0
      Is(bits) == bits[Sign(p) + 1]
  IN  (IF InfOrNaN(p) /\ Fraction(p) = 0 THEN {Is(<<7, 0>>)} ELSE {})
      \cup (IF ~InfOrNaN(p) /\ ~subnormalOrZero THEN {Is(<<6, 1>>)} ELSE {})
      \cup (IF subnormalOrZero /\ Fraction(p) # 0 THEN {Is(<<5, 2>>)} ELSE {})
      \cup (IF subnormalOrZero /\ Fraction(p) = 0 THEN {Is(<<4, 3>>)} ELSE {})
      \cup (IF IsNaN(p) THEN {IF IsSigNaN(p) THEN 8 ELSE 9} ELSE {})

Class(p) == MapThenSumSet(LAMBDA k : 2 ^ k, ClassBits(p))

\* emulate_fsgnj: rm selects the sign of b, its opposite, or both signs' xor.
Fsgnj(rm, a, b) ==
  LET sign == (Sign(a) * (rm \div 2) + rm + Sign(b)) % 2
  IN  Magnitude(a) + sign * 2 ^ (EXP + FRAC)

\* emulate_fmin: the lesser for rm 0, the greater for 1.
Fmin(rm, a, b) ==
  LET arg1 == IF rm = 1 THEN b ELSE a
      arg2 == IF rm = 1 THEN a ELSE b
  IN  IF Lt(arg1, arg2) \/ IsNaN(b) THEN a ELSE b

\* emulate_fcmp: rm is 0 for <=, 1 for <, 2 for =.
Fcmp(rm, a, b) ==
  LET result == rm # 1 /\ Eq(a, b)
  IN  IF rm = 1 \/ (rm = 0 /\ ~result) THEN Lt(a, b) ELSE result

\* Whether they raise the invalid flag: f32_eq and f32_lt_quiet for signaling
\* NaNs alone, f32_lt for all.
Raises(k, rm, a, b) ==
  \/ IsSigNaN(a) \/ IsSigNaN(b)
  \/ /\ k = "fcmp"
     /\ rm = 1 \/ (rm = 0 /\ ~Eq(a, b))
     /\ IsNaN(a) \/ IsNaN(b)

-----------------------------------------------------------------------------
(* What the instruction set says *)

\* x is a result the instruction set allows for a multiplication or division
\* of w bits, or any where the code leaves it to C.  A quotient and a remainder
\* are recognised by how they make up the dividend, a half of a product by the
\* other half that completes it.
MulDivRight(op, a, b, w, x) ==
  LET sa == Signed(a, w)
      sb == Signed(b, w)
      ua == Unsigned(a, w)
      ub == Unsigned(b, w)
      sx == Signed(x, w)
      ux == Unsigned(x, w)
      Completes(product, high) ==
        \E low \in 0 .. 2 ^ w - 1 : product = high * 2 ^ w + low
      Divides(p, q, quotient, rest) ==
        /\ p = q * quotient + rest
        /\ Size(rest) < Size(q)
        /\ rest # 0 => (rest < 0 <=> p < 0)
  IN  \/ Undefined(op, a, b, w)
      \/ /\ x = Unsigned(Signed(x, w), XBITS)
         /\ CASE op = "mul" -> (sa * sb - sx) % 2 ^ w = 0
              [] op = "mulh" -> Completes(sa * sb, sx)
              [] op = "mulhu" -> Completes(ua * ub, ux)
              [] op = "mulhsu" -> Completes(sa * ub, sx)
              [] op = "div" -> \E r \in -(2 ^ w) .. 2 ^ w : Divides(sa, sb, sx, r)
              [] op = "divu" -> \E r \in 0 .. 2 ^ w : Divides(ua, ub, ux, r)
              [] op = "rem" -> \E q \in -(2 ^ w) .. 2 ^ w : Divides(sa, sb, q, sx)
              [] op = "remu" -> \E q \in 0 .. 2 ^ w : Divides(ua, ub, q, ux)

\* The number a pattern that is no NaN stands for, in units of the least one;
\* infinity is above all others.
NumberOf(p) ==
  LET size == IF Exponent(p) = 0 THEN Fraction(p)
              ELSE (2 ^ FRAC + Fraction(p)) * 2 ^ (Exponent(p) - 1)
  IN  IF Sign(p) = 1 THEN -size ELSE size

Ordered(a, b) == ~IsNaN(a) /\ ~IsNaN(b)

FcmpRight(rm, a, b, x) ==
  x = 1 <=> /\ Ordered(a, b)
            /\ CASE rm = 0 -> NumberOf(a) <= NumberOf(b)
                 [] rm = 1 -> NumberOf(a) < NumberOf(b)
                 [] rm = 2 -> NumberOf(a) = NumberOf(b)

\* A NaN gives way to a number.  Which of two zeros, and which of two NaNs, is
\* the result is not asked for.
FminRight(rm, a, b, f) ==
  /\ f \in {a, b}
  /\ \A p \in {a, b} :
       ~IsNaN(p) => /\ ~IsNaN(f)
                    /\ IF rm = 0 THEN NumberOf(f) <= NumberOf(p)
                       ELSE NumberOf(f) >= NumberOf(p)

FsgnjRight(rm, a, b, f) ==
  /\ Magnitude(f) = Magnitude(a)
  /\ Sign(f) = CASE rm = 0 -> Sign(b)
                 [] rm = 1 -> 1 - Sign(b)
                 [] rm = 2 -> IF Sign(a) = Sign(b) THEN 0 ELSE 1

\* Exactly one of the ten classes.
FclassRight(p, x) ==
  LET least == 2 ^ FRAC
      infinity == 2 ^ FRAC * 2 ^ (2 ^ EXP - 2)
      n == NumberOf(p)
  IN  \E k \in 0 .. 9 :
        /\ x = 2 ^ k
        /\ CASE k = 0 -> ~IsNaN(p) /\ n = -infinity
             [] k = 1 -> ~IsNaN(p) /\ n \in 1 - infinity .. -least
             [] k = 2 -> ~IsNaN(p) /\ n \in 1 - least .. -1
             [] k = 3 -> ~IsNaN(p) /\ n = 0 /\ Sign(p) = 1
             [] k = 4 -> ~IsNaN(p) /\ n = 0 /\ Sign(p) = 0
             [] k = 5 -> ~IsNaN(p) /\ n \in 1 .. least - 1
             [] k = 6 -> ~IsNaN(p) /\ n \in least .. infinity - 1
             [] k = 7 -> ~IsNaN(p) /\ n = infinity
             [] k = 8 -> IsSigNaN(p)
             [] k = 9 -> IsNaN(p) /\ ~IsSigNaN(p)

\* A comparison by order signals on every NaN, the others on signaling ones.
InvalidRight(k, rm, a, b) ==
  IF k = "fcmp" /\ rm \in {0, 1} THEN ~Ordered(a, b)
  ELSE IsSigNaN(a) \/ IsSigNaN(b)

\* The operations do what the instruction set says, on all operands.
OpsRight ==
  /\ \A a, b \in Registers :
       /\ \A op \in MulDivOps : \A x \in MulDiv(op, a, b) :
            x \in Registers /\ MulDivRight(op, a, b, XBITS, x)
       /\ \A op \in WordOps : \A x \in MulDiv32(op, a, b) :
            x \in Registers /\ MulDivRight(op, a, b, XBITS \div 2, x)
  /\ \A a, b \in Floats :
       /\ \A rm \in 0 .. 2 :
            /\ FcmpRight(rm, a, b, IF Fcmp(rm, a, b) THEN 1 ELSE 0)
            /\ Raises("fcmp", rm, a, b) <=> InvalidRight("fcmp", rm, a, b)
            /\ FsgnjRight(rm, a, b, Fsgnj(rm, a, b))
       /\ \A rm \in 0 .. 1 :
            /\ FminRight(rm, a, b, Fmin(rm, a, b))
            /\ Raises("fmin", rm, a, b) <=> InvalidRight("fmin", rm, a, b)
  /\ \A a \in Floats : FclassRight(a, Class(a))

\* A pattern moved to a register is sign-extended, and one moved from a register
\* is its lower bits.
MovesRight ==
  /\ \A a \in Floats :
       LET x == Unsigned(Signed(a, 1 + EXP + FRAC), XBITS)
       IN  /\ x \in Registers
           /\ \A i \in 0 .. XBITS - 1 :
                Bit(x, i) = IF i < EXP + FRAC THEN Bit(a, i) ELSE Sign(a)
  /\ \A v \in Registers :
       LET f == Unsigned(v, 1 + EXP + FRAC)
       IN  f \in Floats /\ \A i \in 0 .. EXP + FRAC : Bit(f, i) = Bit(v, i)
=============================================================================
