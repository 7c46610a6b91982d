------------------------------ MODULE MCTraps -------------------------------
(* Registers of six bits and floats of five, two pages of data and one of code; memory at the
   addresses 0 to 7, code at 8 and, where it begins before it, at 6. *)
EXTENDS Traps

MCPages == {0, 1, 2}
MCMemory == [a \in 0 .. 7 |-> IF a \in {0, 3, 4, 6} THEN 1 ELSE 0]
MCRegs == [x |-> 5, f |-> 9]
MCVector == [e \in 0 .. 2 |-> e + 1]

Near == <<8>>
Split == <<6, 8>>
All == [e \in 0 .. 2 |-> TRUE]
Some == [e \in 0 .. 2 |-> e # 1]

Load(addr, len, signed, parcels) ==
  [k |-> "load", addr |-> addr, len |-> len, signed |-> signed,
   parcels |-> parcels]
Access(k, addr, len, parcels) ==
  [k |-> k, addr |-> addr, len |-> len, parcels |-> parcels]
VectorAccess(k, addr, stride, mask, fof) ==
  [k |-> k, addr |-> addr, stride |-> stride, mask |-> mask, fof |-> fof,
   parcels |-> Near]
Float(k, addr, len, fs, reported) ==
  [k |-> k, addr |-> addr, len |-> len, fs |-> fs, parcels |-> Split,
   reported |-> reported]
Csr(num, op, rs1, zero, fs, allowed) ==
  [k |-> "csr", num |-> num, op |-> op, rs1 |-> rs1, zero |-> zero, fs |-> fs,
   allowed |-> allowed, reported |-> TRUE, parcels |-> Near]
Fop(rm, raises, fs) ==
  [k |-> "fop", rm |-> rm, raises |-> raises, fs |-> fs, reported |-> TRUE,
   parcels |-> Near]

\* Zeros, a subnormal, a normal, infinities and a NaN of either kind.
SomeFloats == {0, 16, 1, 17, 5, 12, 28, 13, 14}
FloatPairs == {<<0, 16>>, <<16, 0>>, <<1, 17>>, <<5, 1>>, <<21, 17>>, <<12, 5>>,
               <<28, 21>>, <<13, 5>>, <<5, 14>>, <<14, 30>>}
Fbits(k, rm, pair, fs) ==
  [k |-> k, rm |-> rm, rs1 |-> pair[1], rs2 |-> pair[2], fs |-> fs,
   reported |-> TRUE, parcels |-> Near]
MulDivOf(op, pair, word) ==
  [k |-> "muldiv", op |-> op, rs1 |-> pair[1], rs2 |-> pair[2], word |-> word,
   reported |-> TRUE, parcels |-> Near]

\* All operands at once: what the theorems take to be right of the arithmetic is.
ASSUME ArithmeticRight == ValuesRight /\ ShiftsRight /\ OpsRight /\ MovesRight

MCCode ==
  {Load(3, 2, TRUE, Near), Load(3, 2, FALSE, Split), Load(1, 4, TRUE, Near)}
  \cup {Access("store", 3, 2, Split), Access("store", 1, 4, Near)}
  \cup {Access("lr", 3, 2, Near), Access("amo", 3, 2, Near)}
  \cup {VectorAccess("vload", 1, 2, All, FALSE),
        VectorAccess("vload", 2, 2, Some, FALSE),
        VectorAccess("vload", 3, 2, All, TRUE),
        VectorAccess("vstore", 1, 2, All, FALSE),
        VectorAccess("vstore", 2, 2, Some, FALSE)}
  \cup {Float("flw", 4, 4, fs, FALSE) : fs \in BOOLEAN}
  \cup {Float("flw", 2, 4, TRUE, TRUE), Float("fsw", 4, 4, TRUE, TRUE),
        Float("fsw", 3, 4, TRUE, FALSE)}
  \cup {Csr(FRM, "rw", 0, FALSE, TRUE, TRUE), Csr(FRM, "rs", 1, FALSE, TRUE, TRUE),
        Csr(FFLAGS, "rc", 1, FALSE, TRUE, TRUE),
        Csr(FFLAGS, "rs", 0, TRUE, FALSE, TRUE)}
  \cup {Csr("time", "rs", 0, zero, TRUE, allowed) : zero, allowed \in BOOLEAN}
  \cup {Fop("dynamic", TRUE, TRUE), Fop("up", FALSE, TRUE),
        Fop("reserved", FALSE, TRUE), Fop("near", FALSE, FALSE)}
  \cup {Fbits("fsgnj", rm, <<21, 5>>, TRUE) : rm \in 0 .. 3}
  \cup {Fbits("fmin", rm, pair, TRUE) : rm \in 0 .. 1, pair \in FloatPairs}
  \cup {Fbits("fcmp", rm, pair, TRUE) : rm \in 0 .. 2, pair \in FloatPairs}
  \cup {Fbits("fmv_if", 1, <<a, 0>>, TRUE) : a \in SomeFloats}
  \cup {Fbits("fmin", 2, <<0, 0>>, TRUE), Fbits("fcmp", 0, <<5, 5>>, FALSE),
        Fbits("fcmp", 4, <<5, 5>>, TRUE), Fbits("fmv_if", 0, <<21, 0>>, TRUE),
        Fbits("fmv_if", 2, <<21, 0>>, TRUE), Fbits("fmv_fi", 0, <<53, 0>>, TRUE),
        Fbits("fmv_fi", 1, <<53, 0>>, TRUE)}
  \cup {MulDivOf(op, <<43, 22>>, FALSE) :
          op \in {"mul", "mulh", "mulhu", "mulhsu", "div", "divu", "rem", "remu"}}
  \cup {MulDivOf(op, <<45, 6>>, TRUE) :
          op \in {"mul", "div", "divu", "rem", "remu"}}
  \cup {MulDivOf("mulhu", <<62, 63>>, FALSE), MulDivOf("div", <<32, 63>>, FALSE),
        MulDivOf("rem", <<43, 56>>, FALSE), MulDivOf("remu", <<7, 8>>, TRUE)}
  \cup {[k |-> "bad", reported |-> FALSE, parcels |-> Near],
        [k |-> "timer"], [k |-> "nosys"], [k |-> "mask", addr |-> 0],
        [k |-> "pmp", addr |-> 5]}
=============================================================================
