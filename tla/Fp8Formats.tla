------------------------------- MODULE Fp8Formats -------------------------------
(***************************************************************************)
(* The number formats of the reference code, as functions: FP8 E4M3 in     *)
(* bringup/v2_lite/model/fp8_e4m3.py (the golden model and the vectorised  *)
(* wrappers, which differ) and bringup/v2_lite/c_ref/fp8_e4m3.c, the       *)
(* product of bringup/v4_flash/rtl/fp8_mac.sv in FP16, the FP4 groups of   *)
(* c_ref/src/fp4_ref.c and of scripts/simulation/fp4_utils.py, and the     *)
(* FP4 to FP8 unpacking of c_ref/prefill/weight_preloader.c, held against  *)
(* what they stand for.                                                    *)
(*                                                                         *)
(* A float is a sign and a magnitude in units of 2^-18, the smallest       *)
(* product of two FP8 numbers; magnitudes above 256 are 256, as all of     *)
(* them saturate.  fp8at - 1 is a byte; the bytes are swept one a step.    *)
(***************************************************************************)
EXTENDS Integers, Sequences, FiniteSets, FiniteSetsExt, Functions

CONSTANTS
  FloatExps       (* bound: the floats are a byte times these powers of 2    *)

ASSUME Fp8Assumption == FloatExps \subseteq 0 .. 20

VARIABLE fp8at

Fp8Init == fp8at = 0
Fp8Next == fp8at < 256 /\ fp8at' = fp8at + 1

Fp8Spec == Fp8Init /\ [][Fp8Next]_fp8at

-----------------------------------------------------------------------------
SignBit(neg, width) == IF neg THEN 2^(width - 1) ELSE 0

IsNeg(code) == code >= 128
Exp(code) == (code \div 8) % 16
Mant(code) == code % 8
IsNaN(code) == Exp(code) = 15
IsZero(code) == code % 128 = 0

MaxNormal == 240 * 2^18
HalfSubnormal == 2^8

Finite(neg, mag) == [kind |-> "finite", neg |-> neg, mag |-> mag]

(* decode: subnormals, normals, and NaN as 0.                              *)
Magnitude(code) ==
  CASE IsNaN(code) -> 0
    [] Exp(code) = 0 -> Mant(code) * 2^9
    [] OTHER -> (8 + Mant(code)) * 2^(Exp(code) + 8)

Decode8(code) == Finite(IsNeg(code) /\ ~IsNaN(code), Magnitude(code))

(* encode of the golden model: the nearest of the codes but 0, the even    *)
(* one of two.                                                             *)
Nearest(mag) ==
  LET off(c) == IF mag > Magnitude(c) THEN mag - Magnitude(c) ELSE Magnitude(c) - mag
      least == Min({off(c) : c \in 1 .. 119})
      best == {c \in 1 .. 119 : off(c) = least}
  IN CHOOSE c \in best : c % 2 = 0 \/ Cardinality(best) = 1

EncodeGolden(x) ==
  IF x.kind # "finite" THEN 0
  ELSE SignBit(x.neg, 8) + IF x.mag = 0 THEN 0 ELSE IF x.mag >= MaxNormal THEN 119 ELSE Nearest(x.mag)

-----------------------------------------------------------------------------
(* Mutant: a tie goes up.                                                  *)
RoundEvenUp(n, step) ==
  LET floor == n \div step IN IF 2 * (n % step) >= step THEN floor + 1 ELSE floor

RoundEven(n, step) ==
  LET floor == n \div step
      rest == 2 * (n % step)
  IN IF rest < step \/ (rest = step /\ floor % 2 = 0) THEN floor ELSE floor + 1

FloorLog2(n) == CHOOSE k \in 0 .. 30 : 2^k <= n /\ n < 2^(k + 1)

(* The other way to encode: the exponent first, then the mantissa with a   *)
(* carry into the exponent.                                                *)
Quantized(mag) ==
  LET e == FloorLog2(mag) - 11
      m == RoundEven(mag - 2^(e + 11), 2^(e + 8))
  IN IF e <= 0 THEN RoundEven(mag, 2^9)
     ELSE IF e >= 15 THEN 119
     ELSE IF m < 8 THEN e * 8 + m
     ELSE IF e + 1 >= 15 THEN 119 ELSE (e + 1) * 8

(* fp8_encode of the C reference: -0 is not below 0.                       *)
EncodeC(x) ==
  LET sign == SignBit(x.neg /\ x.mag > 0, 8)
  IN CASE x.kind # "finite" -> 0
       [] x.kind = "finite" /\ (x.mag = 0 \/ x.mag < HalfSubnormal) -> sign
       [] OTHER -> sign + IF x.mag >= MaxNormal THEN 119 ELSE Quantized(x.mag)

(* _float_to_fp8_scalar, behind float_to_fp8 and pack_fp8_scalar.          *)
EncodeScalar(x) ==
  IF x.kind = "nan" THEN 127
  ELSE IF x.kind = "finite" /\ x.mag = 0 THEN 0
  ELSE SignBit(x.neg, 8) + IF x.kind = "inf" \/ x.mag >= MaxNormal THEN 119 ELSE Quantized(x.mag)

(* fp8_mul and fp8_add: decode, compute, encode.                           *)
TimesOf(x, y) ==
  LET a == x.mag \div 2^9
      b == y.mag \div 2^9
  IN Finite(x.neg # y.neg, IF a > 0 /\ b > 2^26 \div a THEN 2^26 ELSE a * b)

Plus8(x, y) ==
  LET Value(z) == IF z.neg THEN -z.mag ELSE z.mag
      sum == Value(x) + Value(y)
  IN Finite(sum < 0 \/ (sum = 0 /\ x.neg /\ y.neg), IF sum < 0 THEN -sum ELSE sum)

Mul8(a, b) == EncodeC(TimesOf(Decode8(a), Decode8(b)))
Add8(a, b) == EncodeC(Plus8(Decode8(a), Decode8(b)))

(* multiply (and multiply_acc, which leaves out the rounding) and add of   *)
(* the golden model.                                                       *)
MulGolden(a, b) == EncodeGolden(TimesOf(Decode8(a), Decode8(b)))
AddGolden(a, b) == EncodeGolden(Plus8(Decode8(a), Decode8(b)))

-----------------------------------------------------------------------------
(* FP16, as <<sign, exponent, mantissa>>.  The golden model goes by the    *)
(* value (no FP8 number is an FP16 subnormal), the C reference by fields.  *)
ToFp16(code) ==
  LET mag == Magnitude(code)
      log == FloorLog2(mag)
      neg == Decode8(code).neg
  IN IF mag = 0 THEN <<neg, 0, 0>>
     ELSE <<neg, log - 18 + 15, RoundEven(2 * (mag - 2^log), 2^(log - 9))>>

Msb(m) == CHOOSE k \in 0 .. 2 : 2^k <= m /\ m < 2^(k + 1)

ToFp16C(code) ==
  LET k == Msb(Mant(code))
  IN CASE IsZero(code) -> <<IsNeg(code), 0, 0>>
       [] IsNaN(code) -> <<IsNeg(code), 31, 1>>
       [] Exp(code) = 0 /\ ~IsZero(code) -> <<IsNeg(code), k + 6, (Mant(code) % 2^k) * 2^(10 - k)>>
       [] OTHER -> <<IsNeg(code), Exp(code) + 8, Mant(code) * 128>>

(* A number k times 2^e, k odd.                                            *)
Normal(k, e) ==
  IF k = 0 THEN <<0, 0>>
  ELSE LET z == CHOOSE z \in 0 .. 30 : k % 2^z = 0 /\ (k \div 2^z) % 2 = 1 IN <<k \div 2^z, e + z>>

Fp16Value(h) == IF h[2] = 0 THEN Normal(h[3], -24) ELSE Normal(1024 + h[3], h[2] - 25)

(* fp8_mac: an operand is a mantissa of 4 bits and an exponent.            *)
Operand(code) ==
  [nil |-> IsZero(code) \/ IsNaN(code),
   mant |-> IF Exp(code) = 0 THEN Mant(code) ELSE 8 + Mant(code),
   exp |-> IF Exp(code) = 0 THEN -9 ELSE Exp(code) - 10]

LeadingOne(p) == IF p < 2 THEN 0 ELSE FloorLog2(p)

(* The product: its leading one goes to bit 10; an exponent not above 0    *)
(* shifts it right again, into the subnormals.                             *)
Product16(a, b) ==
  LET x == Operand(a)
      y == Operand(b)
      p == x.mant * y.mant
      lod == LeadingOne(p)
      aligned == p * 2^(10 - lod)
      exp == x.exp + y.exp + lod + 15
      sub == RoundEven(aligned, 2^(1 - exp))
      neg == IsNeg(a) # IsNeg(b)
  IN CASE x.nil \/ y.nil -> <<neg, 0, 0>>
       [] ~(x.nil \/ y.nil) /\ exp <= 0 -> IF sub >= 1024 THEN <<neg, 1, 0>> ELSE <<neg, 0, sub>>
       [] OTHER -> IF exp >= 31 THEN <<neg, 30, 1023>> ELSE <<neg, exp, aligned % 1024>>

-----------------------------------------------------------------------------
(* FP4 E2M1 of the C reference, in quarters.                               *)
Fp4Values == [c \in 0 .. 7 |-> IF c < 4 THEN c ELSE IF c = 4 THEN 4 ELSE IF c = 5 THEN 6
                               ELSE IF c = 6 THEN 8 ELSE 12]

AbsOf(x) == IF x < 0 THEN -x ELSE x

(* The scale of a group makes its largest number 3; a number is the first  *)
(* of the nearest codes.  With amax for the largest, x stands for          *)
(* 12 x / amax quarters.                                                   *)
Quant4(x, amax) ==
  LET off(c) == AbsOf(12 * AbsOf(x) - Fp4Values[c] * amax)
      best == {c \in 0 .. 7 : \A d \in 0 .. 7 : off(c) <= off(d)}
  IN (IF x < 0 THEN 8 ELSE 0) + Min(best)

GroupOf(row, c, size) == {d \in DOMAIN row : (d - 1) \div size = (c - 1) \div size}
Amax(row, c, size) == Max({AbsOf(row[d]) : d \in GroupOf(row, c, size)})

(* A group of nothing but 0 has a scale of nearly 0.                       *)
QuantizeGrouped(row, size) ==
  [c \in DOMAIN row |-> IF Amax(row, c, size) = 0 THEN 0 ELSE Quant4(row[c], Amax(row, c, size))]

(* In twelfths of the group's largest.                                     *)
Dequantized(code, amax) == (IF code >= 8 THEN -1 ELSE 1) * Fp4Values[code % 8] * amax

(* The script's way, a group after another: codes of the elements, and the *)
(* largest of each group, at least a little, for its scale.                *)
NumGroups(row, size) == (Len(row) + size - 1) \div size
PyScales(row, size) ==
  [g \in 1 .. NumGroups(row, size) |->
     Max({AbsOf(row[c]) : c \in (g - 1) * size + 1 .. Min({g * size, Len(row)})})]
PyQuantize(row, size) ==
  [g \in DOMAIN PyScales(row, size) |->
     [c \in (g - 1) * size + 1 .. Min({g * size, Len(row)}) |->
        IF PyScales(row, size)[g] = 0 THEN 0 ELSE Quant4(row[c], PyScales(row, size)[g])]]
PyDequantize(codes, scales) ==
  [g \in DOMAIN codes |-> [c \in DOMAIN codes[g] |-> Dequantized(codes[g][c], scales[g])]]

(* fp4_linear: the columns that are worst off keep their weights.          *)
FellBack(row, size, columns) ==
  LET back == PyDequantize(PyQuantize(row, size), PyScales(row, size))
  IN [c \in DOMAIN row |-> IF c \in columns THEN 12 * row[c]
                            ELSE back[((c - 1) \div size) + 1][c]]

(* fp4_gemm_simulate: a row that is shorter than the activations is filled *)
(* with 0, a longer one cut; without the noise that is added.              *)
GemmRow(row, size, act) ==
  LET back == FellBack(row, size, {})
  IN SumFunctionOnSet([i \in 1 .. Len(act) |-> IF i <= Len(row) THEN back[i] * act[i] ELSE 0],
                      1 .. Len(act))

(* run_fp4_corner_cases, in hundredths.  Tests 1 and 2: the values of the  *)
(* codes.  Test 3: a group far out of their range.  Test 4: those that     *)
(* have a sign.  Test 5: a group of 3 and a number, and the number that    *)
(* comes back, or one half way between two.  Test 6: a group of all the    *)
(* values, and a row of two groups.                                        *)
Representable == {0, 25, 50, 75, 100, 150, 200, 300}
ExtremeRow == <<500, -1000, 10000, -5000, 100, -100>>
Nonzero == Representable \ {0}
CornerCases ==
  {<<10, 0>>, <<13, 25>>, <<30, 25>>, <<40, 50>>, <<60, 50>>, <<85, 75>>, <<120, 100>>,
   <<180, 200>>, <<400, 400>>, <<250, 200>>}
MixedRow == <<25, 100, 300, 0, 50, 200, 75, 150>>

(* unpack_fp4_to_fp8 adds 2 to the exponent, not the 6 of its comment.     *)
Unpack4(code) ==
  IF code = 0 THEN 0
  ELSE (IF code >= 8 THEN 128 ELSE 0) + (((code \div 2) % 4) + 2) * 8 + (code % 2) * 2

-----------------------------------------------------------------------------
(* The same code, or both of them a zero, with whatever sign.              *)
Alike(c, d) == c = d \/ (IsZero(c) /\ IsZero(d))

(* The encoders give the nearest code, the even one of two, and all of     *)
(* them the same; of the golden model only for what is more than half the  *)
(* smallest number, and the sign of a zero, in which they differ, is left  *)
(* out.  Only the wrappers keep a NaN and take an infinity for large.      *)
EncodersAgree(byte) == \A e \in FloatExps, neg \in BOOLEAN :
  LET x == Finite(neg, byte * 2^e)
      code == EncodeC(x)
      off(c) == AbsOf(x.mag - Magnitude(c))
      nearest == {c \in {(code % 128) - 1, (code % 128) + 1} \cap 0 .. 119 : off(c) <= off(code)}
  IN /\ x.mag > 0 => code = EncodeScalar(x)
     /\ x.mag > HalfSubnormal => code = EncodeGolden(x)
     /\ x.mag <= HalfSubnormal => IsZero(code)
     /\ x.mag = 0 => IsZero(EncodeScalar(x)) /\ IsZero(EncodeGolden(x))
     /\ x.mag < MaxNormal => \A c \in nearest : off(c) = off(code) /\ code % 2 = 0

SpecialsKept ==
  LET nan == [kind |-> "nan", neg |-> FALSE, mag |-> 0]
      inf(neg) == [kind |-> "inf", neg |-> neg, mag |-> 0]
  IN /\ EncodeGolden(nan) = 0 /\ EncodeC(nan) = 0 /\ IsNaN(EncodeScalar(nan))
     /\ \A neg \in BOOLEAN : /\ EncodeGolden(inf(neg)) = 0 /\ EncodeC(inf(neg)) = 0
                             /\ EncodeScalar(inf(neg)) = SignBit(neg, 8) + 119

(* A code that is a number comes back from its value, from FP16 either     *)
(* way, as 1 times itself and as itself plus 0, a zero with either sign;   *)
(* and it cancels itself.                                                  *)
RoundTrips(code) ==
  LET minus == (code + 128) % 256
  IN ~IsNaN(code) =>
       /\ EncodeGolden(Decode8(code)) = code /\ Alike(EncodeC(Decode8(code)), code)
       /\ ToFp16(code) = ToFp16C(code)
       /\ Fp16Value(ToFp16(code)) = Normal(Magnitude(code), -18)
       /\ Alike(Mul8(code, 56), code) /\ Alike(Add8(code, 0), code)
       /\ IsZero(Add8(code, minus))

(* The product of two codes is exact in FP16, the smallest ones too.       *)
ProductsExact(a) == \A b \in 0 .. 255 :
  LET h == Product16(a, b)
  IN /\ ~IsNaN(a) /\ ~IsNaN(b) =>
          /\ Fp16Value(h) = Normal(Operand(a).mant * Operand(b).mant, Operand(a).exp + Operand(b).exp)
          /\ h[1] = (IsNeg(a) # IsNeg(b))
     /\ IsNaN(a) \/ IsNaN(b) => IsZero(Mul8(a, b)) /\ Fp16Value(h) = <<0, 0>>
     /\ Mul8(a, b) = Mul8(b, a)

(* FP4 in groups: the largest number of a group is kept exactly, each      *)
(* other one is off by half a step of the code at most, a sixth of the     *)
(* largest, and the last group may be short; unpacking to FP8 keeps the    *)
(* order of the codes, though not their values.                            *)
GroupsKept(byte) ==
  LET row == <<(byte % 16) - 8, (byte \div 16) - 8, 5>>
      codes == QuantizeGrouped(row, 2)
  IN /\ \A c \in DOMAIN row :
          LET amax == Amax(row, c, 2)
              off == AbsOf(Dequantized(codes[c], amax) - 12 * row[c])
          IN off <= 2 * amax /\ (AbsOf(row[c]) = amax => off = 0)
     /\ \A c, d \in 0 .. 7 : c < d => Magnitude(Unpack4(c)) < Magnitude(Unpack4(d))
     /\ \A c \in 1 .. 7 : Unpack4(c + 8) = Unpack4(c) + 128

(* The script gives the codes the C reference gives, one scale a group;    *)
(* what falls back is exact, and a product with the others is off by no    *)
(* more than their steps; the corner cases come back as they say, each     *)
(* code from its own value, a tie at the lower.                            *)
ScriptsMeet(byte) ==
  LET row == <<(byte % 16) - 8, (byte \div 16) - 8, 5>>
      codes == PyQuantize(row, 2)
      act == <<1, -2, 3, 7>>
      exact == 12 * (row[1] - 2 * row[2] + 3 * row[3])
  IN /\ \A c \in DOMAIN row : codes[(c + 1) \div 2][c] = QuantizeGrouped(row, 2)[c]
     /\ Len(PyScales(row, 2)) = 2
     /\ FellBack(row, 2, {1, 2, 3}) = [c \in DOMAIN row |-> 12 * row[c]]
     /\ AbsOf(GemmRow(row, 2, act) - exact) <= 2 * 3 * PyScales(row, 2)[1]
     /\ GemmRow(row, 2, <<1>>) = FellBack(row, 2, {})[1]
     /\ \A case \in CornerCases :
          FellBack(<<300, case[1]>>, 2, {})[2] = 12 * case[2]
     /\ \A v \in Representable :
          FellBack(<<300, v>>, 2, {})[2] = 12 * v /\ FellBack(<<v>>, 16, {}) = <<12 * v>>
     /\ \A v \in Nonzero : PyQuantize(<<-v>>, 16)[1][1] = PyQuantize(<<v>>, 16)[1][1] + 8
     /\ LET back == FellBack(ExtremeRow, 6, {})
        IN back[3] = 12 * ExtremeRow[3] /\ \A c \in DOMAIN back : AbsOf(back[c]) <= AbsOf(back[3])
     /\ FellBack(MixedRow, 8, {}) = [c \in DOMAIN MixedRow |-> 12 * MixedRow[c]]
     /\ NumGroups(MixedRow \o MixedRow, 8) = 2

(* The golden model multiplies and adds as the C reference does, a product *)
(* of up to half the smallest number left out, and the sign of a zero.     *)
ArithmeticAgrees(a) == \A b \in {0, 1, 56, 119, 128, 129, 185, 247} :
  LET x == TimesOf(Decode8(a), Decode8(b))
      sum == Plus8(Decode8(a), Decode8(b))
  IN /\ x.mag > HalfSubnormal => MulGolden(a, b) = Mul8(a, b)
     /\ x.mag = 0 => IsZero(MulGolden(a, b)) /\ IsZero(Mul8(a, b))
     /\ IF sum.mag > 0 THEN AddGolden(a, b) = Add8(a, b)
        ELSE IsZero(AddGolden(a, b)) /\ IsZero(Add8(a, b))

Fp8Right ==
  fp8at > 0 =>
    LET byte == fp8at - 1
    IN EncodersAgree(byte) /\ SpecialsKept /\ RoundTrips(byte) /\ ProductsExact(byte)
       /\ GroupsKept(byte) /\ ScriptsMeet(byte) /\ ArithmeticAgrees(byte)

=============================================================================
