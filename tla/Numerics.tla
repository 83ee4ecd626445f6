-------------------------------- MODULE Numerics --------------------------------
(***************************************************************************)
(* The number formats between the expert engines: the FP8 encoder          *)
(* (rtl/activation/q12_to_fp8_e4m3.sv), the FP8 decoder (rtl/include/      *)
(* fp4_types.svh, repeated in rtl/dsp/fp4_mac.sv), SiLU (rtl/activation/   *)
(* silu_q12_lut.sv) and the saturating accumulator (fp4_mac.sv), each a    *)
(* combinational function, held against what it stands for.                *)
(*                                                                         *)
(* Q12 numbers are integers, 4096 for 1.  sweep runs through all inputs,   *)
(* SweepStep of them at a time: a Q12 number, and as its remainders of     *)
(* their ranges an FP8 code and a pair of accumulator values.  It counts   *)
(* the blocks of inputs, and begins before the first one.                  *)
(***************************************************************************)
EXTENDS Integers, Sequences, FiniteSets

CONSTANTS
  SweepMax,       (* bound: the Q12 numbers, up and down                     *)
  SweepStep,      (* inputs looked at in a state                             *)
  AccWidth        (* ACCUM_WIDTH                                             *)

ASSUME NumericsAssumption ==
  /\ SweepMax \in Nat /\ SweepStep \in Nat \ {0} /\ AccWidth \in Nat \ {0, 1}

VARIABLE sweep

NumInit == sweep = 0
NumNext == sweep * SweepStep <= 2 * SweepMax /\ sweep' = sweep + 1

Inputs == IF sweep = 0 THEN {} ELSE LET first == (sweep - 1) * SweepStep - SweepMax
                                    IN first .. first + SweepStep - 1

NumSpec == NumInit /\ [][NumNext]_sweep

-----------------------------------------------------------------------------
Abs(x) == IF x < 0 THEN -x ELSE x

(* Two's complement of a width, and division as the hardware rounds it.    *)
Signed(x, width) ==
  LET u == x % 2^width IN IF u >= 2^(width - 1) THEN u - 2^width ELSE u

TruncDiv(x, y) == IF x < 0 THEN -((-x) \div y) ELSE x \div y

(* The encoder: bounds of a magnitude in Q12, and the codes between them.  *)
EncodeBounds == <<512, 1536, 2560, 3584, 5120, 7168, 10240, 14336, 20480, 28672>>

EncodeCodes == <<0, 40, 48, 52, 56, 60, 64, 68, 72, 76, 80>>

Encode(x) ==
  (IF x < 0 THEN 128 ELSE 0)
    + EncodeCodes[1 + Cardinality({i \in DOMAIN EncodeBounds : Abs(x) >= EncodeBounds[i]})]

(* The decoder, times 256 in 12 bits.  The shift is 16 bits wide.          *)
Decode(code) ==
  LET exp == (code \div 8) % 16
      mant == code % 8
      full == Signed((8 + mant) * 2^(IF exp < 2 THEN 0 ELSE exp - 2), 16)
      magnitude == CASE exp = 0 -> mant \div 2
                     [] exp = 1 -> (8 + mant) \div 2
                     [] exp > 1 -> IF full > 2047 THEN 2047 ELSE IF full < -2048 THEN -2048 ELSE full
  IN IF code >= 128 THEN Signed(-magnitude, 12) ELSE magnitude

(* SiLU: straight lines between <<x, y>>.                                  *)
Knots == << <<-32768, -11>>, <<-16384, -295>>, <<-8192, -976>>, <<-4096, -1102>>, <<0, 0>>,
            <<4096, 2994>>, <<8192, 7215>>, <<16384, 16089>>, <<32768, 32757>> >>

Silu(x) ==
  IF x <= -32768 THEN -11
  ELSE IF x >= 32768 THEN x
  ELSE LET i == CHOOSE j \in 1 .. Len(Knots) - 1 : Knots[j][1] <= x /\ x < Knots[j + 1][1]
           dx == x - Knots[i][1]
           dy == Knots[i + 1][2] - Knots[i][2]
       IN Knots[i][2] + TruncDiv(dx * dy, Knots[i + 1][1] - Knots[i][1])

(* sat_acc: it saturates by the signs of the operands and of the raw sum.  *)
SatAcc(old, add) ==
  LET raw == Signed(old + add, AccWidth)
  IN IF old >= 0 /\ add >= 0 /\ raw < 0 THEN 2^(AccWidth - 1) - 1
     ELSE IF old < 0 /\ add < 0 /\ raw >= 0 THEN -(2^(AccWidth - 1))
     ELSE raw

-----------------------------------------------------------------------------
(* What an FP8 code stands for, times 512 to stay whole: (-1)^s 2^(e-7)    *)
(* (1 + m/8), or (-1)^s 2^(-6) m/8 when e = 0.                             *)
Fp8Value(code) ==
  LET exp == (code \div 8) % 16
      mant == code % 8
      magnitude == IF exp = 0 THEN mant ELSE (8 + mant) * 2^(exp - 1)
  IN IF code >= 128 THEN -magnitude ELSE magnitude

(* The encoder gives the code nearest to its input among those it has; the *)
(* decoder what the code stands for, cut off towards zero and at 2047, for *)
(* every code whose shift fits 16 bits (e up to 13; an e of 14 or 15 wraps *)
(* and comes out negative or 0); SiLU is continuous and keeps silu(x) -    *)
(* silu(-x) = x but for rounding; and sat_acc is the sum, clamped.         *)
NumbersRight == \A x \in Inputs :
  LET code == x % 256
      top == 2^(AccWidth - 1)
      old == (x % (2 * top)) - top
      add == ((x \div (2 * top)) % (2 * top)) - top
      Clamp(n, low, high) == IF n < low THEN low ELSE IF n > high THEN high ELSE n
  IN /\ LET scaled == Fp8Value(Encode(x)) * 8
            best(c) == Abs(Abs(x) - Fp8Value(c) * 8)
        IN \A i \in DOMAIN EncodeCodes : Abs(x - scaled) <= best(EncodeCodes[i])
     /\ (code \div 8) % 16 <= 13 =>
          Decode(code) = Clamp(TruncDiv(Fp8Value(code), 2), -2047, 2047)
     /\ Abs(Silu(x) - Silu(-x) - x) <= 11
     /\ Abs(Silu(x + 1) - Silu(x)) <= 13
     /\ SatAcc(old, add) = Clamp(old + add, -top, top - 1)

=============================================================================
