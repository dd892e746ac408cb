---------------------------- MODULE QuantizedKeys ----------------------------
(***************************************************************************)
(* The numbers of DeepSeek V4's caches on PPU 1.0, which has no fp8: a     *)
(* block of a packed key is scaled by a power of two and encoded to E4M3   *)
(* in integers (models/deepseek_v4/ops/cache.py), and the indexer's        *)
(* queries and keys are truncated to int8 (ops/indexer.py).                *)
(*                                                                         *)
(* A float is a sign, a biased exponent of 8 bits and a mantissa of 23;    *)
(* values are compared in units of a float's last place, so that TLC's     *)
(* integers, of 32 bits as the kernel's, hold them.  The int8 vectors are  *)
(* of small integers, and a division by 127 is left to the comparison.     *)
(***************************************************************************)
EXTENDS Integers

CONSTANTS
  Exponents,     (* biased exponents of the floats to be stored              *)
  Mantissas,     (* and their mantissas                                      *)
  Entries        (* entries of the indexer's vectors                         *)

ASSUME QuantizedAssumption ==
  /\ Exponents \subseteq 90 .. 160 /\ \A m \in Mantissas : m \in Nat /\ m < 2^23
  /\ Entries \subseteq -100 .. 100

VARIABLES
  values,    (* a block, the largest of it first; or a query and a key       *)
  stored,    (* what is kept of them                                         *)
  qkStage

qkVars == << values, stored, qkStage >>

Float(s, e, m) == [sign |-> s, exp |-> e, mant |-> m]
Floats == { Float(s, e, m) : s \in {0, 1}, e \in Exponents, m \in Mantissas } \cup { Float(0, 0, 0) }
AtMost(x, y) == x.exp < y.exp \/ (x.exp = y.exp /\ x.mant <= y.mant)

QuantizedInit ==
  /\ \/ /\ qkStage = "block"
        /\ values \in { v \in { << x, y >> : x \in Floats, y \in Floats } : AtMost(v[2], v[1]) }
     \/ /\ qkStage = "vectors"
        /\ values \in [query : Entries \X Entries, key : Entries \X Entries, weight : {1, -3}]
  /\ stored = << >>

--------------------------------------------------------------------------------

Lesser(a, b) == IF a < b THEN a ELSE b
Greater(a, b) == IF a > b THEN a ELSE b
Magnitude(n) == IF n < 0 THEN - n ELSE n
Bit(b) == IF b THEN 1 ELSE 0

\* 1e-4, the least a block is taken for.
Floor == Float(0, 113, 5355287)
block_absmax == IF AtMost(values[1], Floor) THEN Floor ELSE values[1]

\* The power of two that brings the block within 448 = 1.75 * 2^8.  The reciprocal of 448
\* and the logarithm are rounded: next to the boundary either neighbour may come out.
exponents ==
  LET exact == block_absmax.exp - 135
      past == block_absmax.mant - 3 * 2^21
  IN IF Magnitude(past) <= 8 THEN {exact, exact + 1} ELSE { exact + Bit(past > 0) }

\* Scaling by it is exact; the clamp is at 448.
x_clamped(x, exponent) ==
  LET scaled == x.exp - exponent
  IN IF x.exp = 0 THEN x
     ELSE IF scaled > 135 \/ (scaled = 135 /\ x.mant > 3 * 2^21)
     THEN Float(x.sign, 135, 3 * 2^21) ELSE [x EXCEPT !.exp = scaled]

fp8_exp_normal(x) == x.exp - 120

\* MUTANT: a tie is rounded up whatever the last bit.
round_up_n_AwayFromEven(x) == x.mant % 2^20 >= 2^19

\* Nearest, and to even where two are.
round_up_n(x) ==
  LET truncated == x.mant % 2^20
      halfway == 2^19
      lsb == (x.mant \div 2^20) % 2
  IN truncated > halfway \/ (truncated = halfway /\ lsb = 1)

\* The three high bits of the mantissa; a carry goes into the exponent.
NormalPath(x) ==
  LET normal_mant == (x.mant \div 2^20) + Bit(round_up_n(x))
      mant_ovf == normal_mant >= 8
  IN [exp |-> fp8_exp_normal(x) + Bit(mant_ovf), mant |-> IF mant_ovf THEN 0 ELSE normal_mant]

\* The mantissa with its implicit bit, shifted to units of 2^-9; a carry makes the
\* smallest normal number.
SubnormalPath(x) ==
  LET full_mant == 2^23 + x.mant
      sub_shift_safe == Lesser(Greater(141 - x.exp, 1), 31)
      Shifted(n) == IF n >= 24 THEN 0 ELSE full_mant \div 2^n
      sub_round_bit == Shifted(sub_shift_safe - 1) % 2 = 1
      sub_sticky == IF sub_shift_safe - 1 >= 24 THEN TRUE
                    ELSE full_mant % 2^(sub_shift_safe - 1) # 0
      sub_truncated == Shifted(sub_shift_safe)
      sub_mant_out == sub_truncated
                        + Bit(sub_round_bit /\ (sub_sticky \/ sub_truncated % 2 = 1))
      sub_carry_to_normal == sub_mant_out >= 8
  IN [exp |-> Bit(sub_carry_to_normal), mant |-> IF sub_carry_to_normal THEN 0 ELSE sub_mant_out % 8]

_encode_e4m3fn(x) ==
  LET is_zero == x.exp = 0 /\ x.mant = 0
      out == IF fp8_exp_normal(x) <= 0 THEN SubnormalPath(x) ELSE NormalPath(x)
      out_exp == Lesser(Greater(out.exp, 0), 15)
  IN << x.sign, IF is_zero THEN 0 ELSE out_exp * 8 + (out.mant % 8) >>

\* The magnitude of a byte, in units of the last place of a float of exponent unit.
_decode_e4m3fn(b, unit) ==
  LET exp_bits == b \div 8
      mant == b % 8
      is_normal == exp_bits # 0
      mant_f == IF is_normal THEN 8 + mant ELSE mant
      eff_exp == IF is_normal THEN exp_bits ELSE 1
  IN mant_f * 2^(eff_exp + 140 - unit)

\* The block's bytes, and its power of two in a byte of its own.
StoreBlock ==
  /\ qkStage = "block"
  /\ \E e \in exponents :
       stored' = [bytes |-> << _encode_e4m3fn(x_clamped(values[1], e)),
                               _encode_e4m3fn(x_clamped(values[2], e)) >>,
                  encoded |-> Lesser(Greater(e + 127, 0), 255)]
  /\ qkStage' = "stored" /\ values' = values

--------------------------------------------------------------------------------
(* The indexer's int8.                                                         *)

\* A vector's scale is its largest magnitude by 127.
amax(v) == Greater(Greater(Magnitude(v[1]), Magnitude(v[2])), 1)

\* Toward zero, as torch's copy and the kernel's conversion.
Truncated(n, scale) == IF n < 0 THEN - ((- n * 127) \div scale) ELSE (n * 127) \div scale

Quantized(v) == << Truncated(v[1], amax(v)), Truncated(v[2], amax(v)) >>

\* MUTANT: the scale of the query is not folded into its weights.
index_weights_Unscaled(q, weight) == weight

index_weights(q, weight) == weight * amax(q)

\* The key's program clamps and keeps its scale beside it.
_compress_indexer_rope_int8(k) ==
  [bytes |-> << Lesser(Greater(Quantized(k)[1], -127), 127), Lesser(Greater(Quantized(k)[2], -127), 127) >>,
   scale |-> amax(k)]

StoreVectors ==
  /\ qkStage = "vectors"
  /\ stored' = [q |-> Quantized(values.query), weights |-> index_weights(values.query, values.weight),
                k |-> _compress_indexer_rope_int8(values.key)]
  /\ qkStage' = "scored" /\ values' = values

QuantizedNext == StoreBlock \/ StoreVectors

QuantizedSpec == QuantizedInit /\ [][QuantizedNext]_qkVars

--------------------------------------------------------------------------------

\* What is read back of a packed block is, with its sign, the multiple of the block's
\* scale by an E4M3 number that is nearest to what was stored, the one with an even mantissa
\* where two are as near: across the carry of a mantissa, the end of the normal numbers and
\* the underflow to zero.  The scale is the smallest that holds the block, but for rounding.
StoredIsNearest ==
  qkStage = "stored" =>
    LET e == stored.encoded - 127
    IN /\ \A i \in 1 .. 2 :
            LET x == x_clamped(values[i], e)
                v == 2^23 + x.mant
                Error(b) == Magnitude(_decode_e4m3fn(b, x.exp) - v)
                magnitude == stored.bytes[i][2]
            IN /\ magnitude \in 0 .. 126
               /\ stored.bytes[i][1] = values[i].sign
               /\ x.exp < 112 => magnitude = 0
               /\ x.exp >= 112 => \A b \in {magnitude - 1, magnitude + 1} \cap 0 .. 126 :
                    /\ Error(magnitude) <= Error(b)
                    /\ Error(magnitude) = Error(b) => magnitude % 2 = 0
               /\ x.mant # values[i].mant => values[i].mant - x.mant \in 1 .. 8
       /\ AtMost(Floor, values[1]) => stored.bytes[1][2] >= 14 * 8 + 6

\* A logit of the indexer, weighed, is that of the vectors before they were cut to int8, to
\* within what truncation takes of each entry; an int8 holds every entry, and a zero is zero.
LogitIsTheVectors ==
  qkStage = "scored" =>
    LET Exact == values.weight * (values.query[1] * values.key[1] + values.query[2] * values.key[2])
        Scored == stored.weights * stored.k.scale
                    * (stored.q[1] * stored.k.bytes[1] + stored.q[2] * stored.k.bytes[2])
    IN /\ \A i \in 1 .. 2 : Magnitude(stored.q[i]) <= 127
       /\ Magnitude(Scored - 127 * 127 * Exact)
            <= 4 * 127 * Magnitude(values.weight) * amax(values.query) * amax(values.key)

=============================================================================
