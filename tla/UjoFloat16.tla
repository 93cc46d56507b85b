----------------------------- MODULE UjoFloat16 -----------------------------
(***************************************************************************)
(* The conversions of ujo_float.c between single and half precision.  A    *)
(* half is its 16 bits as a number.  A float32 is its 32 bits read as a    *)
(* signed integer, so that the lower 31 bits order floats of one sign by   *)
(* their magnitude.  The tables are functions of their index.              *)
(***************************************************************************)
EXTENDS Integers

Halves16 == 0 .. 65535
Bit31    == -2147483647 - 1     \* the sign bit alone, as a signed integer
Float32s == { f \in Int : Bit31 <= f /\ f <= 2147483647 }

TopBits(f)  == (f \div 8388608) % 512    \* (f >> 23) & 0x1ff: sign and exponent
Mantissa(f) == f % 8388608               \* f & 0x007fffff

\* 1 << n.
Pow2 == <<1, 2, 4, 8, 16, 32, 64, 128, 256, 512, 1024, 2048, 4096, 8192,
          16384, 32768, 65536, 131072, 262144, 524288, 1048576, 2097152,
          4194304, 8388608, 16777216>>
Shl(n) == Pow2[n + 1]

\* Too small is zero, then subnormal, normal, and too large or not finite.
basetable(i) ==
    LET e == i % 256
    IN  (IF i < 256 THEN 0 ELSE 32768)
          + (CASE e < 103             -> 0
               [] e \in 103 .. 112    -> Shl(e - 103)
               [] e \in 113 .. 142    -> (e - 112) * 1024
               [] OTHER               -> 31744)

shifttable(i) ==
    LET e == i % 256
    IN  CASE e \in 103 .. 112           -> 126 - e
          [] e \in 113 .. 142 \/ e = 255 -> 13
          [] OTHER                      -> 24

\* Mutant: rounding half up.
float_to_half_up(f) ==
    basetable(TopBits(f))
      + (Mantissa(f) + Shl(shifttable(TopBits(f))) \div 2) \div Shl(shifttable(TopBits(f)))

float_to_half(f) ==
    basetable(TopBits(f)) + Mantissa(f) \div Shl(shifttable(TopBits(f)))

\* The mantissa of a subnormal half, normalised: its highest bit is the k-th.
Subnormal(m) ==
    LET k == CHOOSE k \in 0 .. 9 : Shl(k) <= m /\ m < Shl(k + 1)
    IN  (103 + k) * 8388608 + (m - Shl(k)) * Shl(23 - k)

mantissatable(i) ==
    CASE i = 0              -> 0
      [] 0 < i /\ i < 1024  -> Subnormal(i)
      [] OTHER              -> 112 * 8388608 + (i - 1024) * 8192

exponenttable(i) ==
    (IF i < 32 THEN 0 ELSE Bit31)
      + (IF i % 32 = 31 THEN 143 * 8388608 ELSE (i % 32) * 8388608)

\* Mutant: the subnormals of negative halves are read from the wrong half.
offsettablePositive(i) == IF i = 0 THEN 0 ELSE 1024

offsettable(i) == IF i \in {0, 32} THEN 0 ELSE 1024

half_to_float(h) ==
    mantissatable(offsettable(h \div 1024) + (h % 1024)) + exponenttable(h \div 1024)

\* x & FLOAT16_EXPONENT_MASK = FLOAT16_EXPONENT_MASK.
isinf_float16(x) == (x \div 1024) % 32 = 31
isnan_float16(x) == (x \div 1024) % 32 = 31 /\ x % 1024 # 0

-----------------------------------------------------------------------------
(* What a half can hold, without the tables.                                *)

Exponent(f) == TopBits(f) % 256

\* The unit of the last place a half has for a float32 of exponent e: a half
\* has eleven significant bits, and none below 2^-24.
Place(e) == CASE e \in 113 .. 142 -> 8192
              [] e \in 103 .. 112 -> Shl(126 - e)

\* The bits below that place cleared.
Truncated(f) ==
    IF Exponent(f) < 103 THEN IF f < 0 THEN Bit31 ELSE 0
    ELSE f - (Mantissa(f) % Place(Exponent(f)))
=============================================================================
