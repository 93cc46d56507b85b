-------------------------- MODULE UjoFloat16Proofs --------------------------
(***************************************************************************)
(* The tables of ujo_float.c for all 2^32 floats: what a float16 becomes   *)
(* on its way through a document, and which ones are refused.              *)
(***************************************************************************)
EXTENDS UjoFloat16, TLAPS

-----------------------------------------------------------------------------
(* Arithmetic.                                                              *)

\* The shifts that occur.
LEMMA ShlIs ==
    /\ Shl(0) = 1 /\ Shl(1) = 2 /\ Shl(2) = 4 /\ Shl(3) = 8 /\ Shl(4) = 16
    /\ Shl(5) = 32 /\ Shl(6) = 64 /\ Shl(7) = 128 /\ Shl(8) = 256 /\ Shl(9) = 512
    /\ Shl(10) = 1024 /\ Shl(13) = 8192 /\ Shl(14) = 16384 /\ Shl(15) = 32768
    /\ Shl(16) = 65536 /\ Shl(17) = 131072 /\ Shl(18) = 262144 /\ Shl(19) = 524288
    /\ Shl(20) = 1048576 /\ Shl(21) = 2097152 /\ Shl(22) = 4194304
    /\ Shl(23) = 8388608 /\ Shl(24) = 16777216
  BY SMT DEF Shl, Pow2

\* The sign, the exponent and the mantissa of a float32.
LEMMA Fields ==
    ASSUME NEW f \in Float32s
    PROVE  /\ f \in Int /\ Exponent(f) \in 0 .. 255 /\ TopBits(f) \in 0 .. 511
           /\ Mantissa(f) \in Int /\ 0 <= Mantissa(f) /\ Mantissa(f) <= 8388607
           /\ f >= 0 => TopBits(f) < 256 /\ f = Exponent(f) * 8388608 + Mantissa(f)
           /\ f < 0 => /\ TopBits(f) >= 256
                       /\ f = Bit31 + Exponent(f) * 8388608 + Mantissa(f)
  <1> DEFINE q == f \div 8388608
  <1>1. /\ f \in Int /\ q \in -256 .. 255
        /\ Mantissa(f) \in Int /\ 0 <= Mantissa(f) /\ Mantissa(f) <= 8388607
        /\ f = q * 8388608 + Mantissa(f)
    BY SMT DEF Float32s, Bit31, Mantissa
  <1>2. CASE f >= 0
    <2>1. q >= 0
      BY <1>1, <1>2, SMT
    <2>2. TopBits(f) = q /\ Exponent(f) = q
      BY <1>1, <2>1, SMT DEF TopBits, Exponent
    <2> QED  BY <1>1, <1>2, <2>1, <2>2, SMT
  <1>3. CASE f < 0
    <2>1. q < 0
      BY <1>1, <1>3, SMT
    <2>2. TopBits(f) = q + 512
      BY <1>1, <2>1, SMT DEF TopBits
    <2>3. Exponent(f) = q + 256
      BY <1>1, <2>1, <2>2, SMT DEF Exponent
    <2> QED  BY <1>1, <1>3, <2>1, <2>2, <2>3, SMT DEF Bit31
  <1> QED  BY <1>1, <1>2, <1>3, SMT

\* A mantissa that loses its last 23 - k bits to a subnormal half.
LEMMA ShiftedIs ==
    ASSUME NEW k \in 0 .. 9, NEW m \in Int, 0 <= m, m <= 8388607
    PROVE  /\ m \div Shl(23 - k) \in Int
           /\ 0 <= m \div Shl(23 - k) /\ m \div Shl(23 - k) < Shl(k)
  <1>0. CASE k = 0  BY <1>0, ShlIs, SMT
  <1>1. CASE k = 1  BY <1>1, ShlIs, SMT
  <1>2. CASE k = 2  BY <1>2, ShlIs, SMT
  <1>3. CASE k = 3  BY <1>3, ShlIs, SMT
  <1>4. CASE k = 4  BY <1>4, ShlIs, SMT
  <1>5. CASE k = 5  BY <1>5, ShlIs, SMT
  <1>6. CASE k = 6  BY <1>6, ShlIs, SMT
  <1>7. CASE k = 7  BY <1>7, ShlIs, SMT
  <1>8. CASE k = 8  BY <1>8, ShlIs, SMT
  <1>9. CASE k = 9  BY <1>9, ShlIs, SMT
  <1> QED  BY <1>0, <1>1, <1>2, <1>3, <1>4, <1>5, <1>6, <1>7, <1>8, <1>9, SMT

\* Quotient and remainder.
LEMMA DivMod ==
    ASSUME NEW u \in Int, u > 0, NEW m \in Int
    PROVE  m % u = m - (m \div u) * u
  BY SMT

\* The bits it loses.
LEMMA LostIs ==
    ASSUME NEW k \in 0 .. 9, NEW m \in Int
    PROVE  m % Shl(23 - k) = m - (m \div Shl(23 - k)) * Shl(23 - k)
  <1>1. Shl(23 - k) \in Int /\ Shl(23 - k) > 0
    BY ShlIs, SMT
  <1> QED  BY <1>1, DivMod, SMT

\* The entry of mantissatable for a subnormal whose highest bit is the k-th.
LEMMA SubnormalIs ==
    ASSUME NEW k \in 0 .. 9, NEW m \in Int, Shl(k) <= m, m < Shl(k + 1)
    PROVE  /\ m \in 1 .. 1023
           /\ Subnormal(m) = (103 + k) * 8388608 + (m - Shl(k)) * Shl(23 - k)
  <1>1. m \in 1 .. 1023
    BY ShlIs, SMT
  <1>2. \A j \in 0 .. 9 : Shl(j) <= m /\ m < Shl(j + 1) => j = k
    BY ShlIs, SMT
  <1> DEFINE c == CHOOSE j \in 0 .. 9 : Shl(j) <= m /\ m < Shl(j + 1)
  <1>3. c = k
    BY <1>2, SMT
  <1>4. Subnormal(m) = (103 + c) * 8388608 + (m - Shl(c)) * Shl(23 - c)
    BY SMT DEF Subnormal
  <1> HIDE DEF c
  <1> QED  BY <1>1, <1>3, <1>4, SMT

-----------------------------------------------------------------------------
(* From single to half precision.                                           *)

\* The sign bit of the half of f.
Sign(f) == IF f < 0 THEN 32768 ELSE 0

\* It is set or not.
LEMMA SignIs ==
    ASSUME NEW f \in Float32s
    PROVE  Sign(f) \in Int /\ (Sign(f) = 0 \/ Sign(f) = 32768)
  BY SMT DEF Sign

\* The ten upper bits of a mantissa, and that a half has no more.
LEMMA MantissaTop ==
    ASSUME NEW f \in Float32s
    PROVE  /\ Mantissa(f) \div 8192 \in 0 .. 1023
           /\ Mantissa(f) % 8192 = Mantissa(f) - (Mantissa(f) \div 8192) * 8192
           /\ Mantissa(f) \div 16777216 = 0
  <1> DEFINE m == Mantissa(f)
  <1>1. m \in Int /\ 0 <= m /\ m <= 8388607
    BY Fields, SMT
  <1> HIDE DEF m
  <1>2. m \div 8192 \in 0 .. 1023 /\ m % 8192 = m - (m \div 8192) * 8192
    BY <1>1, SMT
  <1>3. m \div 16777216 = 0
    BY <1>1, SMT
  <1> QED  BY <1>2, <1>3, SMT DEF m

\* A float32 too small for a half.
LEMMA TooSmall ==
    ASSUME NEW f \in Float32s, Exponent(f) < 103
    PROVE  float_to_half(f) = Sign(f)
  <1> DEFINE i == TopBits(f)
  <1>1. basetable(i) = Sign(f)
    BY Fields, SMT DEF basetable, Exponent, Sign
  <1>2. shifttable(i) = 24
    BY Fields, SMT DEF shifttable, Exponent
  <1>3. Mantissa(f) \div 16777216 = 0
    BY MantissaTop, SMT
  <1> QED  BY <1>1, <1>2, <1>3, ShlIs, SignIs, SMT DEF float_to_half

\* One that becomes a subnormal half.
LEMMA BecomesSubnormal ==
    ASSUME NEW f \in Float32s, NEW k \in 0 .. 9, Exponent(f) = 103 + k
    PROVE  float_to_half(f) = Sign(f) + Shl(k)
                                + (Mantissa(f) \div Shl(23 - k))
  <1> DEFINE i == TopBits(f)
  <1>1. basetable(i) = Sign(f) + Shl(k)
    BY Fields, ShlIs, SMT DEF basetable, Exponent, Sign
  <1>2. shifttable(i) = 23 - k
    BY Fields, SMT DEF shifttable, Exponent
  <1> QED  BY <1>1, <1>2, SMT DEF float_to_half

\* One that becomes a normal half.
LEMMA BecomesNormal ==
    ASSUME NEW f \in Float32s, Exponent(f) \in 113 .. 142
    PROVE  float_to_half(f) = Sign(f) + (Exponent(f) - 112) * 1024
                                + (Mantissa(f) \div 8192)
  <1> DEFINE i == TopBits(f)
  <1>1. basetable(i) = Sign(f) + (Exponent(f) - 112) * 1024
    BY Fields, SMT DEF basetable, Exponent, Sign
  <1>2. shifttable(i) = 13
    BY Fields, SMT DEF shifttable, Exponent
  <1> QED  BY <1>1, <1>2, ShlIs, SMT DEF float_to_half

\* One too large for a half, an infinity or not a number.
LEMMA TooLarge ==
    ASSUME NEW f \in Float32s, Exponent(f) >= 143
    PROVE  \E x \in 0 .. 1023 :
             float_to_half(f) = Sign(f) + 31744 + x
  <1> DEFINE i == TopBits(f)
  <1>1. basetable(i) = Sign(f) + 31744
    BY Fields, SMT DEF basetable, Exponent, Sign
  <1>2. shifttable(i) \in {13, 24}
    BY Fields, SMT DEF shifttable, Exponent
  <1>3. Mantissa(f) \div 8192 \in 0 .. 1023 /\ Mantissa(f) \div 16777216 = 0
    BY MantissaTop, SMT
  <1> DEFINE x == Mantissa(f) \div Shl(shifttable(i))
  <1>4. x \in 0 .. 1023
    BY <1>2, <1>3, ShlIs, SMT
  <1>5. float_to_half(f) = Sign(f) + 31744 + x
    BY <1>1, SMT DEF float_to_half
  <1> HIDE DEF x
  <1> QED  BY <1>4, <1>5, SMT

\* Every float32 has a half.
LEMMA FloatToHalfIs ==
    ASSUME NEW f \in Float32s
    PROVE  /\ float_to_half(f) \in Int
           /\ 0 <= float_to_half(f) /\ float_to_half(f) <= 65535
  <1>1. CASE Exponent(f) < 103
    BY <1>1, TooSmall, SignIs, SMT
  <1>2. CASE Exponent(f) \in 103 .. 112
    <2> DEFINE k == Exponent(f) - 103
    <2>1. k \in 0 .. 9 /\ Exponent(f) = 103 + k
      BY <1>2, Fields, SMT
    <2> HIDE DEF k
    <2>2. /\ Mantissa(f) \div Shl(23 - k) \in Int
          /\ 0 <= Mantissa(f) \div Shl(23 - k) /\ Mantissa(f) \div Shl(23 - k) < Shl(k)
      BY <2>1, Fields, ShiftedIs, SMT
    <2>3. Shl(k) \in 1 .. 512
      BY <2>1, ShlIs, SMT
    <2>4. float_to_half(f) = Sign(f) + Shl(k)
                                + (Mantissa(f) \div Shl(23 - k))
      BY <2>1, BecomesSubnormal, SMT
    <2>5. Sign(f) \in Int /\ (Sign(f) = 0 \/ Sign(f) = 32768)
      BY SignIs, SMT
    <2> DEFINE u == Shl(k)
               x == Mantissa(f) \div Shl(23 - k)
    <2>6. u \in 1 .. 512 /\ x \in Int /\ 0 <= x /\ x < u /\ float_to_half(f) = Sign(f) + u + x
      BY <2>2, <2>3, <2>4, SMT
    <2> HIDE DEF u, x
    <2> QED  BY <2>5, <2>6, SMT
  <1>3. CASE Exponent(f) \in 113 .. 142
    <2> DEFINE b == (Exponent(f) - 112) * 1024
               x == Mantissa(f) \div 8192
    <2>1. x \in 0 .. 1023
      BY MantissaTop, SMT
    <2>2. b \in Int /\ 1024 <= b /\ b <= 30720
      BY <1>3, SMT
    <2>3. float_to_half(f) = Sign(f) + b + x
      BY <1>3, BecomesNormal, SMT
    <2>4. Sign(f) \in Int /\ (Sign(f) = 0 \/ Sign(f) = 32768)
      BY SignIs, SMT
    <2> HIDE DEF b, x
    <2> QED  BY <2>1, <2>2, <2>3, <2>4, SMT
  <1>4. CASE Exponent(f) >= 143
    <2>1. PICK x \in 0 .. 1023 : float_to_half(f) = Sign(f) + 31744 + x
      BY <1>4, TooLarge, SMT
    <2>2. Sign(f) \in Int /\ (Sign(f) = 0 \/ Sign(f) = 32768)
      BY SignIs, SMT
    <2> QED  BY <2>1, <2>2, SMT
  <1> QED  BY <1>1, <1>2, <1>3, <1>4, Fields, SMT
-----------------------------------------------------------------------------
(* And back.                                                                *)

\* The sign bit of the float32 of a half with the sign of f.
SignBit(f) == IF f < 0 THEN Bit31 ELSE 0

\* It is a number.
LEMMA SignBitIs ==
    ASSUME NEW f \in Float32s
    PROVE  SignBit(f) \in Int
  BY SMT DEF SignBit, Bit31

\* A zero.
LEMMA FromZero ==
    ASSUME NEW f \in Float32s
    PROVE  half_to_float(Sign(f)) = SignBit(f)
  <1> DEFINE i == IF f < 0 THEN 32 ELSE 0
  <1>1. Sign(f) \div 1024 = i /\ Sign(f) % 1024 = 0
    BY SMT DEF Sign
  <1>2. offsettable(i) = 0
    BY SMT DEF offsettable
  <1>3. exponenttable(i) = SignBit(f)
    BY SMT DEF exponenttable, SignBit, Bit31
  <1>4. mantissatable(0) = 0
    BY SMT DEF mantissatable
  <1> HIDE DEF i
  <1> QED  BY <1>1, <1>2, <1>3, <1>4, SignBitIs, SMT DEF half_to_float

\* The bits of a subnormal half, without the sign.
SubnormalField(a) == a \in 1 .. 1023 /\ Subnormal(a) \in Int

\* A subnormal half.
LEMMA FromSubnormal ==
    ASSUME NEW f \in Float32s, NEW a, SubnormalField(a)
    PROVE  half_to_float(Sign(f) + a) = Subnormal(a) + SignBit(f)
  <1> DEFINE h == Sign(f) + a
             i == IF f < 0 THEN 32 ELSE 0
  <1>0. a \in 1 .. 1023 /\ Subnormal(a) \in Int
    BY SMT DEF SubnormalField
  <1>1. h \div 1024 = i /\ h % 1024 = a
    BY <1>0, SMT DEF Sign
  <1>2. offsettable(i) + a = a
    BY <1>0, SMT DEF offsettable
  <1>3. exponenttable(i) = SignBit(f)
    BY SMT DEF exponenttable, SignBit, Bit31
  <1>4. mantissatable(a) = Subnormal(a)
    BY <1>0, SMT DEF mantissatable
  <1>5. half_to_float(h) = mantissatable(offsettable(h \div 1024) + (h % 1024))
                             + exponenttable(h \div 1024)
    BY SMT DEF half_to_float
  <1> HIDE DEF h, i
  <1>6. half_to_float(h) = Subnormal(a) + SignBit(f)
    BY <1>0, <1>1, <1>2, <1>3, <1>4, <1>5, SMT
  <1> QED  BY <1>6 DEF h

\* A normal half, and its float32.
NormalHalf(f, e, x)  == Sign(f) + e * 1024 + x
NormalFloat(f, e, x) == SignBit(f) + (112 + e) * 8388608 + x * 8192
NormalFields(e, x)   == e \in 1 .. 30 /\ x \in 0 .. 1023

\* The one is the conversion of the other.
LEMMA FromNormal ==
    ASSUME NEW f \in Float32s, NEW e, NEW x, NormalFields(e, x)
    PROVE  half_to_float(NormalHalf(f, e, x)) = NormalFloat(f, e, x)
  <1> DEFINE h == NormalHalf(f, e, x)
             i == e + (IF f < 0 THEN 32 ELSE 0)
  <1>0. e \in 1 .. 30 /\ x \in 0 .. 1023
    BY SMT DEF NormalFields
  <1>1. h \div 1024 = i /\ h % 1024 = x
    BY <1>0, SMT DEF NormalHalf, Sign
  <1>2. offsettable(i) = 1024
    BY <1>0, SMT DEF offsettable
  <1>3. exponenttable(i) = SignBit(f) + e * 8388608
    BY <1>0, SMT DEF exponenttable, SignBit, Bit31
  <1>4. mantissatable(1024 + x) = 112 * 8388608 + x * 8192
    BY <1>0, SMT DEF mantissatable
  <1>5. half_to_float(h) = mantissatable(offsettable(h \div 1024) + (h % 1024))
                             + exponenttable(h \div 1024)
    BY SMT DEF half_to_float
  <1> HIDE DEF i
  <1> QED  BY <1>0, <1>1, <1>2, <1>3, <1>4, <1>5, SignBitIs, SMT DEF NormalFloat

-----------------------------------------------------------------------------
(* There and back.                                                          *)

\* What a float32 that is not refused comes back as: itself, with the bits
\* below the last place of a half cleared.  A value a half can hold comes
\* back as it was, and every other one as the next towards zero.
THEOREM HalfTruncates ==
    ASSUME NEW f \in Float32s, Exponent(f) < 143
    PROVE  half_to_float(float_to_half(f)) = Truncated(f)
  <1>1. CASE Exponent(f) < 103
    <2>1. Truncated(f) = SignBit(f)
      BY <1>1, SMT DEF Truncated, SignBit
    <2> QED  BY <1>1, <2>1, TooSmall, FromZero
  <1>2. CASE Exponent(f) \in 103 .. 112
    <2> DEFINE k == Exponent(f) - 103
               u == Shl(23 - k)
               d == Mantissa(f) \div u
    <2>1. k \in 0 .. 9 /\ Exponent(f) = 103 + k
      BY <1>2, Fields, SMT
    <2> HIDE DEF k
    <2>2. /\ d \in Int /\ 0 <= d /\ d < Shl(k)
          /\ u \in Int /\ u > 0
      <3>1. d \in Int /\ 0 <= d /\ d < Shl(k)
        BY <2>1, Fields, ShiftedIs, SMT
      <3>2. u \in Int /\ u > 0
        BY <2>1, ShlIs, SMT
      <3> QED  BY <3>1, <3>2
    <2>3. float_to_half(f) = Sign(f) + Shl(k) + d
      BY <2>1, BecomesSubnormal, SMT
    <2>4. Mantissa(f) % u = Mantissa(f) - d * u
      BY <2>1, <2>2, Fields, LostIs, SMT
    <2>5. Truncated(f) = f - (Mantissa(f) % u)
      <3>1. Place(Exponent(f)) = Shl(126 - Exponent(f))
        BY <1>2, SMT DEF Place
      <3>2. Place(Exponent(f)) = u
        BY <2>1, <3>1, SMT
      <3>3. ~(Exponent(f) < 103)
        BY <1>2, SMT
      <3> QED  BY <3>2, <3>3, SMT DEF Truncated
    <2>6. f = SignBit(f) + (103 + k) * 8388608 + Mantissa(f)
      BY <2>1, Fields, SMT DEF SignBit, Bit31
    <2> DEFINE a == Shl(k) + d
    <2>7. Shl(k) \in Int /\ Shl(k) <= a /\ a < Shl(k + 1) /\ a \in Int
      BY <2>1, <2>2, ShlIs, SMT
    <2>8. float_to_half(f) = Sign(f) + a
      BY <2>2, <2>3, <2>7, SignIs, SMT
    <2>9. a - Shl(k) = d
      BY <2>2, <2>7, SMT
    <2> HIDE DEF a, d
    <2>10. Subnormal(a) = (103 + k) * 8388608 + (a - Shl(k)) * u
      BY <2>1, <2>7, SubnormalIs, SMT
    <2>11. a \in 1 .. 1023
      BY <2>1, <2>7, SubnormalIs, SMT
    <2> HIDE DEF u
    <2>12. Subnormal(a) \in Int
      BY <2>1, <2>2, <2>10, <2>9, SMT
    <2>13. half_to_float(float_to_half(f)) = Subnormal(a) + SignBit(f)
      <3>1. half_to_float(Sign(f) + a) = Subnormal(a) + SignBit(f)
        <4>1. SubnormalField(a)
          BY <2>11, <2>12, SMT DEF SubnormalField
        <4> QED  BY <4>1, FromSubnormal, Zenon
      <3> QED  BY <2>8, <3>1, SMT
    <2> QED  BY <2>1, <2>2, <2>4, <2>5, <2>6, <2>9, <2>10, <2>13, Fields, SignBitIs, SMT
  <1>3. CASE Exponent(f) \in 113 .. 142
    <2> DEFINE e == Exponent(f) - 112
               x == Mantissa(f) \div 8192
    <2>1. e \in 1 .. 30 /\ x \in 0 .. 1023
      <3>1. e \in 1 .. 30
        BY <1>3, Fields, SMT
      <3> QED  BY <3>1, MantissaTop, SMT
    <2>2. float_to_half(f) = NormalHalf(f, e, x)
      BY <1>3, BecomesNormal, SMT DEF NormalHalf
    <2>3. Truncated(f) = f - (Mantissa(f) % 8192)
      BY <1>3, SMT DEF Truncated, Place
    <2>4. f = SignBit(f) + (112 + e) * 8388608 + Mantissa(f)
      BY <1>3, Fields, SMT DEF SignBit, Bit31
    <2>5. Mantissa(f) % 8192 = Mantissa(f) - x * 8192
      BY MantissaTop, SMT
    <2> HIDE DEF e, x
    <2>6. half_to_float(NormalHalf(f, e, x)) = NormalFloat(f, e, x)
      <3>1. NormalFields(e, x)
        BY <2>1, SMT DEF NormalFields
      <3> QED  BY <3>1, FromNormal, Zenon
    <2>7. half_to_float(float_to_half(f)) = NormalFloat(f, e, x)
      BY <2>2, <2>6, SMT
    <2> QED  BY <2>1, <2>3, <2>4, <2>5, <2>7, Fields, SignBitIs, SMT DEF NormalFloat
  <1> QED  BY <1>1, <1>2, <1>3, Fields, SMT

\* isinf_float16, the test of ujo_writer_add_float16, refuses exactly the
\* float32 whose magnitude is 65536 or more, the infinities and the NaNs.
THEOREM RefusedIsTooLarge ==
    ASSUME NEW f \in Float32s
    PROVE  isinf_float16(float_to_half(f)) <=> Exponent(f) >= 143
  <1>1. CASE Exponent(f) >= 143
    <2>1. PICK x \in 0 .. 1023 : float_to_half(f) = Sign(f) + 31744 + x
      BY <1>1, TooLarge, SMT
    <2>2. (Sign(f) + 31744 + x) \div 1024 = (IF f < 0 THEN 63 ELSE 31)
      BY SMT DEF Sign
    <2> QED  BY <1>1, <2>1, <2>2, SMT DEF isinf_float16
  <1>2. CASE Exponent(f) < 143
    <2>1. PICK a \in Int : /\ float_to_half(f) = Sign(f) + a
                           /\ 0 <= a /\ a <= 31743
      <3>1. CASE Exponent(f) < 103
        BY <3>1, TooSmall, SignIs, SMT
      <3>2. CASE Exponent(f) \in 103 .. 112
        <4> DEFINE k == Exponent(f) - 103
                   d == Mantissa(f) \div Shl(23 - k)
        <4>1. k \in 0 .. 9 /\ Exponent(f) = 103 + k
          BY <3>2, Fields, SMT
        <4> HIDE DEF k
        <4>2. d \in Int /\ 0 <= d /\ d < Shl(k)
          BY <4>1, Fields, ShiftedIs, SMT
        <4>3. Shl(k) \in Int /\ 1 <= Shl(k) /\ Shl(k) <= 512
          BY <4>1, ShlIs, SMT
        <4>4. float_to_half(f) = Sign(f) + Shl(k) + d
          BY <4>1, BecomesSubnormal, SMT
        <4> HIDE DEF d
        <4>5. Sign(f) + Shl(k) + d = Sign(f) + (Shl(k) + d)
          BY <4>2, <4>3, SignIs, SMT
        <4> QED  BY <4>2, <4>3, <4>4, <4>5, SMT
      <3>3. CASE Exponent(f) \in 113 .. 142
        <4> DEFINE e == Exponent(f) - 112
                   x == Mantissa(f) \div 8192
        <4>1. e \in 1 .. 30 /\ x \in 0 .. 1023
          <5>1. e \in 1 .. 30
            BY <3>3, Fields, SMT
          <5> QED  BY <5>1, MantissaTop, SMT
        <4>2. float_to_half(f) = Sign(f) + e * 1024 + x
          BY <3>3, BecomesNormal, SMT
        <4> HIDE DEF e, x
        <4>3. Sign(f) + e * 1024 + x = Sign(f) + (e * 1024 + x)
          BY <4>1, SignIs, SMT
        <4> QED  BY <4>1, <4>2, <4>3, SMT
      <3> QED  BY <1>2, <3>1, <3>2, <3>3, Fields, SMT
    <2>2. ((Sign(f) + a) \div 1024) % 32 < 31
      BY <2>1, SMT DEF Sign
    <2> QED  BY <1>2, <2>1, <2>2, Fields, SMT DEF isinf_float16
  <1> QED  BY <1>1, <1>2, Fields, SMT

-----------------------------------------------------------------------------
(* And there again.                                                         *)

\* A float32 put together from its fields, with the sign of f.
Assembled(f, e, m) == SignBit(f) + e * 8388608 + m

\* An exponent and a mantissa.
Framed(e, m) == e \in 0 .. 255 /\ m \in Int /\ 0 <= m /\ m <= 8388607

\* It has these fields.
LEMMA FieldsAre ==
    ASSUME NEW f \in Float32s, NEW e, NEW m, Framed(e, m), NEW g, g = Assembled(f, e, m)
    PROVE  g \in Float32s /\ Exponent(g) = e /\ Mantissa(g) = m /\ Sign(g) = Sign(f)
  <1> DEFINE s == IF f < 0 THEN 256 ELSE 0
  <1>0. e \in 0 .. 255 /\ m \in Int /\ 0 <= m /\ m <= 8388607
    BY DEF Framed
  <1>1. g \in Float32s /\ Sign(g) = Sign(f)
    BY <1>0, SMT DEF Assembled, SignBit, Bit31, Float32s, Sign
  <1>2. g = (e - s) * 8388608 + m /\ e - s \in -256 .. 255
    BY <1>0, SMT DEF Assembled, SignBit, Bit31
  <1>3. g \div 8388608 = e - s /\ g % 8388608 = m
    BY <1>0, <1>2, SMT
  <1>4. ((e - s) % 512) % 256 = e
    BY <1>0, SMT
  <1> HIDE DEF s
  <1>5. Exponent(g) = e /\ Mantissa(g) = m
    BY <1>3, <1>4, SMT DEF Exponent, TopBits, Mantissa
  <1> QED  BY <1>1, <1>5, SMT

\* The bits of a mantissa that a subnormal half keeps.
LEMMA KeptIs ==
    ASSUME NEW k \in 0 .. 9, NEW d \in Int, 0 <= d, d < Shl(k)
    PROVE  /\ d * Shl(23 - k) \in Int
           /\ 0 <= d * Shl(23 - k) /\ d * Shl(23 - k) <= 8388607
           /\ (d * Shl(23 - k)) \div Shl(23 - k) = d
  <1>0. CASE k = 0  BY <1>0, ShlIs, SMT
  <1>1. CASE k = 1  BY <1>1, ShlIs, SMT
  <1>2. CASE k = 2  BY <1>2, ShlIs, SMT
  <1>3. CASE k = 3  BY <1>3, ShlIs, SMT
  <1>4. CASE k = 4  BY <1>4, ShlIs, SMT
  <1>5. CASE k = 5  BY <1>5, ShlIs, SMT
  <1>6. CASE k = 6  BY <1>6, ShlIs, SMT
  <1>7. CASE k = 7  BY <1>7, ShlIs, SMT
  <1>8. CASE k = 8  BY <1>8, ShlIs, SMT
  <1>9. CASE k = 9  BY <1>9, ShlIs, SMT
  <1> QED  BY <1>0, <1>1, <1>2, <1>3, <1>4, <1>5, <1>6, <1>7, <1>8, <1>9, SMT

\* A half that was written is the half of the float32 it is read as: reading a
\* document and writing it again changes no half (ujo_element_get_float16 and
\* ujo_writer_add_float16).
THEOREM HalfSurvives ==
    ASSUME NEW f \in Float32s, Exponent(f) < 143
    PROVE  float_to_half(half_to_float(float_to_half(f))) = float_to_half(f)
  <1> DEFINE g == Truncated(f)
  <1>1. half_to_float(float_to_half(f)) = g
    BY HalfTruncates, SMT
  <1>2. CASE Exponent(f) < 103
    <2> DEFINE z == 0
    <2>0. Framed(z, z)
      BY SMT DEF Framed
    <2>1. g = Assembled(f, z, z)
      BY <1>2, SignBitIs, SMT DEF Truncated, Assembled, SignBit, Bit31
    <2> HIDE DEF g, z
    <2>2. g \in Float32s /\ Exponent(g) = z /\ Sign(g) = Sign(f)
      BY <2>0, <2>1, FieldsAre, ZenonT(60)
    <2>3. float_to_half(g) = Sign(g)
      <3>1. Exponent(g) < 103
        BY <2>2, SMT DEF z
      <3> QED  BY <2>2, <3>1, TooSmall, SMT
    <2> QED  BY <1>1, <1>2, <2>2, <2>3, TooSmall, SMT DEF g
  <1>3. CASE Exponent(f) \in 103 .. 112
    <2> DEFINE k == Exponent(f) - 103
               u == Shl(23 - k)
               d == Mantissa(f) \div u
    <2>1. k \in 0 .. 9 /\ Exponent(f) = 103 + k
      BY <1>3, Fields, SMT
    <2> HIDE DEF k
    <2>2. d \in Int /\ 0 <= d /\ d < Shl(k)
      BY <2>1, Fields, ShiftedIs, SMT
    <2>3. float_to_half(f) = Sign(f) + Shl(k) + d
      BY <2>1, BecomesSubnormal, SMT
    <2>4. Mantissa(f) % u = Mantissa(f) - d * u
      BY <2>1, Fields, LostIs, SMT
    <2>5. g = f - (Mantissa(f) % u)
      <3>1. Place(Exponent(f)) = Shl(126 - Exponent(f)) /\ ~(Exponent(f) < 103)
        BY <1>3, SMT DEF Place
      <3>2. Place(Exponent(f)) = u
        BY <2>1, <3>1, SMT
      <3> QED  BY <3>1, <3>2, SMT DEF Truncated
    <2>6. f = SignBit(f) + (103 + k) * 8388608 + Mantissa(f)
      BY <2>1, Fields, SMT DEF SignBit, Bit31
    <2> HIDE DEF d
    <2>7. /\ d * u \in Int /\ 0 <= d * u /\ d * u <= 8388607 /\ (d * u) \div u = d
      BY <2>1, <2>2, KeptIs, SMT
    <2> HIDE DEF u, g
    <2>8. g = Assembled(f, 103 + k, d * u) /\ 103 + k \in 0 .. 255
      BY <2>1, <2>4, <2>5, <2>6, <2>7, Fields, SignBitIs, SMT DEF Assembled
    <2> DEFINE m == d * u
               e == 103 + k
    <2>m. g = Assembled(f, e, m) /\ Framed(e, m)
      BY <2>7, <2>8, SMT DEF Framed
    <2> HIDE DEF m, e
    <2>9. g \in Float32s /\ Exponent(g) = e /\ Mantissa(g) = m /\ Sign(g) = Sign(f)
      BY <2>m, FieldsAre, Zenon
    <2>10. float_to_half(g) = Sign(g) + Shl(k) + (Mantissa(g) \div Shl(23 - k))
      BY <2>1, <2>9, BecomesSubnormal, SMT DEF e
    <2> QED  BY <1>1, <2>3, <2>7, <2>9, <2>10, SMT DEF u, m
  <1>4. CASE Exponent(f) \in 113 .. 142
    <2> DEFINE x == Mantissa(f) \div 8192
    <2>1. x \in 0 .. 1023 /\ Mantissa(f) % 8192 = Mantissa(f) - x * 8192
      BY MantissaTop, SMT
    <2>2. float_to_half(f) = Sign(f) + (Exponent(f) - 112) * 1024 + x
      BY <1>4, BecomesNormal, SMT
    <2>3. g = f - (Mantissa(f) % 8192)
      BY <1>4, SMT DEF Truncated, Place
    <2>4. f = SignBit(f) + Exponent(f) * 8388608 + Mantissa(f)
      BY Fields, SMT DEF SignBit, Bit31
    <2> HIDE DEF x, g
    <2>5. /\ g = Assembled(f, Exponent(f), x * 8192)
          /\ x * 8192 \in Int /\ 0 <= x * 8192 /\ x * 8192 <= 8388607
          /\ (x * 8192) \div 8192 = x
      BY <2>1, <2>3, <2>4, Fields, SignBitIs, SMT DEF Assembled
    <2> DEFINE m == x * 8192
               e == Exponent(f)
    <2>m. g = Assembled(f, e, m) /\ Framed(e, m)
      BY <2>5, Fields, SMT DEF Framed
    <2> HIDE DEF m, e
    <2>6. /\ g \in Float32s /\ Exponent(g) = e /\ Mantissa(g) = m
          /\ Sign(g) = Sign(f)
      BY <2>m, FieldsAre, Zenon
    <2>7. float_to_half(g) = Sign(g) + (Exponent(g) - 112) * 1024 + (Mantissa(g) \div 8192)
      BY <1>4, <2>6, BecomesNormal, SMT DEF e
    <2> QED  BY <1>1, <2>2, <2>5, <2>6, <2>7, SMT DEF e, m
  <1> QED  BY <1>2, <1>3, <1>4, Fields, SMT
=============================================================================
