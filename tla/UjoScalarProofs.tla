-------------------------- MODULE UjoScalarProofs ---------------------------
(***************************************************************************)
(* Numbers cross hosts unchanged, and halves as ujo_float.c promises, for  *)
(* every word and every float32.                                           *)
(***************************************************************************)
EXTENDS UjoScalar, UjoFloat16Proofs, SequenceTheorems

\* A word is a sequence of its octets.
LEMMA WordIs ==
    ASSUME NEW n \in Nat, NEW v \in Words(n)
    PROVE  v \in Seq(Octet) /\ Len(v) = n
  <1>1. v \in [1 .. n -> Octet]
    BY DEF Words
  <1>2. v \in Seq(Octet)
    BY <1>1, SeqDef
  <1>3. DOMAIN v = 1 .. n /\ DOMAIN v = 1 .. Len(v) /\ Len(v) \in Nat
    BY <1>1, <1>2, LenProperties
  <1> QED  BY <1>2, <1>3, SMT

\* The octets of a swapped word lie in memory from the least significant on.
LEMMA Swap16 ==
    ASSUME NEW v \in Words(2), NEW host \in {"LE", "BE"}
    PROVE  /\ Memory(UJO_UINT16_SWAP(v, host), host) = v
           /\ UJO_UINT16_SWAP(Memory(v, host), host) = v
  <1>1. v \in Seq(Octet) /\ Len(v) = 2 /\ v = <<v[1], v[2]>>
    <2>1. v \in Seq(Octet) /\ Len(v) = 2
      BY WordIs
    <2> QED  BY <2>1
  <1>2. Memory(v, host) = UJO_UINT16_SWAP(v, host)
    BY <1>1, SMT DEF Memory, UJO_UINT16_SWAP, ujo_uint16_swap
  <1> QED  BY <1>1, <1>2, SMT DEF Memory, UJO_UINT16_SWAP, ujo_uint16_swap

\* The same for four octets.
LEMMA Swap32 ==
    ASSUME NEW v \in Words(4), NEW host \in {"LE", "BE"}
    PROVE  /\ Memory(UJO_UINT32_SWAP(v, host), host) = v
           /\ UJO_UINT32_SWAP(Memory(v, host), host) = v
  <1>1. v \in Seq(Octet) /\ Len(v) = 4 /\ v = <<v[1], v[2], v[3], v[4]>>
    <2>1. v \in Seq(Octet) /\ Len(v) = 4
      BY WordIs
    <2> QED  BY <2>1
  <1>2. Memory(v, host) = UJO_UINT32_SWAP(v, host)
    BY <1>1, SMT DEF Memory, UJO_UINT32_SWAP, ujo_uint32_swap
  <1> QED  BY <1>1, <1>2, SMT DEF Memory, UJO_UINT32_SWAP, ujo_uint32_swap

\* And for eight.
LEMMA Swap64 ==
    ASSUME NEW v \in Words(8), NEW host \in {"LE", "BE"}
    PROVE  /\ Memory(UJO_UINT64_SWAP(v, host), host) = v
           /\ UJO_UINT64_SWAP(Memory(v, host), host) = v
  <1>1. /\ v \in Seq(Octet) /\ Len(v) = 8
        /\ v = <<v[1], v[2], v[3], v[4], v[5], v[6], v[7], v[8]>>
    <2>1. v \in Seq(Octet) /\ Len(v) = 8
      BY WordIs
    <2> QED  BY <2>1
  <1>2. Memory(v, host) = UJO_UINT64_SWAP(v, host)
    BY <1>1, SMTT(60) DEF Memory, UJO_UINT64_SWAP, ujo_uint64_swap
  <1> QED  BY <1>1, <1>2, SMT DEF Memory, UJO_UINT64_SWAP, ujo_uint64_swap
-----------------------------------------------------------------------------
(* The macros each function uses fit the width of its type.                 *)

\* The type ids differ.
LEMMA TypesAre ==
    /\ 0 \notin ScalarTypes /\ UJO_TYPE_FLOAT16 \in Types16
    /\ Types16 \cap Types32 = {} /\ Types16 \cap Types64 = {} /\ Types32 \cap Types64 = {}
    /\ UJO_TYPE_FLOAT32 \notin Types16 \cup Types32 \cup Types64
    /\ UJO_TYPE_FLOAT64 \notin Types16 \cup Types32 \cup Types64
    /\ UJO_TYPE_FLOAT32 # UJO_TYPE_FLOAT64
  BY DEF ScalarTypes, Types16, Types32, Types64, UJO_TYPE_FLOAT16, UJO_TYPE_FLOAT32,
         UJO_TYPE_FLOAT64, UJO_TYPE_INT16, UJO_TYPE_UINT16, UJO_TYPE_INT32,
         UJO_TYPE_UINT32, UJO_TYPE_INT64, UJO_TYPE_UINT64, UJO_TYPE_UX_TIME

\* What a writer puts is the word, and what a reader takes from it as well.
LEMMA SwapsCancel ==
    ASSUME NEW t \in ScalarTypes, NEW v \in Words(Width(t)),
           whost \in {"LE", "BE"}, rhost \in {"LE", "BE"}
    PROVE  /\ Memory(WriterSwap(t, v), whost) = v
           /\ ReaderSwap(t, Memory(v, rhost)) = v
  <1>1. CASE t \in Types16
    <2>1. Width(t) = 2
      BY <1>1, TypesAre DEF Width
    <2> QED  BY <1>1, <2>1, Swap16, TypesAre DEF WriterSwap, ReaderSwap
  <1>2. CASE t \in Types32
    <2>1. Width(t) = 4
      BY <1>2, TypesAre DEF Width
    <2> QED  BY <1>2, <2>1, Swap32, TypesAre DEF WriterSwap, ReaderSwap
  <1>3. CASE t \in Types64
    <2>1. Width(t) = 8
      BY <1>3, TypesAre DEF Width
    <2> QED  BY <1>3, <2>1, Swap64, TypesAre DEF WriterSwap, ReaderSwap
  <1>4. CASE t = UJO_TYPE_FLOAT32
    <2>1. Width(t) = 4
      BY <1>4, TypesAre DEF Width
    <2>2. /\ WriterSwap(t, v) = UJO_UINT32_SWAP(v, whost)
          /\ ReaderSwap(t, Memory(v, rhost)) = UJO_UINT32_SWAP(Memory(v, rhost), rhost)
      BY <1>4, TypesAre
         DEF WriterSwap, ReaderSwap, UJO_FLOAT32_SWAP, UJO_UINT32_SWAP, ujo_float32_swap
    <2> QED  BY <2>1, <2>2, Swap32
  <1>5. CASE t = UJO_TYPE_FLOAT64
    <2>1. Width(t) = 8
      BY <1>5, TypesAre DEF Width
    <2>2. /\ WriterSwap(t, v) = UJO_UINT64_SWAP(v, whost)
          /\ ReaderSwap(t, Memory(v, rhost)) = UJO_UINT64_SWAP(Memory(v, rhost), rhost)
      BY <1>5, TypesAre
         DEF WriterSwap, ReaderSwap, UJO_FLOAT64_SWAP, UJO_UINT64_SWAP, ujo_float64_swap
    <2> QED  BY <2>1, <2>2, Swap64
  <1> QED  BY <1>1, <1>2, <1>3, <1>4, <1>5 DEF ScalarTypes

\* The word of a half, and the half of the word.
LEMMA HalfWordIs ==
    ASSUME NEW h \in Int, 0 <= h, h <= 65535
    PROVE  /\ HalfWord(h) \in Words(Width(UJO_TYPE_FLOAT16))
           /\ WordHalf(HalfWord(h)) = h
  <1>1. Width(UJO_TYPE_FLOAT16) = 2
    BY TypesAre DEF Width
  <1>2. h % 256 \in 0 .. 255 /\ h \div 256 \in 0 .. 255
    BY SMT
  <1>3. (h % 256) + 256 * (h \div 256) = h
    BY SMT
  <1>4. HalfWord(h) \in Words(2)
    <2> DEFINE a == h % 256
               b == h \div 256
    <2>1. a \in Octet /\ b \in Octet
      BY <1>2, SMT DEF Octet
    <2>2. HalfWord(h) = <<a, b>>
      BY SMT DEF HalfWord
    <2> HIDE DEF a, b
    <2>3. <<a, b>> \in Seq(Octet) /\ Len(<<a, b>>) = 2
      BY <2>1, SMT
    <2> QED  BY <2>2, <2>3 DEF Words
  <1> QED  BY <1>1, <1>3, <1>4, SMT DEF HalfWord, WordHalf
-----------------------------------------------------------------------------
(* The invariant.                                                           *)

\* What is in the document of a float16 before it is read.
HalfStored ==
    kind = UJO_TYPE_FLOAT16 =>
        /\ code = UJO_SUCCESS <=> Exponent(float) < 143
        /\ word # <<>> => /\ code = UJO_SUCCESS
                          /\ word = HalfWord(float_to_half(float))

\* HalfExact speaks of the word read; it is inductive with the word stored.
SInv == ScalarTypeOK /\ HostsAgree /\ HalfStored /\ (kind = 0 => word = <<>>)

\* A half that is finite is one whose exponent is not all ones.
LEMMA FiniteIs ==
    ASSUME NEW f \in Float32s
    PROVE  ~isnan_float16(float_to_half(f)) /\ ~isinf_float16(float_to_half(f))
             <=> Exponent(f) < 143
  <1>1. isnan_float16(float_to_half(f)) => isinf_float16(float_to_half(f))
    BY DEF isnan_float16, isinf_float16
  <1>2. Exponent(f) < 143 <=> ~(Exponent(f) >= 143)
    BY Fields, SMT
  <1> QED  BY <1>1, <1>2, RefusedIsTooLarge

\* The two codes of ujo_writer_add_float16.
LEMMA CodesDiffer == UJO_SUCCESS # UJO_ERR_INVALID_DATA
  BY DEF UJO_SUCCESS, UJO_ERR_INVALID_DATA

\* Before anything is written.
LEMMA SInitKeeps == SInit => SInv
  <1> SUFFICES ASSUME SInit PROVE SInv
    OBVIOUS
  <1>1. 0 \in Float32s
    BY SMT DEF Float32s, Bit31
  <1>2. 0 # UJO_TYPE_FLOAT16
    BY DEF UJO_TYPE_FLOAT16
  <1> QED  BY <1>1, <1>2 DEF SInit, SInv, ScalarTypeOK, HostsAgree, HalfStored

\* A put of a word leaves the word itself on the wire.
LEMMA PutKeeps ==
    ASSUME SInv, kind = 0, NEW t \in ScalarTypes, NEW v \in Words(Width(t)), Put(t, v),
           float' \in Float32s,
           t = UJO_TYPE_FLOAT16 => /\ Exponent(float') < 143
                                   /\ v = HalfWord(float_to_half(float'))
    PROVE  SInv'
  <1>1. wire' = v /\ word' = v /\ kind' = t /\ code' = UJO_SUCCESS
    BY SwapsCancel DEF Put, SInv, ScalarTypeOK
  <1>2. read' = <<>> /\ whost' = whost /\ rhost' = rhost
    BY DEF Put, SInv, HostsAgree
  <1>3. ScalarTypeOK'
    BY <1>1, <1>2 DEF SInv, ScalarTypeOK
  <1>4. HostsAgree' /\ HalfStored'
    BY <1>1, <1>2 DEF HostsAgree, HalfStored
  <1> QED  BY <1>1, <1>3, <1>4, TypesAre DEF SInv

\* A float16, put or refused.
LEMMA AddFloat16Keeps ==
    ASSUME SInv, kind = 0, NEW f \in Float32s, ujo_writer_add_float16(f)
    PROVE  SInv'
  <1> DEFINE h == float_to_half(f)
  <1>1. float' = f
    BY DEF ujo_writer_add_float16
  <1>2. CASE /\ isnan_float16(h) \/ isinf_float16(h)
             /\ code' = UJO_ERR_INVALID_DATA
             /\ kind' = UJO_TYPE_FLOAT16
             /\ UNCHANGED <<whost, rhost, word, wire, read>>
    <2>1. word' = <<>> /\ wire' = <<>> /\ read' = <<>>
      BY <1>2 DEF SInv, HostsAgree
    <2>2. ScalarTypeOK'
      BY <1>1, <1>2, <2>1 DEF SInv, ScalarTypeOK, ScalarTypes, Types16
    <2>3. HalfStored'
      BY <1>1, <1>2, <2>1, FiniteIs, CodesDiffer DEF HalfStored
    <2> QED  BY <2>1, <2>2, <2>3 DEF SInv, HostsAgree
  <1>3. CASE /\ ~isnan_float16(h) /\ ~isinf_float16(h)
             /\ Put(UJO_TYPE_FLOAT16, HalfWord(h))
    <2>1. Exponent(f) < 143
      BY <1>3, FiniteIs
    <2>2. HalfWord(h) \in Words(Width(UJO_TYPE_FLOAT16))
      BY FloatToHalfIs, HalfWordIs, SMT
    <2>3. UJO_TYPE_FLOAT16 \in ScalarTypes
      BY DEF ScalarTypes, Types16
    <2> QED  BY <1>1, <1>3, <2>1, <2>2, <2>3, PutKeeps
  <1> QED  BY <1>2, <1>3 DEF ujo_writer_add_float16

\* Any other number.
LEMMA AddWordKeeps ==
    ASSUME SInv, kind = 0, NEW t \in ScalarTypes \ {UJO_TYPE_FLOAT16}, AddWord(t)
    PROVE  SInv'
  <1>1. PICK v \in [1 .. Width(t) -> Digits] : Put(t, v)
    BY DEF AddWord
  <1>2. v \in Words(Width(t))
    BY ScalarAssumption DEF Words
  <1>3. float' \in Float32s
    BY DEF AddWord, SInv, ScalarTypeOK
  <1> QED  BY <1>1, <1>2, <1>3, PutKeeps

\* The reader takes the word from the wire.
LEMMA ParseKeeps ==
    ASSUME SInv, ParseWord
    PROVE  SInv'
  <1>1. wire = word /\ word # <<>>
    BY DEF SInv, HostsAgree, ParseWord
  <1>2. kind \in ScalarTypes /\ wire \in Words(Width(kind))
    BY <1>1 DEF SInv, ScalarTypeOK
  <1>3. read' = wire
    BY <1>2, SwapsCancel DEF ParseWord, SInv, ScalarTypeOK
  <1>4. UNCHANGED <<whost, rhost, kind, float, code, word, wire>>
    BY DEF ParseWord
  <1>5. ScalarTypeOK'
    BY <1>2, <1>3, <1>4 DEF SInv, ScalarTypeOK
  <1>6. HostsAgree' /\ HalfStored'
    BY <1>1, <1>3, <1>4 DEF SInv, HostsAgree, HalfStored
  <1> QED  BY <1>4, <1>5, <1>6 DEF SInv

\* Every step keeps the invariant.
LEMMA SNextKeeps == SInv /\ [SNext]_svars => SInv'
  <1> SUFFICES ASSUME SInv, [SNext]_svars PROVE SInv'
    OBVIOUS
  <1>1. ASSUME kind = 0, NEW f \in Floats, ujo_writer_add_float16(f)
        PROVE  SInv'
    BY <1>1, AddFloat16Keeps DEF Floats
  <1>2. ASSUME kind = 0, NEW t \in ScalarTypes \ {UJO_TYPE_FLOAT16}, AddWord(t)
        PROVE  SInv'
    BY <1>2, AddWordKeeps
  <1>3. CASE ParseWord
    BY <1>3, ParseKeeps
  <1>4. CASE UNCHANGED svars
    BY <1>4 DEF svars, SInv, ScalarTypeOK, HostsAgree, HalfStored
  <1> QED  BY <1>1, <1>2, <1>3, <1>4 DEF SNext

-----------------------------------------------------------------------------
\* The word, its octets and the word read have the width of the type of the
\* number, whichever function writes it (the types of ujo_types.h).
THEOREM ScalarTypeCorrect == SSpec => []ScalarTypeOK
  <1>1. SInv => ScalarTypeOK
    BY DEF SInv
  <1> QED  BY <1>1, SInitKeeps, SNextKeeps, PTL DEF SSpec

\* The octets of a number are the same from every host, and every host reads
\* the number they were written from, whatever the number and its type (the
\* swap macros of ujo_endian.h in the add and parse functions).
THEOREM HostsAlwaysAgree == SSpec => []HostsAgree
  <1>1. SInv => HostsAgree
    BY DEF SInv
  <1> QED  BY <1>1, SInitKeeps, SNextKeeps, PTL DEF SSpec

\* Every one of the 2^32 float32 arguments of ujo_writer_add_float16 is refused
\* or arrives with exactly the bits cleared that a half cannot hold, from any
\* host to any host (the tables of ujo_float.c).
THEOREM HalvesExact == SSpec => []HalfExact
  <1>1. SInv => HalfExact
    <2> SUFFICES ASSUME SInv, kind = UJO_TYPE_FLOAT16 PROVE
            /\ code = UJO_SUCCESS <=> Exponent(float) < 143
            /\ read # <<>> => ujo_element_get_float16 = Truncated(float)
      BY DEF HalfExact
    <2>1. code = UJO_SUCCESS <=> Exponent(float) < 143
      BY DEF SInv, HalfStored
    <2>2. ASSUME read # <<>> PROVE ujo_element_get_float16 = Truncated(float)
      <3>1. read = HalfWord(float_to_half(float)) /\ Exponent(float) < 143
        BY <2>1, <2>2 DEF SInv, HostsAgree, HalfStored
      <3>2. float \in Float32s
        BY DEF SInv, ScalarTypeOK
      <3>3. WordHalf(read) = float_to_half(float)
        BY <3>1, <3>2, FloatToHalfIs, HalfWordIs, SMT
      <3> QED  BY <3>1, <3>2, <3>3, HalfTruncates DEF ujo_element_get_float16
    <2> QED  BY <2>1, <2>2
  <1> QED  BY <1>1, SInitKeeps, SNextKeeps, PTL DEF SSpec
=============================================================================
