------------------------------ MODULE UjoScalar ------------------------------
(***************************************************************************)
(* One number on its way from an application through the octets of a       *)
(* document to another application, the two on hosts of any byte order:    *)
(* what UjoWriter and UjoReader take for granted of a "Little" chunk and   *)
(* of a half.                                                              *)
(***************************************************************************)
EXTENDS UjoConstants, UjoFloat16, UjoEndian

CONSTANTS Samples,   \* the halves around which float16 arguments are taken
          Offsets,   \* their distances from them, in units of a float32
          Digits     \* octets of the other words

ASSUME ScalarAssumption ==
    Samples \subseteq Halves16 /\ Offsets \subseteq Int /\ Digits \subseteq Octet

VARIABLES whost, rhost,  \* byte orders of the writing and the reading host
          kind,          \* the type id of the number, 0 before there is one
          float,         \* the argument of ujo_writer_add_float16
          code,          \* what the add function returned
          word,          \* the word it swaps and puts
          wire,          \* its octets in the document
          read           \* the word the reader has in the element

svars == <<whost, rhost, kind, float, code, word, wire, read>>

Types16 == {UJO_TYPE_INT16, UJO_TYPE_UINT16, UJO_TYPE_FLOAT16}
Types32 == {UJO_TYPE_INT32, UJO_TYPE_UINT32}
Types64 == {UJO_TYPE_INT64, UJO_TYPE_UINT64, UJO_TYPE_UX_TIME}

ScalarTypes == Types16 \cup Types32 \cup Types64 \cup {UJO_TYPE_FLOAT32, UJO_TYPE_FLOAT64}

Width(t) ==
    CASE t \in Types16                      -> 2
      [] t \in Types32 \cup {UJO_TYPE_FLOAT32} -> 4
      [] t \in Types64 \cup {UJO_TYPE_FLOAT64} -> 8

\* The macro of each add function, and of each parse function.
WriterSwap(t, v) ==
    CASE t \in Types16        -> UJO_UINT16_SWAP(v, whost)
      [] t \in Types32        -> UJO_UINT32_SWAP(v, whost)
      [] t \in Types64        -> UJO_UINT64_SWAP(v, whost)
      [] t = UJO_TYPE_FLOAT32 -> UJO_FLOAT32_SWAP(v, whost)
      [] t = UJO_TYPE_FLOAT64 -> UJO_FLOAT64_SWAP(v, whost)

\* Mutant: a float is taken as it comes.
ReaderSwapInts(t, v) ==
    CASE t \in Types16 -> UJO_UINT16_SWAP(v, rhost)
      [] t \in Types32 -> UJO_UINT32_SWAP(v, rhost)
      [] t \in Types64 -> UJO_UINT64_SWAP(v, rhost)
      [] OTHER         -> v

ReaderSwap(t, v) ==
    CASE t \in Types16        -> UJO_UINT16_SWAP(v, rhost)
      [] t \in Types32        -> UJO_UINT32_SWAP(v, rhost)
      [] t \in Types64        -> UJO_UINT64_SWAP(v, rhost)
      [] t = UJO_TYPE_FLOAT32 -> UJO_FLOAT32_SWAP(v, rhost)
      [] t = UJO_TYPE_FLOAT64 -> UJO_FLOAT64_SWAP(v, rhost)

\* A half as a word, and back.
HalfWord(h) == <<h % 256, h \div 256>>
WordHalf(w) == w[1] + 256 * w[2]

Put(t, v) ==
    /\ kind' = t /\ word' = v
    /\ wire' = Memory(WriterSwap(t, v), whost)
    /\ code' = UJO_SUCCESS
    /\ UNCHANGED <<whost, rhost, read>>

ujo_writer_add_float16(f) ==
    LET h == float_to_half(f)
    IN  /\ float' = f
        /\ \/ /\ isnan_float16(h) \/ isinf_float16(h)
              /\ code' = UJO_ERR_INVALID_DATA
              /\ kind' = UJO_TYPE_FLOAT16
              /\ UNCHANGED <<whost, rhost, word, wire, read>>
           \/ /\ ~isnan_float16(h) /\ ~isinf_float16(h)
              /\ Put(UJO_TYPE_FLOAT16, HalfWord(h))

\* The other add functions of two, four and eight octets.
AddWord(t) ==
    /\ \E v \in [1 .. Width(t) -> Digits] : Put(t, v)
    /\ UNCHANGED float

\* The parse functions.
ParseWord ==
    /\ wire # <<>> /\ read = <<>>
    /\ read' = ReaderSwap(kind, Memory(wire, rhost))
    /\ UNCHANGED <<whost, rhost, kind, float, code, word, wire>>

ujo_element_get_float16 == half_to_float(WordHalf(read))

SInit ==
    /\ whost \in {"LE", "BE"} /\ rhost \in {"LE", "BE"}
    /\ kind = 0 /\ float = 0 /\ code = UJO_SUCCESS
    /\ word = <<>> /\ wire = <<>> /\ read = <<>>

Floats == { half_to_float(h) + d : h \in Samples, d \in Offsets } \cap Float32s

SNext ==
    \/ /\ kind = 0
       /\ \/ \E f \in Floats : ujo_writer_add_float16(f)
          \/ \E t \in ScalarTypes \ {UJO_TYPE_FLOAT16} : AddWord(t)
    \/ ParseWord

SSpec == SInit /\ [][SNext]_svars

-----------------------------------------------------------------------------
\* The word, its octets and the word read have the width of the type of the
\* number (the sizeof of each put and get), and a refusal is UJO_ERR_INVALID_DATA.
ScalarTypeOK ==
    /\ whost \in {"LE", "BE"} /\ rhost \in {"LE", "BE"}
    /\ kind \in ScalarTypes \cup {0}
    /\ float \in Float32s
    /\ code \in {UJO_SUCCESS, UJO_ERR_INVALID_DATA}
    /\ \A w \in {word, wire, read} : w = <<>> \/ w \in Words(Width(kind))

\* The octets of a document do not depend on the host that wrote it, and a
\* reader on any host finds the number written: the octets go from the least
\* to the most significant (the swap macros of the add and parse functions).
HostsAgree ==
    /\ wire = word
    /\ read # <<>> => read = word

\* A float16 is refused exactly when it is not finite or its magnitude is 65536
\* or more.  Otherwise the application at the other end gets the argument with
\* the bits cleared that a half cannot hold: the next half towards zero with
\* its sign, and a half itself unchanged (the tables of ujo_float.c,
\* ujo_writer_add_float16 and ujo_element_get_float16).
HalfExact ==
    kind = UJO_TYPE_FLOAT16 =>
        /\ code = UJO_SUCCESS <=> Exponent(float) < 143
        /\ read # <<>> => ujo_element_get_float16 = Truncated(float)
=============================================================================
