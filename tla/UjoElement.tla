----------------------------- MODULE UjoElement -----------------------------
(***************************************************************************)
(* The accessors ujo_element_get_* of ujo_reader.c.  The handle is what    *)
(* the reader returned: the empty sequence for NULL, or one element.  The  *)
(* members of an element share a union: only the check of the type, and of *)
(* the subtype of a string, keeps one from being read as another.          *)
(***************************************************************************)
EXTENDS UjoConstants, UjoFloat16, Sequences

Refused == [code |-> UJO_ERR_INVALID_DATA, value |-> {}]

Retrieve(h, t) ==
    IF h # <<>> /\ h[1].type = t
    THEN [code |-> UJO_SUCCESS, value |-> h[1].data]
    ELSE Refused

\* Mutant: the subtype is not looked at.
RetrieveAnyString(h, sub) == Retrieve(h, UJO_TYPE_STRING)

RetrieveString(h, sub) ==
    IF h # <<>> /\ h[1].type = UJO_TYPE_STRING /\ <<"type", sub>> \in h[1].data
    THEN [code |-> UJO_SUCCESS, value |-> h[1].data]
    ELSE Refused

ujo_element_get_int8(h)      == Retrieve(h, UJO_TYPE_INT8)
ujo_element_get_int16(h)     == Retrieve(h, UJO_TYPE_INT16)
ujo_element_get_int32(h)     == Retrieve(h, UJO_TYPE_INT32)
ujo_element_get_int64(h)     == Retrieve(h, UJO_TYPE_INT64)
ujo_element_get_uint8(h)     == Retrieve(h, UJO_TYPE_UINT8)
ujo_element_get_uint16(h)    == Retrieve(h, UJO_TYPE_UINT16)
ujo_element_get_uint32(h)    == Retrieve(h, UJO_TYPE_UINT32)
ujo_element_get_uint64(h)    == Retrieve(h, UJO_TYPE_UINT64)
ujo_element_get_float32(h)   == Retrieve(h, UJO_TYPE_FLOAT32)
ujo_element_get_float64(h)   == Retrieve(h, UJO_TYPE_FLOAT64)
ujo_element_get_bool(h)      == Retrieve(h, UJO_TYPE_BOOL)
ujo_element_get_uxtime(h)    == Retrieve(h, UJO_TYPE_UX_TIME)
ujo_element_get_date(h)      == Retrieve(h, UJO_TYPE_DATE)
ujo_element_get_time(h)      == Retrieve(h, UJO_TYPE_TIME)
ujo_element_get_timestamp(h) == Retrieve(h, UJO_TYPE_TIMESTAMP)
ujo_element_get_binary(h)    == Retrieve(h, UJO_TYPE_BIN)

ujo_element_get_float16(h) ==
    LET r == Retrieve(h, UJO_TYPE_FLOAT16)
    IN  [r EXCEPT !.value = { <<m[1], half_to_float(m[2])>> : m \in @ }]

ujo_element_get_string_c(h)   == RetrieveString(h, UJO_SUB_STRING_C)
ujo_element_get_string_u8(h)  == RetrieveString(h, UJO_SUB_STRING_U8)
ujo_element_get_string_u16(h) == RetrieveString(h, UJO_SUB_STRING_U16)
ujo_element_get_string_u32(h) == RetrieveString(h, UJO_SUB_STRING_U32)

ujo_element_get_string_type(h) ==
    LET r == Retrieve(h, UJO_TYPE_STRING)
    IN  [r EXCEPT !.value = { m \in @ : m[1] = "type" }]

ujo_element_get_type(h) ==
    IF h = <<>> THEN Refused
    ELSE [code |-> UJO_SUCCESS, value |-> {<<"type", h[1].type>>}]

\* The answers of all accessors of values.
Answers(h) ==
    [int8       |-> ujo_element_get_int8(h),       int16      |-> ujo_element_get_int16(h),
     int32      |-> ujo_element_get_int32(h),      int64      |-> ujo_element_get_int64(h),
     uint8      |-> ujo_element_get_uint8(h),      uint16     |-> ujo_element_get_uint16(h),
     uint32     |-> ujo_element_get_uint32(h),     uint64     |-> ujo_element_get_uint64(h),
     float16    |-> ujo_element_get_float16(h),    float32    |-> ujo_element_get_float32(h),
     float64    |-> ujo_element_get_float64(h),    bool       |-> ujo_element_get_bool(h),
     uxtime     |-> ujo_element_get_uxtime(h),     date       |-> ujo_element_get_date(h),
     time       |-> ujo_element_get_time(h),       timestamp  |-> ujo_element_get_timestamp(h),
     binary     |-> ujo_element_get_binary(h),     string_c   |-> ujo_element_get_string_c(h),
     string_u8  |-> ujo_element_get_string_u8(h),  string_u16 |-> ujo_element_get_string_u16(h),
     string_u32 |-> ujo_element_get_string_u32(h)]
=============================================================================
