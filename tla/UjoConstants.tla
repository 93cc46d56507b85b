---------------------------- MODULE UjoConstants ----------------------------
(***************************************************************************)
(* The tag bytes, subtypes and error codes of the UJO format, with the     *)
(* numbers of ujo_constants.h and ujo_errors.h.                            *)
(***************************************************************************)
EXTENDS Naturals

UJO_MAGIC         == 95      \* "_UJO", named by its first byte 0x5f
UJO_DATA_VERSION  == 1
UJO_COMPRESS_NONE == 0
UJO_TERMINATOR    == 0

UJO_TYPE_FLOAT64   == 1
UJO_TYPE_FLOAT32   == 2
UJO_TYPE_FLOAT16   == 3
UJO_TYPE_STRING    == 4
UJO_TYPE_INT64     == 5
UJO_TYPE_INT32     == 6
UJO_TYPE_INT16     == 7
UJO_TYPE_INT8      == 8
UJO_TYPE_UINT64    == 9
UJO_TYPE_UINT32    == 10
UJO_TYPE_UINT16    == 11
UJO_TYPE_UINT8     == 12
UJO_TYPE_BOOL      == 13
UJO_TYPE_BIN       == 14
UJO_TYPE_NONE      == 15
UJO_TYPE_UX_TIME   == 16
UJO_TYPE_DATE      == 17
UJO_TYPE_TIME      == 18
UJO_TYPE_TIMESTAMP == 19
UJO_TYPE_LIST      == 48
UJO_TYPE_MAP       == 49
UJO_TYPE_TABLE     == 50

UJO_SUB_STRING_C   == 0
UJO_SUB_STRING_U8  == 1
UJO_SUB_STRING_U16 == 2
UJO_SUB_STRING_U32 == 3

UJO_SUCCESS            == 0
UJO_ERR_ALLOCATION     == 5502
UJO_ERR_INVALID_DATA   == 5503
UJO_ERR_TYPE_MISPLACED == 5504
UJO_ERR_INVALID_OBJECT == 5505
UJO_ERR_FILE           == 5507

UjoErrors == {UJO_SUCCESS, UJO_ERR_ALLOCATION, UJO_ERR_INVALID_DATA,
              UJO_ERR_TYPE_MISPLACED, UJO_ERR_INVALID_OBJECT, UJO_ERR_FILE}

ContainerTypes == {UJO_TYPE_LIST, UJO_TYPE_MAP, UJO_TYPE_TABLE}

AtomicTypes == UJO_TYPE_FLOAT64 .. UJO_TYPE_TIMESTAMP
=============================================================================
