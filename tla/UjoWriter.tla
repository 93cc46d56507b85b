------------------------------ MODULE UjoWriter ------------------------------
(***************************************************************************)
(* The writer object of ujo_writer.c and the calls an application makes on *)
(* it, one action per function.  What a call sends to its destination is a *)
(* sequence of chunks, one for each _ujo_writer_put; a put may fail, and   *)
(* the action follows the handler's error path from there.                 *)
(***************************************************************************)
EXTENDS UjoConstants, UjoState, UjoFloat16

CONSTANTS Destinations,  \* subset of {"FILE", "MEMORY"}
          Types,         \* type ids the application writes, containers included
          Strings,       \* the string subtypes it writes
          Nulls,         \* type ids it passes to ujo_writer_add_null
          Values,        \* integers it writes
          Floats,        \* float32 arguments of ujo_writer_add_float16
          Units,         \* lengths of its strings and binaries
          Mod32,         \* 2^32, the numbers a uint32_t can hold
          Host,          \* byte order of the machine, "LE" or "BE"
          Faults,        \* subset of {"put", "push"}: what may fail
          MaxElements,   \* bound on the accepted calls
          MaxDepth,      \* bound on open containers
          MaxFaults      \* bound on failing puts

ASSUME WriterAssumption ==
    /\ Destinations \subseteq {"FILE", "MEMORY"}
    /\ Types \subseteq AtomicTypes \cup ContainerTypes
    /\ Strings \subseteq UJO_SUB_STRING_C .. UJO_SUB_STRING_U32
    /\ Nulls \subseteq 0 .. 255
    /\ Values \subseteq Nat /\ Floats \subseteq Float32s
    /\ Units \subseteq Nat /\ Mod32 \in Nat \ {0}
    /\ Host \in {"LE", "BE"}
    /\ Faults \subseteq {"put", "push"}
    /\ MaxElements \in Nat /\ MaxDepth \in Nat /\ MaxFaults \in Nat

VARIABLES wtype,     \* w->type: where the octets go
          doc,       \* w->state and w->state_stack
          wire,      \* the chunks the destination holds
          ret,       \* the code the last call returned
          acked,     \* the elements whose calls returned UJO_SUCCESS
          reported,  \* whether a call returned the error of a failed put
          faults,    \* the puts that failed
          freed      \* whether ujo_free_writer was called

wvars == <<wtype, doc, wire, ret, acked, reported, faults, freed>>

-----------------------------------------------------------------------------
(* Chunks: a value, its number of octets, and the order of the octets.  The *)
(* swap macros yield little endian on every host; a variable put as it lies *)
(* in memory keeps the order of the host.  A torn chunk is what a short     *)
(* fwrite leaves.                                                           *)

Chunks == [val : Nat, size : Nat, order : {"LE", "BE", "torn"}]

Little(v, n) == [val |-> v, size |-> n, order |-> "LE"]
Native(v, n) == [val |-> v, size |-> n, order |-> Host]
Byte(v)      == Little(v, 1)

\* A block of n octets; a put of none leaves nothing and cannot fail.
Block(chunk) == IF chunk.size = 0 THEN <<>> ELSE <<chunk>>

Header == <<Little(UJO_MAGIC, 4), Little(UJO_DATA_VERSION, 2), Byte(UJO_COMPRESS_NONE)>>

\* An element as the application knows it: its type id and the members of
\* its value, each with its name.
Element(t, data) == [type |-> t, data |-> data]

Members == {"value", "year", "month", "day", "hour", "minute", "second",
            "millisecond", "type", "n", "octets", "null"}

Elements == [type : 0 .. 255, data : SUBSET (Members \X Nat)]

-----------------------------------------------------------------------------
(* _ujo_writer_put and the shape all handlers share.                        *)

PutError == IF wtype = "FILE" THEN UJO_ERR_FILE ELSE UJO_ERR_ALLOCATION

\* Whether the stack array may grow when a push needs it.
Grow == IF "push" \in Faults THEN BOOLEAN ELSE {TRUE}

Reject(code) ==
    /\ ret' = code
    /\ UNCHANGED <<wtype, doc, wire, acked, reported, faults, freed>>

\* Put k fails: the chunks before it are there and, in a file, the s octets
\* of it that fwrite could write.
PutFails(chunks) ==
    /\ "put" \in Faults /\ faults < MaxFaults
    /\ faults' = faults + 1
    /\ \E k \in 1 .. Len(chunks) :
         \/ wire' = wire \o SubSeq(chunks, 1, k - 1)
         \/ /\ wtype = "FILE"
            /\ \E s \in 1 .. chunks[k].size - 1 :
                 wire' = wire \o SubSeq(chunks, 1, k - 1)
                              \o <<[chunks[k] EXCEPT !.size = s, !.order = "torn"]>>

\* Mutant: the result of fwrite is not compared with the number of octets.
PutOkUnchecked(chunks) ==
    PutFails(chunks) \/ (wire' = wire \o chunks /\ UNCHANGED faults)

PutOk(chunks) == wire' = wire \o chunks /\ UNCHANGED faults

\* Every put of the handler succeeds and the machine is left as done, or one
\* fails, its error is returned and the machine is left as failed.
Perform(chunks, e, done, failed) ==
    /\ UNCHANGED <<wtype, freed>>
    /\ \/ /\ PutOk(chunks)
          /\ doc' = done
          /\ ret' = UJO_SUCCESS
          /\ acked' = Append(acked, e)
          /\ UNCHANGED reported
       \/ /\ PutFails(chunks)
          /\ doc' = failed
          /\ ret' = PutError
          /\ reported' = TRUE
          /\ UNCHANGED acked

\* The application still has the writer, and no call has dereferenced the
\* NULL of an empty stack.
Usable == ~freed /\ doc.cur.state # "NULL"

-----------------------------------------------------------------------------
(* Values.                                                                  *)

\* The state moves on only after the last put: a failing add leaves it alone.
Add(e, event, chunks) ==
    /\ Len(acked) < MaxElements
    /\ \E grow \in Grow : Perform(chunks, e, ujo_state_switch(event, doc, grow), doc)

AddAtomic(t, chunks, data) ==
    /\ Usable /\ t \in Types
    /\ \/ ~ujo_state_allow_atomic(doc.cur.state) /\ Reject(UJO_ERR_TYPE_MISPLACED)
       \/ /\ ujo_state_allow_atomic(doc.cur.state)
          /\ Add(Element(t, data), "ATOMIC_FOUND", <<Byte(t)>> \o chunks)

Scalar(t, x, n) == AddAtomic(t, <<Little(x, n)>>, {<<"value", x>>})

ujo_writer_add_int64(x)   == Scalar(UJO_TYPE_INT64, x, 8)
ujo_writer_add_int32(x)   == Scalar(UJO_TYPE_INT32, x, 4)
ujo_writer_add_int16(x)   == Scalar(UJO_TYPE_INT16, x, 2)
ujo_writer_add_int8(x)    == Scalar(UJO_TYPE_INT8, x, 1)
ujo_writer_add_uint64(x)  == Scalar(UJO_TYPE_UINT64, x, 8)
ujo_writer_add_uint32(x)  == Scalar(UJO_TYPE_UINT32, x, 4)
ujo_writer_add_uint16(x)  == Scalar(UJO_TYPE_UINT16, x, 2)
ujo_writer_add_uint8(x)   == Scalar(UJO_TYPE_UINT8, x, 1)
ujo_writer_add_float32(x) == Scalar(UJO_TYPE_FLOAT32, x, 4)
ujo_writer_add_float64(x) == Scalar(UJO_TYPE_FLOAT64, x, 8)
ujo_writer_add_bool(x)    == Scalar(UJO_TYPE_BOOL, x, 1)
ujo_writer_add_uxtime(x)  == Scalar(UJO_TYPE_UX_TIME, x, 8)
ujo_writer_add_none       == AddAtomic(UJO_TYPE_NONE, <<>>, {})

Finite(h) == ~isnan_float16(h) /\ ~isinf_float16(h)

\* The state is checked before the value.
ujo_writer_add_float16(f) ==
    LET h == float_to_half(f)
    IN  \/ /\ Usable /\ UJO_TYPE_FLOAT16 \in Types
           /\ ujo_state_allow_atomic(doc.cur.state)
           /\ ~Finite(h)
           /\ Reject(UJO_ERR_INVALID_DATA)
        \/ /\ Finite(h) \/ ~ujo_state_allow_atomic(doc.cur.state)
           /\ Scalar(UJO_TYPE_FLOAT16, h, 2)

ujo_writer_add_date(d) ==
    AddAtomic(UJO_TYPE_DATE, <<Little(d.year, 2), Byte(d.month), Byte(d.day)>>,
              {<<"year", d.year>>, <<"month", d.month>>, <<"day", d.day>>})

ujo_writer_add_time(d) ==
    AddAtomic(UJO_TYPE_TIME, <<Byte(d.hour), Byte(d.minute), Byte(d.second)>>,
              {<<"hour", d.hour>>, <<"minute", d.minute>>, <<"second", d.second>>})

ujo_writer_add_timestamp(d) ==
    AddAtomic(UJO_TYPE_TIMESTAMP,
              <<Little(d.year, 2), Byte(d.month), Byte(d.day), Byte(d.hour),
                Byte(d.minute), Byte(d.second), Little(d.millisecond, 2)>>,
              {<<"year", d.year>>, <<"month", d.month>>, <<"day", d.day>>,
               <<"hour", d.hour>>, <<"minute", d.minute>>, <<"second", d.second>>,
               <<"millisecond", d.millisecond>>})

\* A null is one octet, type & 0x80.  The element keeps the type of the call.
ujo_writer_add_null(t) ==
    /\ Usable
    /\ \/ ~ujo_state_allow_atomic(doc.cur.state) /\ Reject(UJO_ERR_TYPE_MISPLACED)
       \/ /\ ujo_state_allow_atomic(doc.cur.state)
          /\ Add(Element(t, {<<"null", 1>>}), "ATOMIC_FOUND",
                 <<Byte(IF t >= 128 THEN 128 ELSE 0)>>)

-----------------------------------------------------------------------------
(* Strings and binaries: a subtype, the number of units, and the octets.    *)

Stored(sub, n, x) == {<<"type", sub>>, <<"n", n>>, <<"octets", x>>}

\* The number of units, cast to uint32_t, is put from memory without a swap.
Sized(t, sub, n, block) ==
    <<Byte(t), Byte(sub), Native(n % Mod32, 4)>> \o Block(block)

AddString(sub, n, x, block) ==
    /\ Usable /\ sub \in Strings
    /\ \/ ~ujo_state_allow_string(doc.cur.state) /\ Reject(UJO_ERR_TYPE_MISPLACED)
       \/ /\ ujo_state_allow_string(doc.cur.state)
          /\ Add(Element(UJO_TYPE_STRING, Stored(sub, n, x)),
                 "STRING_FOUND", Sized(UJO_TYPE_STRING, sub, n, block))

strnlen(len, n) == IF len < n THEN len ELSE n

\* The octets of a C string stand for its text and for its last octet: the
\* terminating zero, or one of the text.
Text(x, ended) == 2 * x + (IF ended THEN 0 ELSE 1)
Ended(octets)  == octets % 2 = 0

\* Mutant: the terminating zero is counted and not put.
StringCUnterminated(len, n, x) ==
    AddString(UJO_SUB_STRING_C, strnlen(len, n) + 1, Text(x, len <= n),
              Little(Text(x, len <= n), strnlen(len, n)))

\* A text of len octets before its zero; n is the caller's limit.  One octet
\* more is put than strnlen finds, the zero only if it is within the limit.
\* Count and put are both of the uint32_t.
ujo_writer_add_string_c(len, n, x) ==
    LET units == strnlen(len, n) + 1
        octets == Text(x, len <= n)
    IN  AddString(UJO_SUB_STRING_C, units, octets, Little(octets, units % Mod32))

ujo_writer_add_string_u8(n, x) ==
    AddString(UJO_SUB_STRING_U8, n, x, Little(x, n))

ujo_writer_add_string_u16(n, x) ==
    AddString(UJO_SUB_STRING_U16, n, x, Native(x, 2 * n))

ujo_writer_add_string_u32(n, x) ==
    AddString(UJO_SUB_STRING_U32, n, x, Native(x, 4 * n))

ujo_writer_add_binary(sub, n, x) ==
    /\ Usable /\ UJO_TYPE_BIN \in Types
    /\ n < Mod32
    /\ \/ ~ujo_state_allow_atomic(doc.cur.state) /\ Reject(UJO_ERR_TYPE_MISPLACED)
       \/ /\ ujo_state_allow_atomic(doc.cur.state)
          /\ Add(Element(UJO_TYPE_BIN, Stored(sub, n, x)),
                 "ATOMIC_FOUND", Sized(UJO_TYPE_BIN, sub, n, Little(x, n)))

-----------------------------------------------------------------------------
(* Containers.                                                              *)

\* The new state is entered before the tag is put, and stays if that fails.
Open(t, s) ==
    /\ Usable /\ t \in Types
    /\ \/ ~ujo_state_allow_container(doc.cur.state) /\ Reject(UJO_ERR_TYPE_MISPLACED)
       \/ /\ ujo_state_allow_container(doc.cur.state)
          /\ Len(acked) < MaxElements /\ Len(doc.items) < MaxDepth
          /\ \E grow \in Grow :
               LET opened == ujo_state_next(s, doc, grow)
               IN  Perform(<<Byte(t)>>, Element(t, {}), opened, opened)

ujo_writer_list_open  == Open(UJO_TYPE_LIST, "LIST")
ujo_writer_map_open   == Open(UJO_TYPE_MAP, "DICT_KEY")
ujo_writer_table_open == Open(UJO_TYPE_TABLE, "TABLE_COLUMNS")

Terminator == Element(UJO_TERMINATOR, {})

\* The container is left before the terminator is put; its parent learns of
\* the closed container only if the put succeeds.  With an empty stack the
\* handler dereferences NULL and puts nothing.
Close(s) ==
    /\ Usable
    /\ \/ doc.cur.state # s /\ Reject(UJO_ERR_INVALID_OBJECT)
       \/ /\ doc.cur.state = s
          /\ doc.items # <<>>
          /\ \E grow \in Grow :
               LET left == ujo_state_prev(doc)
               IN  Perform(<<Byte(UJO_TERMINATOR)>>, Terminator,
                           ujo_state_switch("CONTAINER_CLOSED", left, grow), left)
       \/ /\ doc.cur.state = s
          /\ doc.items = <<>>
          /\ doc' = ujo_state_prev(doc)
          /\ UNCHANGED <<wtype, wire, ret, acked, reported, faults, freed>>

ujo_writer_list_close == Close("LIST")
ujo_writer_map_close  == Close("DICT_KEY")

ujo_writer_table_end_columns ==
    /\ Usable
    /\ \/ /\ doc.cur.state # "TABLE_COLUMNS" \/ doc.cur.columns = 0
          /\ Reject(UJO_ERR_INVALID_OBJECT)
       \/ /\ doc.cur.state = "TABLE_COLUMNS" /\ doc.cur.columns > 0
          /\ Perform(<<Byte(UJO_TERMINATOR)>>, Terminator,
                     [doc EXCEPT !.cur.state = "TABLE_VALUES"], doc)

\* The result of the put is not looked at: the call returns UJO_SUCCESS.
ujo_writer_table_close ==
    /\ Usable
    /\ \/ /\ doc.cur.state # "TABLE_VALUES" \/ doc.cur.column # 0
          /\ Reject(UJO_ERR_INVALID_OBJECT)
       \/ /\ doc.cur.state = "TABLE_VALUES" /\ doc.cur.column = 0
          /\ doc.items # <<>>
          /\ \E grow \in Grow :
               doc' = ujo_state_switch("CONTAINER_CLOSED", ujo_state_prev(doc), grow)
          /\ \/ PutOk(<<Byte(UJO_TERMINATOR)>>)
             \/ PutFails(<<Byte(UJO_TERMINATOR)>>)
          /\ ret' = UJO_SUCCESS
          /\ acked' = Append(acked, Terminator)
          /\ UNCHANGED <<wtype, reported, freed>>
       \/ /\ doc.cur.state = "TABLE_VALUES" /\ doc.cur.column = 0
          /\ doc.items = <<>>
          /\ doc' = ujo_state_prev(doc)
          /\ UNCHANGED <<wtype, wire, ret, acked, reported, faults, freed>>

\* The stack and the buffer are released, a file is closed.  The result of
\* fclose is not looked at; what a file may lose is a matter of UjoRoundTrip.
ujo_free_writer ==
    /\ Usable
    /\ freed' = TRUE
    /\ ret' = UJO_SUCCESS
    /\ UNCHANGED <<wtype, doc, wire, acked, reported, faults>>

-----------------------------------------------------------------------------
\* ujo_new_memory_writer and ujo_new_file_writer: a writer handed to the
\* application has its header on the wire.
WInit ==
    /\ wtype \in Destinations
    /\ doc = NewMachine
    /\ wire = Header
    /\ ret = UJO_SUCCESS
    /\ acked = <<>>
    /\ reported = FALSE
    /\ faults = 0
    /\ freed = FALSE

AddScalar ==
    \E x \in Values :
        \/ ujo_writer_add_int64(x)  \/ ujo_writer_add_int32(x)
        \/ ujo_writer_add_int16(x)  \/ ujo_writer_add_int8(x)
        \/ ujo_writer_add_uint64(x) \/ ujo_writer_add_uint32(x)
        \/ ujo_writer_add_uint16(x) \/ ujo_writer_add_uint8(x)
        \/ ujo_writer_add_float32(x)
        \/ ujo_writer_add_float64(x) \/ ujo_writer_add_uxtime(x)
        \/ x \in {0, 1} /\ ujo_writer_add_bool(x)

AddHalf == \E f \in Floats : ujo_writer_add_float16(f)

AddDateTime ==
    \/ \E d \in [year : Values, month : Values, day : Values] : ujo_writer_add_date(d)
    \/ \E d \in [hour : Values, minute : Values, second : Values] : ujo_writer_add_time(d)
    \/ \E d \in [year : Values, month : Values, day : Values, hour : Values,
                 minute : Values, second : Values, millisecond : Values] :
          ujo_writer_add_timestamp(d)

AddSized ==
    \E n \in Units, x \in Values :
        /\ n = 0 => x = 0    \* nothing is stored of an empty string
        /\ \/ \E len \in Units : ujo_writer_add_string_c(len, n, x)
           \/ ujo_writer_add_string_u8(n, x)
           \/ ujo_writer_add_string_u16(n, x) \/ ujo_writer_add_string_u32(n, x)
           \/ \E sub \in {0, 1} : ujo_writer_add_binary(sub, n, x)

AddEmpty == ujo_writer_add_none \/ \E t \in Nulls : ujo_writer_add_null(t)

Containers ==
    \/ ujo_writer_list_open  \/ ujo_writer_list_close
    \/ ujo_writer_map_open   \/ ujo_writer_map_close
    \/ ujo_writer_table_open \/ ujo_writer_table_end_columns
    \/ ujo_writer_table_close

WNext ==
    \/ AddScalar \/ AddHalf \/ AddDateTime \/ AddSized \/ AddEmpty
    \/ Containers \/ ujo_free_writer

WSpec == WInit /\ [][WNext]_wvars

\* Every accepted length fits the uint32_t that counts it.
Countable ==
    \A i \in 1 .. Len(acked) : \A m \in acked[i].data : m[1] = "n" => m[2] < Mod32

-----------------------------------------------------------------------------
\* The writer object, its stack and the chunks it has put are of their types,
\* the chunk torn by a short fwrite included (struct _ujo_writer).
TypeOK ==
    /\ wtype \in Destinations
    /\ doc \in Machines
    /\ wire \in Seq(Chunks)
    /\ ret \in UjoErrors
    /\ acked \in Seq(Elements)
    /\ reported \in BOOLEAN
    /\ faults \in 0 .. MaxFaults
    /\ freed \in BOOLEAN

\* While no push was dropped, the states on the writer's stack fit the way
\* containers nest, and every table row under way is within its columns, after
\* any sequence of accepted, rejected and half-done calls.  So no close pops an
\* empty stack and no map or row is closed half way (ujo_state.c, with the
\* order of state change and put in the open and close functions).
Nesting == ~doc.lost => Nested(doc)

\* "If the list was the top level container, closing it will close the document
\* as well. No additional values can be added." (ujo_writer.c, list_close): the
\* document, the elements and the octets of a closed document stay as they are.
ClosedIsFinal ==
    [][doc.cur.state = "CLOSED" => UNCHANGED <<doc, acked, wire>>]_wvars
=============================================================================
