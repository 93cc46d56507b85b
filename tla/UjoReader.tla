------------------------------ MODULE UjoReader ------------------------------
(***************************************************************************)
(* The reader object of ujo_reader.c: the pull interface (get_first,       *)
(* get_next), the push interface (parse with a callback), the assignment   *)
(* of buffers and the memory it allocates.  The input is a sequence of     *)
(* chunks [val, size, order] as the writer's puts left them; the reader    *)
(* does not know where chunks begin and asks for numbers of octets.  It     *)
(* keeps no record of errors: the application may always call again.       *)
(***************************************************************************)
EXTENDS UjoConstants, UjoState, UjoSums

CONSTANTS RHost,      \* byte order of the reading machine, "LE" or "BE"
          RFaults,    \* subset of {"calloc", "push"}: what may fail
          Noise,      \* numbers that octets off the border of an element may yield
          MaxBuffers, \* bound on the calls of ujo_reader_set_buffer
          MaxRetries, \* bound on reads after the end of a file was met
          MaxPressed  \* bound on calls after any other error

ASSUME ReaderAssumption ==
    /\ RHost \in {"LE", "BE"}
    /\ RFaults \subseteq {"calloc", "push"}
    /\ Noise \subseteq Nat /\ Noise # {}
    /\ MaxBuffers \in Nat /\ MaxRetries \in Nat /\ MaxPressed \in Nat

VARIABLES rtype,   \* r->type; "none" before a reader exists, "freed" after it
          input,   \* the chunks of r->buffer or r->file
          pos,     \* the next of them
          off,     \* the octets read from there on without meeting its end
          rdoc,    \* r->state and r->state_stack
          rret,    \* the code the last call returned
          eod,     \* whether the last call signalled the end of the document
          health,  \* "ok", "error" at the end of a file, "astray" after any other
                   \* error, "garbled" when octets were taken for what they are
                   \* not, "overrun" after a read beyond the buffer, "crashed"
                   \* when a terminator popped the empty stack
          pressed, \* the calls made although the reader was astray or garbled
          got,     \* the elements get_next found since the last set_buffer, until
                   \* such a call
          handler, \* whether an onElement callback is set
          held,    \* the element the application or the parse loop has, or
                   \* the empty sequence
          phase,   \* "parse" inside ujo_reader_parse, else "idle"
          orderly, \* whether the calls since the last set_buffer came in the
                   \* documented order: first get_first or parse, once
          heap     \* allocated and not released: elements, payloads of
                   \* strings and binaries, buffers

rvars == <<rtype, input, pos, off, rdoc, rret, eod, health, pressed, got, handler, held,
           phase, orderly, heap>>

UJO_ERR_CALLBACK == 5501   \* what an application's handler returns to stop

-----------------------------------------------------------------------------
(* _ujo_reader_get_data.  A scan is the progress of one get_next: position, *)
(* machine, result, the type byte and the members read so far.  Octets that *)
(* do not start where the reads of their chunk start are not followed: the  *)
(* noise of a scan is what it takes them for.                               *)

\* An error has left the reader within an element or the header, or it has
\* gone on from there.
Lost == health \in {"astray", "garbled"}

\* The members that decide what is read after them; the sizes only of types that
\* have them.
Noises ==
    { z \in [magic : {0}, version : {0}, tag : Noise, type : Noise, n : Noise] :
        z.tag % 256 \in {UJO_TYPE_STRING, UJO_TYPE_BIN} \/ (z.type = z.tag /\ z.n = z.tag) }

\* As one of them, or with the magic code, or with a whole header before it.
HeaderNoises ==
    LET z0 == CHOOSE z \in Noises : TRUE
    IN  {z0, [z0 EXCEPT !.magic = UJO_MAGIC]} \cup
        { [z EXCEPT !.magic = UJO_MAGIC, !.version = UJO_DATA_VERSION] : z \in Noises }

Scan(z) == [pos |-> pos, off |-> off, doc |-> rdoc, code |-> UJO_SUCCESS,
            health |-> IF Lost THEN "garbled" ELSE "ok",
            type |-> 0, data |-> {}, noise |-> z]

Going(c) == c.code = UJO_SUCCESS /\ c.health \in {"ok", "garbled"}

\* The next read begins where a chunk does.
InStep(c) == c.health = "ok" /\ c.off = 0

\* The octets of a small value in a unit of 2 or 4 octets, reversed.
Swapped(v, unit) == IF unit = 2 THEN v * 256 ELSE v * 16777216

\* The value of a chunk read into a field.
Decode(chunk, field) ==
    IF chunk.order = field.order \/ field.unit = 1 THEN chunk.val
    ELSE Swapped(chunk.val, field.unit)

\* The octets from position p to the end of the input.
Remaining(p) == Bytes(SubSeq(input, p, Len(input)))

\* A member to read: its octets, and the order and unit they are decoded in.
\* The swap macros take little endian, other members are used as they come.
Field(f, n) == [name |-> f, size |-> n, order |-> "LE", unit |-> n]
Raw(f, n, unit) == [name |-> f, size |-> n, order |-> RHost, unit |-> unit]

\* The next chunks are as long as the fields.
Fitting(c, fields) ==
    \A i \in 1 .. Len(fields) : /\ c.pos + i - 1 <= Len(input)
                                /\ input[c.pos + i - 1].size = fields[i].size

Decoded(c, fields) ==
    { <<fields[i].name, Decode(input[c.pos + i - 1], fields[i])>> : i \in 1 .. Len(fields) }

Guessed(c, fields) ==
    LET names == { fields[i].name : i \in 1 .. Len(fields) }
    IN  { <<f, c.noise[f]>> : f \in names \cap DOMAIN c.noise }

\* Mutant: a short read moves the position as far as a full one.
GetBeyond(c, fields) ==
    IF ~Going(c) THEN c
    ELSE IF InStep(c) /\ Fitting(c, fields)
         THEN [c EXCEPT !.pos = @ + Len(fields), !.data = @ \cup Decoded(c, fields)]
    ELSE [c EXCEPT !.code = UJO_ERR_FILE, !.pos = @ + Len(fields)]

\* Read fields one after the other; the first that fails ends the handler.  At
\* the end of a file fread is short; in memory nothing is checked.
Get(c, fields) ==
    IF ~Going(c) THEN c
    ELSE IF InStep(c) /\ Fitting(c, fields)
         THEN [c EXCEPT !.pos = @ + Len(fields), !.data = @ \cup Decoded(c, fields)]
    ELSE IF c.off + Bytes(fields) <= Remaining(c.pos)
         THEN [c EXCEPT !.off = @ + Bytes(fields), !.health = "garbled",
                        !.data = @ \cup Guessed(c, fields)]
    ELSE IF rtype = "FILE"
         THEN [c EXCEPT !.code = UJO_ERR_FILE, !.pos = Len(input) + 1, !.off = 0]
         ELSE [c EXCEPT !.health = "overrun"]

Member(c, f) == (CHOOSE m \in c.data : m[1] = f)[2]

Fail(c, code) == IF Going(c) THEN [c EXCEPT !.code = code] ELSE c

\* The state machine moves once everything is read.
Found(c, grow) ==
    IF Going(c) THEN [c EXCEPT !.doc = ujo_state_switch("ATOMIC_FOUND", @, grow)] ELSE c

-----------------------------------------------------------------------------
(* The handlers of ujo_reader_get_next.                                     *)

ujo_reader_open_list(c, grow)  == [c EXCEPT !.doc = ujo_state_next("LIST", @, grow)]
ujo_reader_open_map(c, grow)   == [c EXCEPT !.doc = ujo_state_next("DICT_KEY", @, grow)]
ujo_reader_open_table(c, grow) == [c EXCEPT !.doc = ujo_state_next("TABLE_COLUMNS", @, grow)]

ujo_reader_close_container(c, grow) ==
    LET left == ujo_state_prev(c.doc)
    IN  IF left.cur.state = "NULL" THEN [c EXCEPT !.doc = left, !.health = "crashed"]
        ELSE [c EXCEPT !.doc = ujo_state_switch("CONTAINER_CLOSED", left, grow)]

ujo_reader_parse_int64(c)   == Get(c, <<Field("value", 8)>>)
ujo_reader_parse_int32(c)   == Get(c, <<Field("value", 4)>>)
ujo_reader_parse_int16(c)   == Get(c, <<Field("value", 2)>>)
ujo_reader_parse_int8(c)    == Get(c, <<Field("value", 1)>>)
ujo_reader_parse_uint64(c)  == Get(c, <<Field("value", 8)>>)
ujo_reader_parse_uint32(c)  == Get(c, <<Field("value", 4)>>)
ujo_reader_parse_uint16(c)  == Get(c, <<Field("value", 2)>>)
ujo_reader_parse_uint8(c)   == Get(c, <<Field("value", 1)>>)
ujo_reader_parse_float16(c) == Get(c, <<Field("value", 2)>>)
ujo_reader_parse_float32(c) == Get(c, <<Field("value", 4)>>)
ujo_reader_parse_float64(c) == Get(c, <<Field("value", 8)>>)
ujo_reader_parse_bool(c)    == Get(c, <<Field("value", 1)>>)
ujo_reader_parse_none(c)    == c
ujo_reader_parse_uxtime(c)  == Get(c, <<Field("value", 8)>>)

\* Mutant: a month of two octets.
ParseDateWide(c) == Get(c, <<Field("year", 2), Field("month", 2), Field("day", 1)>>)

ujo_reader_parse_date(c) ==
    Get(c, <<Field("year", 2), Field("month", 1), Field("day", 1)>>)

ujo_reader_parse_time(c) ==
    Get(c, <<Field("hour", 1), Field("minute", 1), Field("second", 1)>>)

ujo_reader_parse_timestamp(c) ==
    Get(c, <<Field("year", 2), Field("month", 1), Field("day", 1),
             Field("hour", 1), Field("minute", 1), Field("second", 1),
             Field("millisecond", 2)>>)

\* n units go into memory of that size, which the allocator may not have (mem).
Payload(c, mem, n, unit) ==
    IF ~mem THEN Fail(c, UJO_ERR_ALLOCATION)
    ELSE IF n = 0 THEN [c EXCEPT !.data = @ \cup {<<"octets", 0>>}]
    ELSE Get(c, <<Raw("octets", n * unit, unit)>>)

\* Mutant: the length before the subtype.
SizesSwapped(c) == Get(c, <<Raw("n", 4, 4), Field("type", 1)>>)

Sizes(c) == Get(c, <<Field("type", 1), Raw("n", 4, 4)>>)

ujo_reader_parse_string(c0, mem) ==
    LET c == Sizes(c0)
        sub == Member(c, "type")
        n == Member(c, "n")
    IN  CASE ~Going(c) -> c
          [] Going(c) /\ sub \in {UJO_SUB_STRING_C, UJO_SUB_STRING_U8} -> Payload(c, mem, n, 1)
          [] Going(c) /\ sub = UJO_SUB_STRING_U16 -> Payload(c, mem, n, 2)
          [] Going(c) /\ sub = UJO_SUB_STRING_U32 -> Payload(c, mem, n, 4)
          [] OTHER -> Fail(c, UJO_ERR_INVALID_DATA)

ujo_reader_parse_binary(c0, mem) ==
    LET c == Sizes(c0)
    IN  IF Going(c) THEN Payload(c, mem, Member(c, "n"), 1) ELSE c

\* The handler of an atomic type.
Parse(c, mem) ==
    LET t == c.type
    IN  CASE t = UJO_TYPE_INT64     -> ujo_reader_parse_int64(c)
          [] t = UJO_TYPE_INT32     -> ujo_reader_parse_int32(c)
          [] t = UJO_TYPE_INT16     -> ujo_reader_parse_int16(c)
          [] t = UJO_TYPE_INT8      -> ujo_reader_parse_int8(c)
          [] t = UJO_TYPE_UINT64    -> ujo_reader_parse_uint64(c)
          [] t = UJO_TYPE_UINT32    -> ujo_reader_parse_uint32(c)
          [] t = UJO_TYPE_UINT16    -> ujo_reader_parse_uint16(c)
          [] t = UJO_TYPE_UINT8     -> ujo_reader_parse_uint8(c)
          [] t = UJO_TYPE_FLOAT16   -> ujo_reader_parse_float16(c)
          [] t = UJO_TYPE_FLOAT32   -> ujo_reader_parse_float32(c)
          [] t = UJO_TYPE_FLOAT64   -> ujo_reader_parse_float64(c)
          [] t = UJO_TYPE_BOOL      -> ujo_reader_parse_bool(c)
          [] t = UJO_TYPE_NONE      -> ujo_reader_parse_none(c)
          [] t = UJO_TYPE_UX_TIME   -> ujo_reader_parse_uxtime(c)
          [] t = UJO_TYPE_DATE      -> ujo_reader_parse_date(c)
          [] t = UJO_TYPE_TIME      -> ujo_reader_parse_time(c)
          [] t = UJO_TYPE_TIMESTAMP -> ujo_reader_parse_timestamp(c)
          [] t = UJO_TYPE_STRING    -> ujo_reader_parse_string(c, mem)
          [] t = UJO_TYPE_BIN       -> ujo_reader_parse_binary(c, mem)

\* The type byte has been read into c.type: its switch.
Dispatch(c, grow, mem) ==
    LET t == c.type
    IN  CASE t = UJO_TYPE_LIST  -> ujo_reader_open_list(c, grow)
          [] t = UJO_TYPE_MAP   -> ujo_reader_open_map(c, grow)
          [] t = UJO_TYPE_TABLE -> ujo_reader_open_table(c, grow)
          [] t = UJO_TERMINATOR ->
                IF c.doc.cur.state = "TABLE_COLUMNS"
                THEN [c EXCEPT !.doc.cur.state = "TABLE_VALUES"]
                ELSE ujo_reader_close_container(c, grow)
          [] t \in AtomicTypes -> Found(Parse(c, mem), grow)
          [] OTHER -> Fail(c, UJO_ERR_INVALID_DATA)

\* Mutant: the header is read and not compared.
CheckNothing(c, f, v) == c

Check(c, f, v) ==
    IF Going(c) /\ Member(c, f) # v THEN Fail(c, UJO_ERR_INVALID_DATA) ELSE c

\* Four octets at the border of an element, wherever that is.  They are known by
\* the first of them: it decides the comparison with the magic code.
ReadMagic(c) ==
    LET magic == {<<"magic", input[c.pos].val % 256>>}
    IN  IF ~InStep(c) \/ Remaining(c.pos) < 4 THEN Get(c, <<Field("magic", 4)>>)
        ELSE IF input[c.pos].size = 4 THEN [c EXCEPT !.pos = @ + 1, !.data = magic]
        ELSE [c EXCEPT !.off = 4, !.data = magic]

ujo_reader_parse_header(c) ==
    LET magic   == Check(ReadMagic(c), "magic", UJO_MAGIC)
        version == Check(Get(magic, <<Field("version", 2)>>), "version", UJO_DATA_VERSION)
    IN  Get(version, <<Field("compression", 1)>>)

\* Mutant: the error of the read is dropped, the type is the zero of calloc.
ReadTypeUnchecked(c) ==
    LET t == Get([c EXCEPT !.data = {}], <<Field("tag", 1)>>)
    IN  IF Going(t) THEN [t EXCEPT !.type = Member(t, "tag"), !.data = {}]
        ELSE [t EXCEPT !.code = UJO_SUCCESS]

\* A type is one octet, whatever it is the first octet of: at the start of a
\* document, of the magic code.
ReadType(c) ==
    LET t == IF InStep(c) /\ c.pos = 1 /\ Remaining(1) > 0
             THEN [c EXCEPT !.off = 1, !.data = {<<"tag", input[1].val>>}]
             ELSE Get([c EXCEPT !.data = {}], <<Field("tag", 1)>>)
    IN  IF Going(t) THEN [t EXCEPT !.type = Member(t, "tag") % 256, !.data = {}] ELSE t

-----------------------------------------------------------------------------
(* Calls.                                                                   *)

Owns(t) == IF t \in {UJO_TYPE_STRING, UJO_TYPE_BIN} THEN 1 ELSE 0

\* What a scan makes of the reader, when it has found something and when not.
Success(d) == IF d.health = "garbled" THEN "garbled" ELSE health

Failure(d) ==
    IF d.health # "ok" THEN d.health
    ELSE IF d.code = UJO_ERR_FILE THEN "error" ELSE "astray"

\* Nothing undefined has happened.
Defined == {"ok", "error", "astray", "garbled"}

\* ujo_reader_get_next from scan c, in a heap h that no longer has the caller's
\* last element; loop is the phase a found element leads to.  The element is
\* allocated before its type is read: it leaks if that fails, and is disposed
\* if the rest of it cannot be read.
GetNext(c, h, loop) ==
    \/ /\ ~Going(c)
       /\ pos' = c.pos /\ off' = c.off /\ rret' = c.code /\ health' = Failure(c)
       /\ heap' = h /\ held' = <<>> /\ phase' = "idle"
       /\ UNCHANGED <<rdoc, eod, got>>
    \/ /\ Going(c) /\ c.doc.cur.state = "CLOSED"
       /\ pos' = c.pos /\ off' = c.off /\ rret' = UJO_SUCCESS
       /\ heap' = h /\ held' = <<>> /\ phase' = "idle"
       /\ eod' = TRUE /\ health' = Success(c)
       /\ UNCHANGED <<rdoc, got>>
    \/ /\ Going(c) /\ c.doc.cur.state # "CLOSED"
       /\ \E grow \in IF "push" \in RFaults THEN BOOLEAN ELSE {TRUE},
             mem \in IF "calloc" \in RFaults THEN BOOLEAN ELSE {TRUE} :
          \E t \in {ReadType(c)} :
          \E d \in {IF Going(t) THEN Dispatch(t, grow, mem) ELSE t} :
            LET e == [type |-> d.type, data |-> d.data]
            IN  /\ pos' = d.pos /\ off' = d.off /\ rdoc' = d.doc /\ rret' = d.code
                /\ eod' = FALSE
                /\ \/ /\ Going(d)
                      /\ got' = IF Lost THEN got ELSE Append(got, e)
                      /\ held' = <<e>>
                      /\ heap' = [h EXCEPT !.elements = @ + 1, !.payloads = @ + Owns(e.type)]
                      /\ phase' = loop
                      /\ health' = Success(d)
                   \/ /\ ~Going(d)
                      /\ health' = Failure(d)
                      /\ heap' = IF Going(t) THEN h ELSE [h EXCEPT !.elements = @ + 1]
                      /\ held' = <<>> /\ phase' = "idle"
                      /\ UNCHANGED got

\* The application has a reader with an input, is outside the parse loop, and
\* has disposed the last element.  Whatever the last call returned it may make
\* another one: no function looks at earlier errors.
Ready ==
    /\ rtype = "FILE" \/ (rtype = "MEMORY" /\ heap.buffers > 0)
    /\ phase = "idle" /\ held = <<>> /\ health \in Defined
    /\ health = "error" => heap.elements <= MaxRetries
    /\ Lost => pressed < MaxPressed
    /\ pressed' = IF Lost THEN pressed + 1 ELSE pressed

\* Also out of order: in mid-document, or at its end.
Start == Ready /\ orderly' = (orderly /\ pos = 1)

ujo_reader_get_first ==
    /\ Start
    /\ \E z \in HeaderNoises :
          \E c \in {ujo_reader_parse_header(Scan(z))} : GetNext(c, heap, "idle")
    /\ UNCHANGED <<rtype, input, handler>>

ujo_reader_get_next ==
    /\ Ready
    /\ \E z \in Noises : GetNext(Scan(z), heap, "idle")
    /\ orderly' = (orderly /\ pos > 1)
    /\ UNCHANGED <<rtype, input, handler>>

\* Mutant: the element is released without what it owns.
FreeElementOnly ==
    /\ phase = "idle" /\ held # <<>>
    /\ held' = <<>>
    /\ heap' = [heap EXCEPT !.elements = @ - 1]
    /\ UNCHANGED <<rtype, input, pos, off, rdoc, rret, eod, health, pressed, got, handler,
                   phase, orderly>>

\* The element goes, with what it owns.
ujo_free_element ==
    /\ phase = "idle" /\ held # <<>>
    /\ held' = <<>>
    /\ heap' = [heap EXCEPT !.elements = @ - 1, !.payloads = @ - Owns(held[1].type)]
    /\ UNCHANGED <<rtype, input, pos, off, rdoc, rret, eod, health, pressed, got, handler,
                   phase, orderly>>

\* ujo_reader_parse up to its loop.
ujo_reader_parse ==
    /\ Start
    /\ \E z \in HeaderNoises :
          \E c \in {ujo_reader_parse_header(Scan(z))} : GetNext(c, heap, "parse")
    /\ UNCHANGED <<rtype, input, handler>>

\* One turn of the loop: the handler sees the element and may stop the loop;
\* the element, not what it owns, is released; the next element is read.
Turn(h) ==
    /\ \/ /\ \E z \in Noises : GetNext(Scan(z), h, "parse")
          /\ orderly' = (orderly /\ pos > 1)
       \/ /\ handler
          /\ rret' = UJO_ERR_CALLBACK
          /\ heap' = h /\ held' = <<>> /\ phase' = "idle"
          /\ UNCHANGED <<pos, off, rdoc, eod, health, got, orderly>>
    /\ UNCHANGED <<rtype, input, pressed, handler>>

\* Mutants: the element is not released; the loop moves only with a handler.
ParseLoopKeeps   == phase = "parse" /\ Turn(heap)
ParseLoopHandles == phase = "parse" /\ handler /\ Turn([heap EXCEPT !.elements = @ - 1])

ParseLoop == phase = "parse" /\ Turn([heap EXCEPT !.elements = @ - 1])

\* Also from inside the handler.
ujo_reader_set_on_element(f) ==
    /\ rtype \in {"FILE", "MEMORY"} /\ f # handler
    /\ handler' = f
    /\ UNCHANGED <<rtype, input, pos, off, rdoc, rret, eod, health, pressed, got, held, phase,
                   orderly, heap>>

ujo_new_memory_reader ==
    /\ rtype = "none"
    /\ rtype' = "MEMORY"
    /\ UNCHANGED <<input, pos, off, rdoc, rret, eod, health, pressed, got, handler, held,
                   phase, orderly, heap>>

ujo_new_file_reader(file) ==
    /\ rtype = "none"
    /\ rtype' = "FILE"
    /\ input' = file
    /\ UNCHANGED <<pos, off, rdoc, rret, eod, health, pressed, got, handler, held, phase,
                   orderly, heap>>

\* Mutant: the state machine goes on where the last document left it.
SetBufferKeepsState(buffer) ==
    /\ rtype = "MEMORY" /\ heap.buffers < MaxBuffers
    /\ phase = "idle" \/ handler
    /\ health \in Defined
    /\ input' = buffer
    /\ pos' = 1 /\ off' = 0
    /\ rdoc' = ujo_clear_stack(rdoc)
    /\ heap' = [heap EXCEPT !.buffers = @ + 1]
    /\ rret' = UJO_SUCCESS /\ eod' = FALSE /\ health' = "ok" /\ got' = <<>>
    /\ orderly' = TRUE /\ pressed' = 0
    /\ UNCHANGED <<rtype, handler, held, phase>>

\* A copy of the buffer is taken; the one before it is not released.  Of the
\* machine the stack is cleared and the state reset, the table counters stay.
\* Also from inside the handler, which then returns to the loop.
ujo_reader_set_buffer(buffer) ==
    /\ rtype = "MEMORY" /\ heap.buffers < MaxBuffers
    /\ phase = "idle" \/ handler
    /\ health \in Defined
    /\ input' = buffer
    /\ pos' = 1 /\ off' = 0
    /\ rdoc' = [ujo_clear_stack(rdoc) EXCEPT !.cur.state = "ROOT", !.lost = FALSE]
    /\ heap' = [heap EXCEPT !.buffers = @ + 1]
    /\ rret' = UJO_SUCCESS /\ eod' = FALSE /\ health' = "ok" /\ got' = <<>>
    /\ orderly' = TRUE /\ pressed' = 0
    /\ UNCHANGED <<rtype, handler, held, phase>>

\* Of the buffers only the last is released.
ujo_free_reader ==
    /\ rtype \in {"FILE", "MEMORY"} /\ phase = "idle" /\ health \in Defined
    /\ rtype' = "freed"
    /\ heap' = [heap EXCEPT !.buffers = IF @ = 0 THEN 0 ELSE @ - 1]
    /\ rret' = UJO_SUCCESS
    /\ UNCHANGED <<input, pos, off, rdoc, eod, health, pressed, got, handler, held, phase,
                   orderly>>

RInit ==
    /\ rtype = "none" /\ input = <<>> /\ pos = 1 /\ off = 0 /\ rdoc = NewMachine
    /\ rret = UJO_SUCCESS /\ eod = FALSE /\ health = "ok" /\ pressed = 0 /\ got = <<>>
    /\ handler = FALSE /\ held = <<>> /\ phase = "idle" /\ orderly = TRUE
    /\ heap = [elements |-> 0, payloads |-> 0, buffers |-> 0]

Reading ==
    \/ ujo_reader_get_first \/ ujo_reader_get_next \/ ujo_free_element
    \/ ujo_reader_parse \/ ParseLoop
    \/ \E f \in BOOLEAN : ujo_reader_set_on_element(f)
    \/ ujo_new_memory_reader \/ ujo_free_reader

=============================================================================
