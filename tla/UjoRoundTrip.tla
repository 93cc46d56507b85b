---------------------------- MODULE UjoRoundTrip ----------------------------
(***************************************************************************)
(* A writer and a reader: the application writes a document, closes it,    *)
(* and hands it to a reader, as a copy of the writer's buffer or as the    *)
(* file the disposed writer left, which a crash may have cut short.        *)
(***************************************************************************)
EXTENDS UjoDocument, UjoReader, UjoElement

CONSTANT Truncation   \* whether a file may lose its end

ASSUME RoundTripAssumption == Truncation \in BOOLEAN

vars == <<wvars, rvars>>

\* What may be left of the octets ws: some chunks and a part of the next.
CutShort(ws) ==
    Prefixes(ws) \cup
    UNION { { Append(SubSeq(ws, 1, k - 1), [ws[k] EXCEPT !.size = s, !.order = "torn"]) :
                s \in 1 .. ws[k].size - 1 } : k \in 1 .. Len(ws) }

Files == IF Truncation THEN CutShort(wire) ELSE {wire}

Init == WInit /\ RInit

Write == rtype = "none" /\ WNext /\ UNCHANGED rvars

\* ujo_writer_get_buffer of a closed document, given to ujo_reader_set_buffer.
Assign == doc.cur.state = "CLOSED" /\ wtype = "MEMORY" /\ ujo_reader_set_buffer(wire)

OpenFile == freed /\ wtype = "FILE" /\ \E f \in Files : ujo_new_file_reader(f)

Read == (Reading \/ Assign \/ OpenFile) /\ UNCHANGED wvars

Next == Write \/ Read

\* ujo_reader_parse runs its loop to the end once it is called.
Spec == Init /\ [][Next]_vars /\ WF_vars(ParseLoop /\ UNCHANGED wvars)

-----------------------------------------------------------------------------
\* The reader object is of its types: above all, its position never leaves the
\* input, at most one element is handed out, and the counts of its heap never
\* fall below zero (struct _ujo_reader, the error paths of get_next).
ReaderTypeOK ==
    /\ rtype \in {"none", "FILE", "MEMORY", "freed"}
    /\ input \in Seq(Chunks)
    /\ pos \in 1 .. Len(input) + 1 /\ off \in 0 .. Remaining(pos)
    /\ rdoc \in Machines
    /\ rret \in UjoErrors \cup {UJO_ERR_CALLBACK}
    /\ eod \in BOOLEAN
    /\ health \in Defined \cup {"overrun", "crashed"} /\ pressed \in Nat
    /\ got \in Seq(Elements)
    /\ handler \in BOOLEAN
    /\ held \in Seq(Elements) /\ Len(held) <= 1
    /\ phase \in {"idle", "parse"} /\ orderly \in BOOLEAN
    /\ heap \in [elements : Nat, payloads : Nat, buffers : Nat]

\* Everything was written and read without a reported error of the writer, a lost
\* state or a length beyond 32 bits, and no call followed an error of the reader
\* other than the end of a file: the code does not refuse it, but begins to read
\* where the error left it.
Sound == ~reported /\ ~doc.lost /\ ~rdoc.lost /\ Countable /\ pressed = 0

\* The reader finds the elements the application wrote, in the order of the
\* calls, with their types, subtypes and values, and signals the end of the
\* document after the last one and not before: whatever the types, the nesting
\* and the interface used, up to the longest string that can be counted, after a
\* reader was given a new buffer in mid-document, and when the file is cut short,
\* also for an application that reads on at its end (ujo_reader_get_next and the
\* parse functions against the put sequences of ujo_writer.c).
RoundTrip ==
    Sound => /\ IsPrefix(got, acked)
             /\ eod => got = acked /\ pos = Len(input) + 1

\* No read crosses the end of the buffer or the border of an element, and no
\* terminator pops an empty stack (_ujo_reader_get_memory_data checks nothing).
ReadsInStep == Sound /\ orderly => health \in {"ok", "error", "astray"}

\* "To use this function a previous call of ujo_reader_get_first() is needed to
\* initialize the scanning." (ujo_reader_get_next): a first call out of order, a
\* get_next before get_first, a second get_first or parse in mid-document, a
\* buffer assigned in the handler of the loop, does not yield an element.  It
\* returns an error or, near the end of a buffer, has read beyond it; no octet at
\* the border of two elements passes for a magic code, and none of that for a tag.
\* Of the calls that ignore this error nothing is said.
MisuseYieldsNothing ==
    Sound /\ ~orderly => health \in {"error", "astray", "overrun"} /\ held = <<>>

\* The accessor of each add function.
Accessor(e) ==
    IF e.type = UJO_TYPE_STRING
    THEN LET sub == CHOOSE s \in 0 .. 3 : <<"type", s>> \in e.data
         IN  <<"string_c", "string_u8", "string_u16", "string_u32">>[sub + 1]
    ELSE <<"float64", "float32", "float16", "string", "int64", "int32", "int16", "int8",
           "uint64", "uint32", "uint16", "uint8", "bool", "binary", "none", "uxtime",
           "date", "time", "timestamp">>[e.type]

Accepted == { a \in DOMAIN Answers(held) : Answers(held)[a].code = UJO_SUCCESS }

\* The accessors answer as for the element e that the application wrote.
AnsweredAs(e) ==
    /\ ujo_element_get_type(held).value = {<<"type", e.type>>}
    /\ ujo_element_get_string_type(held).value =
         { m \in e.data : e.type = UJO_TYPE_STRING /\ m[1] = "type" }
    /\ Accepted = IF e.type \in AtomicTypes \ {UJO_TYPE_NONE} THEN {Accessor(e)} ELSE {}
    /\ \A a \in Accepted :
         LET value == Answers(held)[a].value
         IN  IF a = "float16"
             THEN \A m \in value : <<"value", float_to_half(m[2])>> \in e.data
             ELSE value = e.data

\* Of all accessors exactly the one that belongs to the add function accepts an
\* element, and it returns what was given to that function, a half as the float
\* it stands for; containers, terminators, nones and the NULL of a failed call
\* have no value, and the type ids tell which accessor it is (the type checks of
\* ujo_element_get_*).
OneAccessor ==
    Sound => IF held = <<>> THEN Accepted = {}
             ELSE got # <<>> => AnsweredAs(acked[Len(got)])

\* "Get a \\x00 terminated c string." (ujo_element_get_string_c), and "A c string
\* is terminated by \\x00." (ujo_writer_add_string_c): the last octet of what the
\* accessor returns is the zero.
CStringEnds ==
    \A m \in ujo_element_get_string_c(held).value : m[1] = "octets" => Ended(m[2])

Payloads(es) == IF es = <<>> THEN 0 ELSE Owns(es[1].type)

\* Every element the reader has allocated is the one the application or the
\* parse loop has: stopped loops leave none behind, failed calls and the calls
\* that go on after them in octets they take for what they are not neither, and a
\* reader that failed and goes on with a new buffer has none of the old
\* (ujo_reader_get_next, parse, set_buffer).  Of a reader that has read beyond its
\* buffer or failed on a file nothing is said: there one element is left behind
\* for each type that could not be read.
ElementsOwned ==
    health = "ok" \/ (rtype = "MEMORY" /\ health \in Defined) => heap.elements = Len(held)

\* "each element has to be disposed to release the allocated memory"
\* (ujo_free_element): outside the parse loop the strings and binaries in memory
\* are those of the element the application has, also after a read that failed
\* half way or that took other octets for one.
PullOwnsPayloads ==
    [][phase = "idle" /\ phase' = "idle" =>
         heap'.payloads - Payloads(held') = heap.payloads - Payloads(held)]_vars

\* "The ujo_reader_parse() method automatically disposes the element after the
\* handler function returns." (ujo_free_element)
ParseDisposes ==
    health = "ok" => heap.payloads = Payloads(held)

\* A turn of the parse loop that is followed by another one has moved on in the
\* octets of the input: not at the end of a cut file, nor where a handler has
\* assigned a buffer and the loop takes its magic code for a type, nor within an
\* element, does it find the same element, or one that is not there, again and
\* again (ujo_reader_get_next as called by ujo_reader_parse).
LoopAdvances ==
    [][ParseLoop => phase' = "idle" \/ pos' > pos \/ (pos' = pos /\ off' > off)]_vars

\* Once ujo_reader_parse is called it returns, whatever the handler does.
ParseReturns == (phase = "parse") ~> (phase = "idle")
=============================================================================
