# A verification project for libujo-c

libujo-c reads and writes UJO documents: a header (`_UJO`, version,
compression) followed by one root container. Lists, maps and tables nest in each
other; strings, binaries, numbers, dates and times are their values; every
container ends with a terminator octet. The library is single-threaded C. What is
hard about it is neither threads nor messages: it is a hand-written push-down
automaton driven by an application that may call anything in any order, whose
calls put several octet groups on a destination that may fail at each of them,
and a reader that repeats every layout of the writer by hand.

## 1. Inventory

| Part | Source | State | Operations | What makes it correct |
|---|---|---|---|---|
| document state machine | `ujo_state.c` | current `ujo_state` (state, columns, column) | next, prev, switch, allow_* | the stacked states are those of properly nested containers; rows stay within columns |
| state stack | `ujo_stack.c` | array, size, fill | push (grows by one), pop, clear | never popped when empty; a push that cannot grow is dropped silently |
| writer | `ujo_writer.c` | destination, machine | 23 adds, 7 container calls, free | accepts exactly the documents of the grammar; a call that returns success has written its element in full |
| memory buffer | `ujo_writer.c` | buffer, buffersize, bytes | put_memory, get_buffer, free | no write outside it; nothing lost by growing |
| reader, pull | `ujo_reader.c` | input, position, machine, elements handed out | get_first, get_next, free_element, set_buffer | finds what was written, in order; ends exactly at the end; owns what it allocated |
| reader, parse loop | `ujo_reader.c` | the same, and the callback | parse, set_on_element | returns whatever the handler does |
| byte order | `ujo_endian.h` | none | swap macros | values survive another host |
| half floats | `ujo_float.c` | tables | half_to_float, float_to_half | what is not finite is refused, everything else truncated to a half |
| accessors | `ujo_reader.c` | none | 23 ujo_element_get_* | exactly the right one accepts an element |
| logging, version | `ujo_log.c`, `ujo.c` | none | messages, constants | nothing depends on them |

Interactions: writer and reader each own a state machine on a stack and call it at
the same points of a document; the writer's `_ujo_writer_put` goes to stdio or to
the memory buffer; the reader takes a copy of a buffer or a file; the parse loop
calls back into the application, which may assign the reader a new buffer or handler from there
(what else it may do is in section 6).

Hard behaviours, listed with their lines in `PROJECT.json` under `hazards`: a call
that fails between its state change and its put (open and close change the state
*before* they put, adds *after*); pushes dropped without a word; the pop of an
empty stack, which is dereferenced; rows of nested tables; a reader given a
new buffer in mid-document or by its own handler; reader calls out of order or after errors, which
no function notices; files cut at any octet, and reads repeated at their end; an
unchecked memory read; counts at the limit of 32 bits; C strings longer than their
limit; elements and payloads left behind on error paths; `realloc` moving a buffer
the application looks at; byte orders of two hosts; tables of numbers typed in by hand.

## 2. Modules

| Module | Models |
|---|---|
| `UjoConstants` | numbers of `ujo_constants.h`, `ujo_errors.h` |
| `UjoState` | `ujo_state.c` and `ujo_stack.c` as operators on a machine record; `Nested`, what a consistent machine is |
| `UjoWriter` | the writer, one action per function |
| `UjoGrammar` | independent definition of UJO documents as sequences of tags, and the sizes of elements |
| `UjoDocument` | the writer against the grammar and the sizes |
| `UjoSums` | sums over sequences, for counts of octets |
| `UjoReader` | the reader, both interfaces, with its heap |
| `UjoElement` | the accessors `ujo_element_get_*` |
| `UjoRoundTrip` | writer, reader and accessors composed through a buffer or a file |
| `UjoFloat16` | the tables and conversions of `ujo_float.c`, and what a half can hold without them |
| `UjoEndian` | the swap functions and macros of `ujo_endian.h` on words of octets |
| `UjoScalar`, `MCUjoScalar` | one number between two hosts: add function, octets, parse function, accessor |
| `UjoBuffer` | `_ujo_writer_put_memory`, octet by octet |
| `UjoSink` | abstract specification: an append-only log |
| `UjoStateProofs`, `UjoWriterProofs`, `UjoBufferProofs`, `UjoFloat16Proofs`, `UjoScalarProofs` | lemmas and theorems about one component |
| `UjoDocumentProofs` | induction and sums; what each call of the writer leaves at its destination |
| `UjoGrammarProofs` | the machine of the writer against the grammar |
| `UjoRoundTripProofs` | the reader, the document on its way, the accessors |

### The machine (`UjoState`)

`m.cur` is the `ujo_state` struct in use, `m.items` the structs on the stack,
`m.size` the slots of the array, `m.lost` a history flag the code does not keep:
whether a push was ever dropped. `ujo_state_next` pushes the struct and takes a
new one; `ujo_state_prev` pops it, turning ROOT into CLOSED, and yields `NullState`
for an empty stack, after which the C code dereferences NULL: no action follows.
The `calloc` of the new struct itself is not checked by the code and assumed to
succeed.

### The writer (`UjoWriter`)

What a call sends is a sequence of *chunks* (value, number of octets, order of the
octets), one per `_ujo_writer_put`. `Perform` is the shape of all handlers:
either every put succeeds, or put *k* fails, what came before is on the wire (with
a torn chunk if `fwrite` was short), and the error is returned. Where the state
changes relative to the puts differs between functions and is what the
arguments `done` and `failed` of `Perform` say:

* adds: `failed = doc`, the state moves only after the last put;
* open: `failed = done`, the state is entered first;
* close of lists and maps: `failed` is the machine after `ujo_state_prev`, `done`
  also after `ujo_state_switch`;
* `ujo_writer_table_close` has no error path at all.

`acked` holds the elements whose calls returned `UJO_SUCCESS`, `reported` whether a
put error was ever returned. The argument of `ujo_writer_add_float16` is a float32, by
its bits; the check of the half it becomes comes after that of the state, as in the code.
A null is one octet, `type & 0x80`. Lengths of strings are put in host order, numbers in
little endian.

Lengths are `size_t` and counts `uint32_t`: a count is `n % Mod32`. `Mod32` stands for
2^32 and is a constant so that a small instance reaches it. A C string has a text
length `len` and a limit `n`, both chosen by the application: the code puts
`strnlen(s, n) + 1` octets, the last of which is the zero only if `len <= n`; `Text` keeps
that one bit of the octets. A binary of `Mod32` octets or more is not written:
its length is a `uint32_t` already.

### The reader (`UjoReader`)

The input is a sequence of chunks, but the reader asks for numbers of octets as the
code does: `Get` compares the size wanted with the size of the chunk at the
position `pos`. While every read is as long as the chunks there the reader is in step and gets
their values. A read that is not moves `off`, the octets read from the chunk at `pos` on, and the
health becomes `garbled`: the octets are what the constant `Noise` says, any of its numbers, and
so is everything read after it (`Guessed`). A memory read past the end is
`overrun` (the code does not check; nothing is said of the reader then, its position included), a
short file is `UJO_ERR_FILE` and leaves the reader at the end of the file. `GetNext` is
the body of `ujo_reader_get_next` with its heap: the element is allocated before
its type octet is read, and it is not released if that read fails
(`ujo_reader.c:729`). `ParseLoop` is one turn of `ujo_reader_parse`: handler, `ujo_free` of the
element, next element. As in the code, the reader does not count columns:
`STRING_FOUND` is sent by the writer only.

`ujo_reader_set_buffer` clears the stack and the state but not the table counters
of the struct in use, and overwrites the pointer of the last buffer. A handler may call
it too; the loop then goes on with `ujo_reader_get_next` on the new buffer.

Nothing in the code keeps an application to the documented order of calls, and no function looks
at earlier errors, so the model does not either: `ujo_reader_get_first` and `ujo_reader_parse` are
enabled in mid-document, `ujo_reader_get_next` before them, and all of them again after any error
(`Ready`). After the end of a file that is `MaxRetries` times. Any other error, of a header or type
that is not one, a subtype, an allocation, leaves the reader `astray`: it stands where the last read
stopped, within an element or the header. The next call reads on from there, so it is `garbled`
from its first octet (`Lost`, `Scan`); `pressed` counts these calls, up to `MaxPressed`. Only
`ujo_reader_set_buffer` ends this. The model does not follow a garbled reader back into step: that
the octets it takes for something may by chance be the right ones is among what `Noise` allows.
`got` is what was found before such calls.

`orderly` is a history variable: whether the calls followed the documentation since the last buffer
was assigned. Four octets read as a magic code at a border where no header is (`ReadMagic`) are known
by their first octet, which is that of the chunk at the position: it is enough to tell them from
`_`. They are consumed, as is the octet of the magic code that is taken for a type (`ReadType`).

### The accessors (`UjoElement`)

An accessor gets a handle, `<<>>` for the NULL of a failed call, checks handle, type
and, for strings, subtype, and returns the members of the element.
`ujo_element_get_float16` converts. `Answers` is what all of them say of one element.

### The composition (`UjoRoundTrip`)

The application writes, and once the document is closed hands the writer's buffer to
a memory reader, or disposes the writer and opens its file. With `Truncation` the file
may be cut at any octet: a crash, a full disk, or an `fclose` whose result
`ujo_free_writer` ignores.

### The buffer (`UjoBuffer`, `UjoSink`)

Every octet and every offset are there, with an uninitialised marker. `realloc`
returns any address or fails. `Written`, the octets below `bytes`, is the refinement
mapping to the log of `UjoSink`.

### Numbers (`UjoFloat16`, `UjoEndian`, `UjoScalar`)

A float32 is its 32 bits as a signed integer, a half its 16 bits. `basetable` to
`offsettable` are functions of the index with the entries of the C arrays: the base of a
subnormal half doubles with each exponent, that of a normal one grows by 1024, and so on.
`Truncated` says without tables what a float32 must come back as. `half_to_float` first
reads four octets at the address of a two octet `h` and does not use them; the model has
no such read. The signed integers avoid numbers above 2^31, which TLC does not have.

A word is the sequence of its octets from the least to the most significant, `Memory` the
same in the order of a host. `UjoScalar` takes one number through `ujo_writer_add_*`,
its octets, `_ujo_reader_parse_*` and an accessor, with a byte order of its own for each
side, so that what the other modules assume of a `Little` chunk is checked.

## 3. Runs

| Run | Configuration | Checks | Bounds |
|---|---|---|---|
| `writer_nesting` | `WriterNesting.cfg` | `TypeOK`, `Nesting`, `Grammatical`, `WireHoldsAcked`, `ClosedIsFinal` | 8 accepted calls, containers opened on up to 4 states, integers, strings, all containers |
| `writer_faults` | `WriterFaults.cfg` | `TypeOK`, `Nesting`, `Grammatical`, `FailuresReported`, `ClosedIsFinal` | 4 accepted calls of nulls, booleans, dates, strings and all containers, one failing put, any dropped push, file and memory |
| `round_trip_types` | `RoundTripTypes.cfg` | `ReaderTypeOK`, `WireHoldsAcked`, `RoundTrip`, `ReadsInStep`, `OneAccessor` | every type and subtype, lengths 0 to 3 with `Mod32` = 3, cut files, one call after an error, a half that is exact, one that is not and one that is refused |
| `round_trip_nested` | `RoundTripNested.cfg` | `RoundTrip`, `ReadsInStep`, `MisuseYieldsNothing`, `ElementsOwned`, `PullOwnsPayloads`, `LoopAdvances`, `ParseReturns` | 4 accepted calls of two types, maps and tables; two buffers, calls in any order, one retry at the end of a file, one call after any other error, which reads strings, terminators and invalid subtypes; failing calloc and push, cut files |
| `buffer` | `Buffer.cfg` | `BufferTypeOK`, `InBounds`, `BufferIsSink` | step of 3 octets, lengths 0, 1, 3, 4, 7 |
| `scalars` | `Scalars.cfg` | `ScalarTypeOK`, `HostsAgree`, `HalfExact` | all 65536 halves, each with the next float32 and the one 8191 after it; words of octets 0 and 255; four pairs of hosts |
| `table_close_fault` | `TableCloseFault.cfg` | `WireHoldsAcked` is violated | |
| `null_value` | `NullValue.cfg` | `RoundTrip` is violated | |
| `cross_endian` | `CrossEndian.cfg` | `ReadsInStep` is violated | |
| `parse_leak` | `ParseLeak.cfg` | `ParseDisposes` is violated | |
| `c_string_end` | `CStringEnd.cfg` | `CStringEnds` is violated | |
| `buffer_view` | `BufferView.cfg` | `ViewStaysValid` is violated | |

Why the bounds are enough. The machine's step depends on the top struct and, on
leaving, on the ones below: with 4 states below the one in use (a map
with a value under way takes two, the root one) every pair of containers occurs, those without two maps also with a third
around it, and eight calls suffice for a table with two columns, a full row, and a map or
list as a cell. Types differ only in tag and field sizes, so each of them needs to
appear once, next to another element that shows a wrong size (2 accepted calls). The growth of the buffer depends on lengths relative
to the step, so lengths below, at and above one and two steps are the cases. What the
bounds cannot show, the theorems of section 5 do for every safety property of these runs.
Of the arguments of `ujo_writer_add_float16` the run takes every half and float32
on both sides of the places where a half changes; of the octets of a word, two suffice to
tell every position from every other. With `Mod32` = 3 the counts 0, 1 and 2 are the whole
range, and 3 is the first length beyond it. One call after an error suffices because a garbled reader
stays one, and its parse loop takes as many turns as the input has octets; the octets 0 and 4 are a
terminator and a string, whose subtype and length are again 0 or 4: an element without memory of its own,
one with it, an empty one, one that is cut by the end, and an error half way. Lists in lists
are left to `round_trip_types` and the theorems.

`FailuresReported` excepts documents with tables, because of `table_close_fault`; the round
trips write no nulls, because of `null_value`, and run on one byte order, because of
`cross_endian`; `WireHoldsAcked` and `RoundTrip` say nothing once a length beyond 32 bits was
accepted (`Countable`), because the code truncates it without an error. What the reader finds is compared
with what was written up to the first error other than the end of a file, and again after the next
`ujo_reader_set_buffer` (`pressed = 0` in `Sound`); its memory and the end of its loop are checked throughout.

Deadlock is not checked: an application may stop calling at any time, after
`ujo_free_writer` or `ujo_free_reader` nothing is enabled, and neither is anything
after a NULL dereference.

Fairness. Only `ParseLoop` is weakly fair: `ujo_reader_parse` is one C call, its loop goes on
by itself as long as the handler returns. Nothing obliges an application to make
another call.

### What the violations show

* `ujo_writer_table_close` returns `UJO_SUCCESS` when its terminator could not be
  written; every other function returns the error.
* `ujo_writer_add_null` writes `type & 0x80`, which is the terminator for every
  type id there is: a null ends its container.
* Lengths of strings and binaries, and 16 and 32 bit characters, are written and read
  in host order, everything else in little endian.
* `ujo_reader_parse` frees elements with `ujo_free`, not `ujo_free_element`: strings
  and binaries leak.
* `ujo_writer_add_string_c` puts one octet more than `strnlen` finds. If the text is
  longer than the limit, that octet is not the zero, and `ujo_element_get_string_c` hands out
  a C string without its end.
* The address from `ujo_writer_get_buffer` dangles after a put that moved the buffer,
  although the writer exists.

Seen while modelling, without a run of their own because no document promises otherwise: once a push was
dropped, closing an inner container may close the document; `ujo_reader_set_buffer`
leaks the buffer before it; a file that ends before a type octet leaks one element, which
`ElementsOwned` excepts; a call that ignores an error may yield an element that was never written:
`ujo_reader_get_next` called before `ujo_reader_get_first` is refused four times, for the octets of the
magic code, and the fifth call takes the 1 of the version for `UJO_TYPE_FLOAT64`; after a failed
allocation of a string the next call takes its text for a type;
`ujo_free_writer` ignores the result of `fclose`.

## 4. Properties

* `Nesting`: root at the bottom, CLOSED only alone, a map's value state exactly on its
  key state, open columns only on top, started rows shorter than their columns. It
  holds after failed opens and closes, and implies that no close pops an empty
  stack.
* `Grammatical`: without failures the accepted calls are always the beginning of a
  document of `UjoGrammar`, closed exactly when complete, and in every state the
  `allow_*` functions and close guards agree with what may follow.
* `WireHoldsAcked`: the destination holds header and accepted elements in full unless
  an error was reported. `FailuresReported`: so it is whichever put fails, tables excepted.
* `ClosedIsFinal`: nothing of a closed document changes.
* `RoundTrip`, `ReadsInStep`: what is read is what was written, in order; the end is
  signalled at the end, also by a reader that goes on after the end of a cut file; no read
  leaves the buffer or crosses an element. Both speak of the calls up to and including the first that
  returns another error, and again from the next buffer on: after it the code reads on wherever it is.
* `MisuseYieldsNothing`: the first call out of the documented order does not yield an element.
  It holds because no tag is `_` and because the octet at the border of two elements,
  a tag or the zero of a terminator, is never `_`. It does not say the call is harmless:
  a `ujo_reader_get_first` within four octets of the end of a buffer reads beyond it, and a
  second call that ignores the error of the first may yield anything.
* `OneAccessor`: of all accessors exactly the one that belongs to the add function accepts
  an element, and returns what that function was given.
* `HostsAgree`, `HalfExact`: numbers are the same on every host; a float16 is refused or
  comes back as the next half towards zero.
* `ElementsOwned`, `PullOwnsPayloads`: what is allocated is what someone holds, also in a reader
  that goes on after errors; of a failed file reader `ElementsOwned` says nothing, because of the leak
  above.
* `ParseReturns`: the loop ends. `LoopAdvances` is the safety half of it: a turn that is
  followed by another has moved on in the input, also at the end of a cut file and where a
  handler has assigned a buffer, whose magic code the loop takes for a type, and within an element
  after an error.
* `InBounds`, `BufferIsSink`: no overflow, no lost octet.

Every property of a passing run is violated by a mutant of the code listed in
`PROJECT.json`; the mutants stand before the definitions they change.

## 5. Theorems

`UjoStateProofs` proves, for machines of any depth and tables of fewer than 2^32 columns (`columns` is a
`uint32_t`, a number in the model), that
`ujo_stack_push`, `ujo_state_next`, `ujo_state_prev`, `NextCell` and
`ujo_state_switch` yield machines, and that they keep `Nested`: entering needs a
state that fits on the struct in use (`NextNests`), leaving needs something below
(`PrevNests`), `NestedHasParent` says there is something whenever the machine is in a
container, and the switch needs nothing else (`SwitchNests`).

`UjoWriterProofs`, under `WriterAssumption` (constants are of their types):

* `TypeCorrect`: `WSpec => []TypeOK`;
* `NestingHolds`: `WSpec => []Nesting`;
* `ClosedStays`: `WSpec => ClosedIsFinal`.

The inductive invariant is `IInv == TypeOK /\ Kept(doc)` with `Kept(m) ==
~m.lost => Nested(m)`. `Nesting` alone is not inductive: the lemmas about the machine need
`doc \in Machines`. `Kept` rather than `Nested` is kept because a dropped push breaks
the nesting for good, and `lost` never returns to FALSE in a writer. `PerformKeeps`
reduces every handler to its two machines, `done` and `failed`; one lemma per group of
calls follows.

`UjoBufferProofs`, under `BufferAssumption` (the growth step is positive):

* `BufferTypeCorrect`, `NoOverflow`: `Spec => []BufferTypeOK`, `Spec => []InBounds`;
* `BufferImplementsSink`: `Spec => BufferIsSink`, the refinement.

The inductive invariant is `BInv == BufferTypeOK /\ InBounds`; `GrowthStep` is the
arithmetic fact `(n \div B + 1) * B > n`, and `StoreAppends` that a `memcpy` with
room for it appends.

`UjoFloat16Proofs`, without assumptions, for all 2^32 float32:

* `HalfTruncates`: `half_to_float(float_to_half(f)) = Truncated(f)` for every `f` below
  65536 in magnitude, subnormals and zeros of both signs included;
* `RefusedIsTooLarge`: `isinf_float16` of the half holds exactly for the others.

The argument follows the tables. `Fields` splits a float32 into sign, exponent and mantissa;
`TooSmall`, `BecomesSubnormal`, `BecomesNormal` and `TooLarge` say what `float_to_half`
makes of each range of exponents; `FromZero`, `FromSubnormal` and `FromNormal` what
`half_to_float` makes of that. `SubnormalIs` finds the highest bit of a subnormal, and
`DivMod` with `LostIs` the bits a shift loses. `FloatToHalfIs`, the range of
`float_to_half`, is what `UjoWriterProofs` needs of it.

`UjoScalarProofs`, under `ScalarAssumption` (constants are of their types):

* `ScalarTypeCorrect`, `HostsAlwaysAgree`, `HalvesExact`: `SSpec => []ScalarTypeOK`,
  `SSpec => []HostsAgree`, `SSpec => []HalfExact`.

The inductive invariant is `SInv`: types, `HostsAgree`, and `HalfStored`, which says what word a
float16 leaves in the document; `HalfExact` speaks of the word that was read and is
not inductive alone. `Swap16`, `Swap32` and `Swap64` show that macro and memory order cancel,
`SwapsCancel` that each type uses the macro of its width on both sides.

`HalfSurvives` is for the accessors: for the same float32, the half of what is read is the half
that was written. `FieldsAre` puts a float32 together from its fields, `KeptIs` says that
the bits a subnormal keeps survive another shift.

### The octets of a document (`UjoDocumentProofs`)

Induction schemas that take an operator cannot be instantiated by the provers, but one that
takes a set can: `Induction` says that a set with 0 that has n + 1 with n has every
number, from the well-foundedness of `<` on the naturals. With it the
recursive function in `Sum` is shown to have the values its equation says, hence `SumAppend`,
`BytesAppend` and `BytesConcat`.

`Coded(e, ws)` is the format: the chunks `ws` that stand for the element `e`, one disjunct per
group of types. `Fits` follows for all of them: the octets of `ws` are the `Octets` of `e`. One
lemma per group of writer functions reduces a call to `Called`: it accepts an element,
puts its code and moves its machine (`Accepts`, with `Moves`); it reports an
error; it changes nothing; or it is the close of a table whose put failed (`Overlooks`), which moves the machine
all the same.

* `FailuresAreReported`: `WSpec => []FailuresReported`, whatever fails;
* `WireIsComplete`: `WSpec => []WireHoldsAcked` if puts do not fail. The hypothesis is needed:
  `table_close_fault` is the counterexample without it.

The inductive invariant is `DInv`: `IInv`, `FailuresReported`, `OctetsKnown`, and `TablesKnown`,
that a writer in a table has accepted one unless an error was reported. Without the last, the
swallowed error of `ujo_writer_table_close` could hit a document without an accepted table, of
which `FailuresReported` speaks.

### The grammar (`UjoGrammarProofs`)

* `DocumentsAreGrammatical`: `WSpec => []Grammatical`, under `WriterAssumption` alone.

`Grammatical` compares two accounts of a document that have nothing in common: a stack of structs,
and counts over the whole sequence of elements. It is not inductive, for it says
which elements may follow and nothing of what is below the innermost container. The
inductive invariant is `GInv == IInv /\ (~reported /\ ~doc.lost => Grammared(doc, TokensOf(acked)))`:
the elements are the start of a document, and there is an `own` that gives each struct of the
machine its container, the position of the element that opened it, such that
(`Spells`)

* the containers open after the last element are those in `own` and no others, each one level
  inside the one below, a map's value state at the map of its key state (`Owned`, `Ranked`);
* the terminators owed are those of the innermost container (`Rooted`);
* the struct in use is `Settled`: its map has an even number of children in the key state and an
  odd one in the value state, its table has the columns it counts, and `column` is the
  number of cells modulo the columns. A struct below is `Behind`: it has not been told of
  the container that is open in it. It will be when that is closed (`Tallied`).

TLC checked `GInv` in the bounds of `writer_nesting` before it was proved.

`LevelsAre` shows that the recursive function in `Levels` has the values its equation says;
`EnclosingAppend` and `KidsAppend` say what one more element does to the open containers and to
the children of each. A call then is one of four: a value (`SpellsValue`), a container
opened (`SpellsIn`) or closed (`SpellsOut`), the end of the columns (`SpellsRows`). The first and
the third leave the struct in use behind by one, and `SpellsSwitch` that
`ujo_state_switch` catches up; after a container is closed in a map that means a pop of the value state.
`FollowsIs` and `CompleteIs` read the two sides of `Grammatical` off `Spells`.

### The reader (`UjoRoundTripProofs`, first part)

* `ReaderTypeCorrect`, `ElementsAreOwned`: `Spec => []ReaderTypeOK`, `Spec => []ElementsOwned`;
* `PullOwns`: `Spec => PullOwnsPayloads`;
* `TurnsAdvance`: `Spec => LoopAdvances`.

No hypothesis: any byte orders, nulls, failing puts, cut files, calls in any order and after any
error, any `Noise`.
The inductive invariant `RInv` adds to the types that heap counts are at least what is held,
that elements and held ones are equal while the reader is `Intact` (no error, or a memory reader in
any state but an overrun or a popped empty stack: a
file that ends before a type octet leaks one element, so an error in a file says nothing), and
that the parse loop holds an element. `ElementsOwned` alone is not inductive: a turn
of the loop releases the element it holds, so there must be one. `GetNextCases` splits `GetNext` into its three
ends, `DispatchIs` and the lemmas under it say that every parse function keeps the position
in the input, and never goes back in it, in chunks or, out of step, in octets.

`TurnsAdvance` follows from `RInv`: reading a type takes an octet wherever the reader is, in step,
at the magic code or within an element (`TagAdvances`), and what is read after it does not go back
(`OutcomeAdvances`); a turn that could not read a type ends the loop.

### The round trip (`UjoRoundTripProofs`, second part)

Under `Host = RHost`, `Nulls = {}` and `"put" \notin Faults`:

* `RoundTrips`: `Spec => []RoundTrip`;
* `StaysInStep`: `Spec => []ReadsInStep`;
* `MisuseIsBarren`: `Spec => []MisuseYieldsNothing`;
* `OneAccessorAnswers`: `Spec => []OneAccessor`.

Each hypothesis excludes a behaviour of the code in which the property is false:
`cross_endian`, `null_value` and `table_close_fault` are the counterexamples. Everything else is
arbitrary: length, depth and types of the document, values, where a file is
cut, which allocation fails, the calls and their order. The properties themselves except dropped
pushes, lengths beyond the count, and the calls that ignore an error other than the end of a file
(`Sound`): a failed allocation or a misplaced call is the last thing they speak of until a
new buffer is assigned.

The property speaks of what the reader has found; to be inductive the invariant must say
where in the octets it is. `Script(b, ms, wire, acked, doc)` says that the destination is the header
followed by a `Coded` block for each accepted element, that `b[i]` is the border after
element i, and that `ms[i]` is the writer's machine there: `Moves` from `ms[i - 1]`.
`Scripted` claims such borders and machines exist; a call that accepts an element
extends them (`ScriptExtends`). `Sourced` says what the reader was given: the document, or what
is `Left` of it in a file. `Followed` adds `Reads(b, ms)`: the elements found are the first
ones written, the position is the border after them as long as
no call failed, and the reader's machine is the
`Same` as `ms` there. `Same` compares the states on the stack and not the columns,
which the reader does not count. `TInv` is the conjunction with `RInv`.

A step of the reader then reads at a border. `ReadsTag` finds the type octet; one lemma per
group of types shows that the parse function consumes exactly the `Coded` block
(`Parsed`) or meets the end of a cut file (`Broken`), which leaves the reader where it was;
`Follow` shows that its machine makes the writer's move. A call out of order reads a header
at a border, where no octet is `_`, or a type where the header is, where the octet is no tag
(`Begins`). So `MisuseYieldsNothing`, too, is inductive only together with the position.

For the accessors, `Latest` says that the element in hand is the last one found, unless the reader is
`Lost`: it is kept by every step, given `RInv`. The rest is about one `Coded` element: `AcceptedIs` reads
off which accessor accepts it, `StringAccessor` and `ValueAccessor` that it is the one
`Accessor` names, `WrittenSurvives` (from `HalfSurvives`) that a half is handed out as a float32
with this half.

### Only model-checked

* `ParseReturns`: liveness under fairness, out of reach of the prover. Its ranking argument is
  `LoopAdvances`: `pos` and then `off` grow with each turn and are bounded by the input
  (`ReaderTypeOK`), and only a handler that assigns a buffer starts it anew, which the
  model allows `MaxBuffers` times. Left to TLC is that a fair loop takes its next turn.
* The six violations, which are counterexamples.

## 6. Not modelled

* Logging, version information, typedefs: no state.
* Failing allocations whose result the code dereferences at once (writer, reader,
  element, `ujo_state`): the process ends there.
* `fopen` failures, and a constructor whose header cannot be written: the application gets
  no object; the second leaks what was allocated.
* A memory reader on an incomplete or foreign buffer: the code checks no bound, so
  nothing can be said about it; the model gives it closed documents only.
* `ujo_reader_set_buffer` on a file reader: the code does not refuse it, and resets the
  state while the file position stays; its documentation speaks of memory readers.
* Handlers that call `ujo_reader_get_first`, `ujo_reader_get_next` or `ujo_reader_parse` of the reader
  whose loop has called them: the code allows it and the loop goes on behind what they have read. Handlers
  that assign a buffer or a handler, or stop the loop, are modelled.
* Handlers that free the reader from inside the callback: the loop then uses freed memory.
* Tables of 2^32 columns or more, whose counters wrap.
* What is read back once a string of 2^32 units or more was accepted: the count on the wire
  is not its length.

## 7. Plan

Done, in this order: `UjoConstants`, `UjoState`, `UjoWriter`, `UjoGrammar`,
`UjoReader`, `UjoRoundTrip`, `UjoBuffer` with `UjoSink`, the proofs about writer and
buffer; then `UjoFloat16`, `UjoEndian`, `UjoScalar`, `UjoElement`, the calls out of order,
retries and limits of sections 2 to 4, and the proofs about numbers.

Then the proofs about octets, the reader, the round trip and the accessors.

Then the grammar, and that the parse loop advances. Every safety property of a passing run is
now stated by a theorem; what is left are the parts of section 6.
