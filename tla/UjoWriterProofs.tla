-------------------------- MODULE UjoWriterProofs ---------------------------
(***************************************************************************)
(* The writer keeps its types, the nesting of its containers and a closed  *)
(* document, for every choice of the constants: any depth, any number of   *)
(* elements, any number of failing puts and dropped pushes.                *)
(***************************************************************************)
EXTENDS UjoWriter, UjoStateProofs, UjoFloat16Proofs

\* The inductive invariant: Nesting needs to know that doc is a machine.
IInv == TypeOK /\ Kept(doc)

USE DEF IInv

-----------------------------------------------------------------------------
(* Chunks, elements and the shape of a handler.                             *)

\* A number put in either byte order is a chunk.
LEMMA ChunkIs ==
    ASSUME NEW v \in Nat, NEW n \in Nat
    PROVE  /\ Little(v, n) \in Chunks /\ Native(v, n) \in Chunks
           /\ Little(v, n).size = n /\ Native(v, n).size = n
  BY WriterAssumption DEF Chunks, Little, Native

\* A single octet is a chunk.
LEMMA ByteIs ==
    ASSUME NEW v \in Nat
    PROVE  Byte(v) \in Chunks
  BY ChunkIs DEF Byte

\* The error codes a handler returns are among those of ujo_errors.h.
LEMMA CodesAre ==
    /\ UJO_SUCCESS \in UjoErrors /\ PutError \in UjoErrors
    /\ UJO_ERR_TYPE_MISPLACED \in UjoErrors /\ UJO_ERR_INVALID_OBJECT \in UjoErrors
    /\ UJO_ERR_INVALID_DATA \in UjoErrors
  BY DEF UjoErrors, PutError

\* A call that returns early keeps the invariant.
LEMMA RejectKeeps ==
    ASSUME IInv, NEW code \in UjoErrors, Reject(code)
    PROVE  IInv'
  BY DEF Reject, TypeOK, Kept, Nested, Path

\* A failed put leaves chunks, the last one perhaps torn, and counts as a fault.
LEMMA PutFailsKeeps ==
    ASSUME TypeOK, NEW chunks \in Seq(Chunks), PutFails(chunks)
    PROVE  wire' \in Seq(Chunks) /\ faults' \in 0 .. MaxFaults
  <1>1. faults' \in 0 .. MaxFaults
    <2>1. faults < MaxFaults /\ faults' = faults + 1 /\ faults \in 0 .. MaxFaults
      BY DEF PutFails, TypeOK
    <2> QED  BY <2>1, WriterAssumption
  <1>2. wire \in Seq(Chunks)
    BY DEF TypeOK
  <1>3. PICK k \in 1 .. Len(chunks) :
            \/ wire' = wire \o SubSeq(chunks, 1, k - 1)
            \/ \E s \in 1 .. chunks[k].size - 1 :
                 wire' = wire \o SubSeq(chunks, 1, k - 1)
                              \o <<[chunks[k] EXCEPT !.size = s, !.order = "torn"]>>
    BY DEF PutFails
  <1>4. SubSeq(chunks, 1, k - 1) \in Seq(Chunks) /\ chunks[k] \in Chunks
    OBVIOUS
  <1> DEFINE fore == SubSeq(chunks, 1, k - 1)
             sent == wire \o fore
  <1> HIDE DEF fore
  <1>5. sent \in Seq(Chunks)
    <2>1. fore \in Seq(Chunks)
      BY <1>4 DEF fore
    <2>2. sent \in Seq(Chunks)
      BY <1>2, <2>1
    <2> QED  BY <2>2
  <1> HIDE DEF sent
  <1>6. CASE wire' = sent
    BY <1>1, <1>5, <1>6
  <1>7. ASSUME NEW s \in 1 .. chunks[k].size - 1,
               wire' = sent \o <<[chunks[k] EXCEPT !.size = s, !.order = "torn"]>>
        PROVE  wire' \in Seq(Chunks)
    <2> DEFINE torn == [chunks[k] EXCEPT !.size = s, !.order = "torn"]
               last == <<torn>>
    <2>1. s \in Nat
      BY <1>4 DEF Chunks
    <2>2. torn \in Chunks
      BY <1>4, <2>1 DEF Chunks
    <2> HIDE DEF torn
    <2>3. last \in Seq(Chunks)
      BY <2>2
    <2>4. wire' = sent \o last
      BY <1>7 DEF torn
    <2> HIDE DEF last
    <2>5. wire' \in Seq(Chunks)
      BY <1>5, <2>3, <2>4
    <2> QED  BY <2>5
  <1> QED  BY <1>1, <1>3, <1>6, <1>7 DEF sent, fore

\* A handler keeps the invariant if both machines it may leave do.
LEMMA PerformKeeps ==
    ASSUME IInv, NEW chunks \in Seq(Chunks), NEW e \in Elements,
           NEW STATE done, done \in Machines, Kept(done),
           NEW STATE failed, failed \in Machines, Kept(failed),
           Perform(chunks, e, done, failed)
    PROVE  IInv'
  <1>1. wtype' \in Destinations /\ freed' \in BOOLEAN
    BY DEF Perform, TypeOK
  <1>2. CASE /\ PutOk(chunks) /\ doc' = done /\ ret' = UJO_SUCCESS
             /\ acked' = Append(acked, e) /\ UNCHANGED reported
    <2>1. wire' \in Seq(Chunks) /\ faults' \in 0 .. MaxFaults
      BY <1>2 DEF PutOk, TypeOK
    <2>2. acked' \in Seq(Elements)
      BY <1>2 DEF TypeOK
    <2>3. doc' \in Machines /\ Kept(doc')
      BY <1>2
    <2> QED  BY <1>1, <1>2, <2>1, <2>2, <2>3, CodesAre DEF TypeOK, Kept, Nested, Path
  <1>3. CASE /\ PutFails(chunks) /\ doc' = failed /\ ret' = PutError
             /\ reported' = TRUE /\ UNCHANGED acked
    <2>1. wire' \in Seq(Chunks) /\ faults' \in 0 .. MaxFaults
      BY <1>3, PutFailsKeeps
    <2>2. doc' \in Machines /\ Kept(doc')
      BY <1>3
    <2> QED  BY <1>1, <1>3, <2>1, <2>2, CodesAre DEF TypeOK, Kept, Nested, Path
  <1> QED  BY <1>2, <1>3 DEF Perform

\* An accepted value keeps the invariant: its state change is ujo_state_switch.
LEMMA AddKeeps ==
    ASSUME IInv, NEW e \in Elements, NEW event, NEW chunks \in Seq(Chunks),
           Add(e, event, chunks)
    PROVE  IInv'
  <1>1. PICK grow \in Grow :
            Perform(chunks, e, ujo_state_switch(event, doc, grow), doc)
    BY DEF Add
  <1>2. grow \in BOOLEAN
    BY DEF Grow
  <1>3. doc \in Machines /\ Kept(doc)
    BY DEF TypeOK
  <1>4. /\ ujo_state_switch(event, doc, grow) \in Machines
        /\ Kept(ujo_state_switch(event, doc, grow))
    BY <1>2, <1>3, SwitchIsMachine, SwitchNests
  <1> QED  BY <1>1, <1>3, <1>4, PerformKeeps

\* The functions that write a value with a type octet keep the invariant.
LEMMA AddAtomicKeeps ==
    ASSUME IInv, NEW t \in AtomicTypes, NEW chunks \in Seq(Chunks),
           NEW data \in SUBSET (Members \X Nat), AddAtomic(t, chunks, data)
    PROVE  IInv'
  <1>1. t \in 0 .. 255
    BY DEF AtomicTypes, UJO_TYPE_FLOAT64, UJO_TYPE_TIMESTAMP
  <1>2. Element(t, data) \in Elements
    BY <1>1 DEF Element, Elements
  <1>3. <<Byte(t)>> \o chunks \in Seq(Chunks)
    <2>1. Byte(t) \in Chunks
      BY <1>1, ByteIs
    <2>2. <<Byte(t)>> \in Seq(Chunks)
      BY <2>1
    <2> QED  BY <2>2
  <1>4. CASE Reject(UJO_ERR_TYPE_MISPLACED)
    BY <1>4, RejectKeeps, CodesAre
  <1>5. CASE Add(Element(t, data), "ATOMIC_FOUND", <<Byte(t)>> \o chunks)
    BY <1>2, <1>3, <1>5, AddKeeps
  <1> QED  BY <1>4, <1>5 DEF AddAtomic

\* The functions that write one number keep the invariant.
LEMMA ScalarKeeps ==
    ASSUME IInv, NEW t \in AtomicTypes, NEW x \in Nat, NEW n \in Nat,
           Scalar(t, x, n)
    PROVE  IInv'
  <1>1. <<Little(x, n)>> \in Seq(Chunks)
    BY ChunkIs
  <1>2. {<<"value", x>>} \in SUBSET (Members \X Nat)
    BY DEF Members
  <1> QED  BY <1>1, <1>2, AddAtomicKeeps DEF Scalar

-----------------------------------------------------------------------------
(* One lemma per group of calls.                                            *)

\* Every function that writes an integer, a float, a boolean or a Unix time.
LEMMA AddScalarKeeps ==
    ASSUME IInv, AddScalar
    PROVE  IInv'
  <1>1. PICK x \in Values :
            \E t \in AtomicTypes, n \in Nat : Scalar(t, x, n)
    BY DEF AddScalar, AtomicTypes, ujo_writer_add_int64, ujo_writer_add_int32,
           ujo_writer_add_int16, ujo_writer_add_int8, ujo_writer_add_uint64,
           ujo_writer_add_uint32, ujo_writer_add_uint16, ujo_writer_add_uint8,
           ujo_writer_add_float32, ujo_writer_add_float64, ujo_writer_add_uxtime,
           ujo_writer_add_bool, UJO_TYPE_FLOAT64, UJO_TYPE_FLOAT32, UJO_TYPE_INT64,
           UJO_TYPE_INT32, UJO_TYPE_INT16, UJO_TYPE_INT8, UJO_TYPE_UINT64,
           UJO_TYPE_UINT32, UJO_TYPE_UINT16, UJO_TYPE_UINT8, UJO_TYPE_BOOL,
           UJO_TYPE_UX_TIME, UJO_TYPE_TIMESTAMP
  <1>2. x \in Nat
    BY WriterAssumption
  <1> QED  BY <1>1, <1>2, ScalarKeeps

\* A half is rejected when its exponent is all ones, else a number like others.
LEMMA AddHalfKeeps ==
    ASSUME IInv, AddHalf
    PROVE  IInv'
  <1>1. PICK f \in Floats : ujo_writer_add_float16(f)
    BY DEF AddHalf
  <1> DEFINE h == float_to_half(f)
  <1>2. h \in Nat /\ UJO_TYPE_FLOAT16 \in AtomicTypes
    <2>1. f \in Float32s
      BY WriterAssumption
    <2>2. h \in Nat
      BY <2>1, FloatToHalfIs, SMT
    <2> QED  BY <2>2 DEF AtomicTypes, UJO_TYPE_FLOAT64, UJO_TYPE_FLOAT16,
                         UJO_TYPE_TIMESTAMP
  <1> HIDE DEF h
  <1>3. CASE Reject(UJO_ERR_INVALID_DATA)
    BY <1>3, RejectKeeps, CodesAre
  <1>4. CASE Scalar(UJO_TYPE_FLOAT16, h, 2)
    BY <1>2, <1>4, ScalarKeeps
  <1> QED  BY <1>1, <1>3, <1>4 DEF ujo_writer_add_float16, h

\* Dates, times and timestamps.
LEMMA AddDateTimeKeeps ==
    ASSUME IInv, AddDateTime
    PROVE  IInv'
  <1>1. /\ UJO_TYPE_DATE \in AtomicTypes /\ UJO_TYPE_TIME \in AtomicTypes
        /\ UJO_TYPE_TIMESTAMP \in AtomicTypes
    BY DEF AtomicTypes, UJO_TYPE_FLOAT64, UJO_TYPE_DATE, UJO_TYPE_TIME,
           UJO_TYPE_TIMESTAMP
  <1>2. \A v \in Values : v \in Nat /\ Byte(v) \in Chunks /\ Little(v, 2) \in Chunks
    BY WriterAssumption, ChunkIs, ByteIs
  <1>3. ASSUME NEW d \in [year : Values, month : Values, day : Values],
               ujo_writer_add_date(d)
        PROVE  IInv'
    <2>1. d.year \in Values /\ d.month \in Values /\ d.day \in Values
      OBVIOUS
    <2>2. <<Little(d.year, 2), Byte(d.month), Byte(d.day)>> \in Seq(Chunks)
      BY <1>2, <2>1
    <2>3. {<<"year", d.year>>, <<"month", d.month>>, <<"day", d.day>>}
             \in SUBSET (Members \X Nat)
      BY <1>2, <2>1 DEF Members
    <2> QED  BY <1>1, <1>3, <2>2, <2>3, AddAtomicKeeps DEF ujo_writer_add_date
  <1>4. ASSUME NEW d \in [hour : Values, minute : Values, second : Values],
               ujo_writer_add_time(d)
        PROVE  IInv'
    <2>1. d.hour \in Values /\ d.minute \in Values /\ d.second \in Values
      OBVIOUS
    <2>2. <<Byte(d.hour), Byte(d.minute), Byte(d.second)>> \in Seq(Chunks)
      BY <1>2, <2>1
    <2>3. {<<"hour", d.hour>>, <<"minute", d.minute>>, <<"second", d.second>>}
             \in SUBSET (Members \X Nat)
      BY <1>2, <2>1 DEF Members
    <2> QED  BY <1>1, <1>4, <2>2, <2>3, AddAtomicKeeps DEF ujo_writer_add_time
  <1>5. ASSUME NEW d \in [year : Values, month : Values, day : Values, hour : Values,
                          minute : Values, second : Values, millisecond : Values],
               ujo_writer_add_timestamp(d)
        PROVE  IInv'
    <2>1. /\ d.year \in Values /\ d.month \in Values /\ d.day \in Values
          /\ d.hour \in Values /\ d.minute \in Values /\ d.second \in Values
          /\ d.millisecond \in Values
      OBVIOUS
    <2>2. <<Little(d.year, 2), Byte(d.month), Byte(d.day), Byte(d.hour),
            Byte(d.minute), Byte(d.second), Little(d.millisecond, 2)>> \in Seq(Chunks)
      BY <1>2, <2>1
    <2>3. {<<"year", d.year>>, <<"month", d.month>>, <<"day", d.day>>,
           <<"hour", d.hour>>, <<"minute", d.minute>>, <<"second", d.second>>,
           <<"millisecond", d.millisecond>>} \in SUBSET (Members \X Nat)
      BY <1>2, <2>1 DEF Members
    <2> QED  BY <1>1, <1>5, <2>2, <2>3, AddAtomicKeeps DEF ujo_writer_add_timestamp
  <1> QED  BY <1>3, <1>4, <1>5 DEF AddDateTime

\* A string or a binary: type, subtype, number of units and its block.
LEMMA SizedIs ==
    ASSUME NEW t \in 0 .. 255, NEW sub \in Nat, NEW n \in Nat, NEW x \in Nat,
           NEW block \in Chunks
    PROVE  /\ Sized(t, sub, n, block) \in Seq(Chunks)
           /\ Element(t, Stored(sub, n, x)) \in Elements
  <1> DEFINE count == n % Mod32
  <1>0. count \in Nat
    BY WriterAssumption
  <1>1. Byte(t) \in Chunks /\ Byte(sub) \in Chunks /\ Native(count, 4) \in Chunks
    BY <1>0, ByteIs, ChunkIs
  <1>2. <<Byte(t), Byte(sub), Native(count, 4)>> \in Seq(Chunks)
    BY <1>1
  <1>3. Block(block) \in Seq(Chunks)
    BY DEF Block
  <1>4. Stored(sub, n, x) \in SUBSET (Members \X Nat)
    BY DEF Stored, Members
  <1>5. Sized(t, sub, n, block) \in Seq(Chunks)
    BY <1>2, <1>3 DEF Sized
  <1>6. Element(t, Stored(sub, n, x)) \in Elements
    BY <1>4 DEF Element, Elements
  <1> QED  BY <1>5, <1>6

\* A string of any subtype.
LEMMA AddStringKeeps ==
    ASSUME IInv, NEW sub \in Nat, NEW n \in Nat, NEW x \in Nat,
           NEW block \in Chunks, AddString(sub, n, x, block)
    PROVE  IInv'
  <1>1. UJO_TYPE_STRING \in 0 .. 255
    BY DEF UJO_TYPE_STRING
  <1>2. CASE Reject(UJO_ERR_TYPE_MISPLACED)
    BY <1>2, RejectKeeps, CodesAre
  <1>3. CASE Add(Element(UJO_TYPE_STRING, Stored(sub, n, x)), "STRING_FOUND",
                 Sized(UJO_TYPE_STRING, sub, n, block))
    BY <1>1, <1>3, SizedIs, AddKeeps
  <1> QED  BY <1>2, <1>3 DEF AddString

\* A binary.
LEMMA AddBinaryKeeps ==
    ASSUME IInv, NEW sub \in Nat, NEW n \in Nat, NEW x \in Nat,
           ujo_writer_add_binary(sub, n, x)
    PROVE  IInv'
  <1>1. UJO_TYPE_BIN \in 0 .. 255 /\ Little(x, n) \in Chunks
    BY ChunkIs DEF UJO_TYPE_BIN
  <1>2. CASE Reject(UJO_ERR_TYPE_MISPLACED)
    BY <1>2, RejectKeeps, CodesAre
  <1>3. CASE Add(Element(UJO_TYPE_BIN, Stored(sub, n, x)), "ATOMIC_FOUND",
                 Sized(UJO_TYPE_BIN, sub, n, Little(x, n)))
    BY <1>1, <1>3, SizedIs, AddKeeps
  <1> QED  BY <1>2, <1>3 DEF ujo_writer_add_binary

\* Every function that writes a string or a binary.
LEMMA AddSizedKeeps ==
    ASSUME IInv, AddSized
    PROVE  IInv'
  <1>1. PICK n \in Units, x \in Values :
            \/ \E len \in Units : ujo_writer_add_string_c(len, n, x)
            \/ ujo_writer_add_string_u8(n, x)
            \/ ujo_writer_add_string_u16(n, x) \/ ujo_writer_add_string_u32(n, x)
            \/ \E sub \in {0, 1} : ujo_writer_add_binary(sub, n, x)
    BY DEF AddSized
  <1>2. n \in Nat /\ x \in Nat /\ 2 * n \in Nat /\ 4 * n \in Nat
    BY WriterAssumption
  <1>3. /\ Little(x, n) \in Chunks
        /\ Native(x, 2 * n) \in Chunks /\ Native(x, 4 * n) \in Chunks
    BY <1>2, ChunkIs
  <1>4. /\ UJO_SUB_STRING_C \in Nat /\ UJO_SUB_STRING_U8 \in Nat
        /\ UJO_SUB_STRING_U16 \in Nat /\ UJO_SUB_STRING_U32 \in Nat
    BY DEF UJO_SUB_STRING_C, UJO_SUB_STRING_U8, UJO_SUB_STRING_U16, UJO_SUB_STRING_U32
  <1>5. ASSUME NEW len \in Units, ujo_writer_add_string_c(len, n, x)
        PROVE  IInv'
    <2> DEFINE units  == strnlen(len, n) + 1
               octets == Text(x, len <= n)
    <2>1. units \in Nat /\ units % Mod32 \in Nat
      BY <1>2, WriterAssumption DEF strnlen
    <2>2. octets \in Nat
      BY <1>2 DEF Text
    <2> HIDE DEF units, octets
    <2>3. Little(octets, units % Mod32) \in Chunks
      BY <2>1, <2>2, ChunkIs
    <2>4. AddString(UJO_SUB_STRING_C, units, octets, Little(octets, units % Mod32))
      BY <1>5 DEF ujo_writer_add_string_c, units, octets
    <2> QED  BY <1>4, <2>1, <2>2, <2>3, <2>4, AddStringKeeps
  <1>6. CASE ujo_writer_add_string_u8(n, x)
    BY <1>2, <1>3, <1>4, <1>6, AddStringKeeps DEF ujo_writer_add_string_u8
  <1>7. CASE ujo_writer_add_string_u16(n, x)
    BY <1>2, <1>3, <1>4, <1>7, AddStringKeeps DEF ujo_writer_add_string_u16
  <1>8. CASE ujo_writer_add_string_u32(n, x)
    BY <1>2, <1>3, <1>4, <1>8, AddStringKeeps DEF ujo_writer_add_string_u32
  <1>9. CASE \E sub \in {0, 1} : ujo_writer_add_binary(sub, n, x)
    BY <1>2, <1>9, AddBinaryKeeps
  <1> QED  BY <1>1, <1>5, <1>6, <1>7, <1>8, <1>9

\* The values without octets of their own.
LEMMA AddEmptyKeeps ==
    ASSUME IInv, AddEmpty
    PROVE  IInv'
  <1>1. CASE ujo_writer_add_none
    <2>1. UJO_TYPE_NONE \in AtomicTypes
      BY DEF AtomicTypes, UJO_TYPE_FLOAT64, UJO_TYPE_NONE, UJO_TYPE_TIMESTAMP
    <2>2. <<>> \in Seq(Chunks) /\ {} \in SUBSET (Members \X Nat)
      OBVIOUS
    <2> QED  BY <1>1, <2>1, <2>2, AddAtomicKeeps DEF ujo_writer_add_none
  <1>2. ASSUME NEW t \in Nulls, ujo_writer_add_null(t)
        PROVE  IInv'
    <2> DEFINE b == IF t >= 128 THEN 128 ELSE 0
    <2>1. t \in 0 .. 255
      BY WriterAssumption
    <2>2. <<Byte(b)>> \in Seq(Chunks)
      <3>1. b \in Nat
        OBVIOUS
      <3>2. Byte(b) \in Chunks
        BY <3>1, ByteIs
      <3> QED  BY <3>2
    <2>3. Element(t, {<<"null", 1>>}) \in Elements
      BY <2>1 DEF Element, Elements, Members
    <2>4. CASE Reject(UJO_ERR_TYPE_MISPLACED)
      BY <2>4, RejectKeeps, CodesAre
    <2>5. CASE Add(Element(t, {<<"null", 1>>}), "ATOMIC_FOUND", <<Byte(b)>>)
      BY <2>2, <2>3, <2>5, AddKeeps
    <2> QED  BY <1>2, <2>4, <2>5 DEF ujo_writer_add_null
  <1> QED  BY <1>1, <1>2 DEF AddEmpty

\* Opening a container: the state is entered before the put, so both outcomes
\* of the put leave the entered machine.
LEMMA OpenKeeps ==
    ASSUME IInv, NEW t \in ContainerTypes,
           NEW s \in {"LIST", "DICT_KEY", "TABLE_COLUMNS"}, Open(t, s)
    PROVE  IInv'
  <1>1. CASE Reject(UJO_ERR_TYPE_MISPLACED)
    BY <1>1, RejectKeeps, CodesAre
  <1>2. ASSUME ujo_state_allow_container(doc.cur.state), NEW grow \in Grow,
               Perform(<<Byte(t)>>, Element(t, {}), ujo_state_next(s, doc, grow),
                       ujo_state_next(s, doc, grow))
        PROVE  IInv'
    <2>1. t \in 0 .. 255
      BY DEF ContainerTypes, UJO_TYPE_LIST, UJO_TYPE_MAP, UJO_TYPE_TABLE
    <2>2. Byte(t) \in Chunks
      BY <2>1, ByteIs
    <2>3. <<Byte(t)>> \in Seq(Chunks) /\ Element(t, {}) \in Elements
      BY <2>1, <2>2 DEF Element, Elements
    <2>4. doc \in Machines /\ Kept(doc) /\ grow \in BOOLEAN /\ s \in ujoDocState
      BY DEF TypeOK, Grow, ujoDocState
    <2>5. doc.cur.state \in {"ROOT", "DICT_VALUE", "LIST", "TABLE_VALUES"}
      BY <1>2 DEF ujo_state_allow_container
    <2>6. /\ ujo_state_next(s, doc, grow) \in Machines
          /\ Kept(ujo_state_next(s, doc, grow))
      BY <2>4, <2>5, NextIsMachine, NextNests
    <2> QED  BY <1>2, <2>3, <2>6, PerformKeeps
  <1> QED  BY <1>1, <1>2 DEF Open

\* Leaving a container that has a parent keeps the machine and its nesting,
\* also if the parent is not told of it.
LEMMA LeaveKeeps ==
    ASSUME NEW m \in Machines, Kept(m), m.items # <<>>, NEW grow \in BOOLEAN
    PROVE  /\ ujo_state_prev(m) \in Machines /\ Kept(ujo_state_prev(m))
           /\ ujo_state_switch("CONTAINER_CLOSED", ujo_state_prev(m), grow) \in Machines
           /\ Kept(ujo_state_switch("CONTAINER_CLOSED", ujo_state_prev(m), grow))
  <1>1. ujo_state_prev(m) \in Machines /\ ujo_state_prev(m).lost = m.lost
    BY PrevIsMachine
  <1>2. Kept(ujo_state_prev(m))
    BY <1>1, PrevNests DEF Kept
  <1> QED  BY <1>1, <1>2, SwitchIsMachine, SwitchNests

\* With nothing below, a container is left only if a push was dropped.
LEMMA EmptyKeeps ==
    ASSUME IInv, doc.items = <<>>, doc.cur.state \notin {"ROOT", "CLOSED"},
           doc' = ujo_state_prev(doc),
           UNCHANGED <<wtype, wire, ret, acked, reported, faults, freed>>
    PROVE  IInv'
  <1>1. doc \in Machines /\ doc.lost
    BY NestedHasParent DEF TypeOK, Kept
  <1>2. doc' \in Machines /\ doc'.lost
    BY <1>1, PrevIsMachine
  <1> QED  BY <1>2 DEF TypeOK, Kept

\* The terminator is an octet and an element.
LEMMA TerminatorIs ==
    <<Byte(UJO_TERMINATOR)>> \in Seq(Chunks) /\ Terminator \in Elements
  <1>1. UJO_TERMINATOR \in Nat /\ UJO_TERMINATOR \in 0 .. 255
    BY DEF UJO_TERMINATOR
  <1>2. Byte(UJO_TERMINATOR) \in Chunks
    BY <1>1, ByteIs
  <1> QED  BY <1>1, <1>2 DEF Terminator, Element, Elements

\* Closing a list or a map.
LEMMA CloseKeeps ==
    ASSUME IInv, NEW s \in {"LIST", "DICT_KEY"}, Close(s)
    PROVE  IInv'
  <1>1. CASE Reject(UJO_ERR_INVALID_OBJECT)
    BY <1>1, RejectKeeps, CodesAre
  <1>2. ASSUME doc.items # <<>>, NEW grow \in Grow,
               Perform(<<Byte(UJO_TERMINATOR)>>, Terminator,
                       ujo_state_switch("CONTAINER_CLOSED", ujo_state_prev(doc), grow),
                       ujo_state_prev(doc))
        PROVE  IInv'
    <2>1. doc \in Machines /\ Kept(doc) /\ grow \in BOOLEAN
      BY DEF TypeOK, Grow
    <2> QED  BY <1>2, <2>1, LeaveKeeps, TerminatorIs, PerformKeeps
  <1>3. CASE /\ doc.cur.state = s /\ doc.items = <<>> /\ doc' = ujo_state_prev(doc)
             /\ UNCHANGED <<wtype, wire, ret, acked, reported, faults, freed>>
    BY <1>3, EmptyKeeps
  <1> QED  BY <1>1, <1>2, <1>3 DEF Close

\* The end of the columns: the struct in use becomes that of the body.
LEMMA EndColumnsKeeps ==
    ASSUME IInv, ujo_writer_table_end_columns
    PROVE  IInv'
  <1>1. CASE Reject(UJO_ERR_INVALID_OBJECT)
    BY <1>1, RejectKeeps, CodesAre
  <1>2. CASE /\ doc.cur.state = "TABLE_COLUMNS" /\ doc.cur.columns > 0
             /\ Perform(<<Byte(UJO_TERMINATOR)>>, Terminator,
                        [doc EXCEPT !.cur.state = "TABLE_VALUES"], doc)
    <2> DEFINE s == [doc.cur EXCEPT !.state = "TABLE_VALUES"]
               r == [doc EXCEPT !.cur.state = "TABLE_VALUES"]
    <2>1. doc \in Machines /\ doc.cur \in ujo_state /\ Kept(doc)
      BY DEF TypeOK, Machines
    <2>2. /\ s \in ujo_state /\ s.state = "TABLE_VALUES"
          /\ s.column = doc.cur.column /\ s.columns = doc.cur.columns
      BY <2>1 DEF ujo_state, ujoDocState
    <2>3. r = [doc EXCEPT !.cur = s]
      BY <2>1 DEF Machines
    <2> HIDE DEF s
    <2>4. r \in Machines /\ r.lost = doc.lost
      BY <2>1, <2>2, <2>3 DEF Machines
    <2>5. Nested(doc) => doc.cur.column = 0
      <3>1. /\ Len(doc.items) + 1 \in 1 .. Len(Path(doc))
            /\ Path(doc)[Len(doc.items) + 1] = doc.cur
        BY <2>1, PathIs, ItemsAre
      <3> QED  BY <1>2, <3>1 DEF Nested, Counted
    <2>6. Nested(doc) => Nested(r)
      BY <1>2, <2>1, <2>2, <2>3, <2>5, TopNests
    <2>7. Kept(r)
      BY <2>1, <2>4, <2>6 DEF Kept
    <2> QED  BY <1>2, <2>1, <2>4, <2>7, TerminatorIs, PerformKeeps
  <1> QED  BY <1>1, <1>2 DEF ujo_writer_table_end_columns

\* Closing a table, whose put may fail without anyone noticing.
LEMMA TableCloseKeeps ==
    ASSUME IInv, ujo_writer_table_close
    PROVE  IInv'
  <1>1. CASE Reject(UJO_ERR_INVALID_OBJECT)
    BY <1>1, RejectKeeps, CodesAre
  <1>2. ASSUME doc.items # <<>>, NEW grow \in Grow,
               doc' = ujo_state_switch("CONTAINER_CLOSED", ujo_state_prev(doc), grow),
               PutOk(<<Byte(UJO_TERMINATOR)>>) \/ PutFails(<<Byte(UJO_TERMINATOR)>>),
               ret' = UJO_SUCCESS, acked' = Append(acked, Terminator),
               UNCHANGED <<wtype, reported, freed>>
        PROVE  IInv'
    <2>1. doc \in Machines /\ Kept(doc) /\ grow \in BOOLEAN
      BY DEF TypeOK, Grow
    <2>2. doc' \in Machines /\ Kept(doc')
      BY <1>2, <2>1, LeaveKeeps
    <2>3. wire' \in Seq(Chunks) /\ faults' \in 0 .. MaxFaults
      <3>1. CASE PutOk(<<Byte(UJO_TERMINATOR)>>)
        <4> DEFINE cs == <<Byte(UJO_TERMINATOR)>>
        <4>1. wire \in Seq(Chunks) /\ cs \in Seq(Chunks)
          BY TerminatorIs DEF TypeOK
        <4>2. wire' = wire \o cs /\ faults' \in 0 .. MaxFaults
          BY <3>1 DEF PutOk, TypeOK
        <4> HIDE DEF cs
        <4> QED  BY <4>1, <4>2
      <3>2. CASE PutFails(<<Byte(UJO_TERMINATOR)>>)
        BY <3>2, TerminatorIs, PutFailsKeeps
      <3> QED  BY <1>2, <3>1, <3>2
    <2>4. acked' \in Seq(Elements)
      BY <1>2, TerminatorIs DEF TypeOK
    <2> QED  BY <1>2, <2>2, <2>3, <2>4, CodesAre DEF TypeOK, Kept, Nested, Path
  <1>3. CASE /\ doc.cur.state = "TABLE_VALUES" /\ doc.items = <<>>
             /\ doc' = ujo_state_prev(doc)
             /\ UNCHANGED <<wtype, wire, ret, acked, reported, faults, freed>>
    BY <1>3, EmptyKeeps
  <1> QED  BY <1>1, <1>2, <1>3 DEF ujo_writer_table_close

-----------------------------------------------------------------------------
(* The theorems.                                                            *)

\* A new writer, its header on the wire, satisfies the invariant.
LEMMA InitKeeps == WInit => IInv
  <1> SUFFICES ASSUME WInit PROVE IInv
    OBVIOUS
  <1>1. doc \in Machines /\ doc.cur = NewState("ROOT") /\ doc.items = <<>>
    BY DEF WInit, NewMachine, NewState, Machines, ujo_state, ujoDocState
  <1>2. wire \in Seq(Chunks)
    <2>1. /\ UJO_MAGIC \in Nat /\ UJO_DATA_VERSION \in Nat /\ UJO_COMPRESS_NONE \in Nat
      BY DEF UJO_MAGIC, UJO_DATA_VERSION, UJO_COMPRESS_NONE
    <2>2. /\ Little(UJO_MAGIC, 4) \in Chunks /\ Little(UJO_DATA_VERSION, 2) \in Chunks
          /\ Byte(UJO_COMPRESS_NONE) \in Chunks
      BY <2>1, ChunkIs, ByteIs
    <2> QED  BY <2>2 DEF WInit, Header
  <1>3. Nested(doc)
    <2>1. Len(Path(doc)) = 1 /\ Path(doc)[1] = NewState("ROOT")
      BY <1>1 DEF Path
    <2> QED  BY <2>1 DEF Nested, Stacked, Counted, NewState
  <1>4. faults \in 0 .. MaxFaults
    BY WriterAssumption DEF WInit
  <1>5. acked \in Seq(Elements)
    BY DEF WInit
  <1>6. ret \in UjoErrors
    BY CodesAre DEF WInit
  <1>7. wtype \in Destinations /\ reported \in BOOLEAN /\ freed \in BOOLEAN
    BY DEF WInit
  <1> QED  BY <1>1, <1>2, <1>3, <1>4, <1>5, <1>6, <1>7 DEF TypeOK, Kept

\* Every call, accepted, rejected or failing half way, keeps the invariant.
LEMMA NextKeeps == IInv /\ [WNext]_wvars => IInv'
  <1> SUFFICES ASSUME IInv, [WNext]_wvars PROVE IInv'
    OBVIOUS
  <1>1. CASE AddScalar    BY <1>1, AddScalarKeeps
  <1>2. CASE AddHalf      BY <1>2, AddHalfKeeps
  <1>3. CASE AddDateTime  BY <1>3, AddDateTimeKeeps
  <1>4. CASE AddSized     BY <1>4, AddSizedKeeps
  <1>5. CASE AddEmpty     BY <1>5, AddEmptyKeeps
  <1>6. CASE Containers
    <2>1. /\ UJO_TYPE_LIST \in ContainerTypes /\ UJO_TYPE_MAP \in ContainerTypes
          /\ UJO_TYPE_TABLE \in ContainerTypes
      BY DEF ContainerTypes
    <2>2. CASE ujo_writer_list_open
      BY <2>1, <2>2, OpenKeeps DEF ujo_writer_list_open
    <2>3. CASE ujo_writer_map_open
      BY <2>1, <2>3, OpenKeeps DEF ujo_writer_map_open
    <2>4. CASE ujo_writer_table_open
      BY <2>1, <2>4, OpenKeeps DEF ujo_writer_table_open
    <2>5. CASE ujo_writer_list_close
      BY <2>5, CloseKeeps DEF ujo_writer_list_close
    <2>6. CASE ujo_writer_map_close
      BY <2>6, CloseKeeps DEF ujo_writer_map_close
    <2>7. CASE ujo_writer_table_end_columns
      BY <2>7, EndColumnsKeeps
    <2>8. CASE ujo_writer_table_close
      BY <2>8, TableCloseKeeps
    <2> QED  BY <1>6, <2>2, <2>3, <2>4, <2>5, <2>6, <2>7, <2>8 DEF Containers
  <1>7. CASE ujo_free_writer
    BY <1>7, CodesAre DEF ujo_free_writer, TypeOK, Kept, Nested, Path
  <1>8. CASE UNCHANGED wvars
    BY <1>8 DEF wvars, TypeOK, Kept, Nested, Path
  <1> QED  BY <1>1, <1>2, <1>3, <1>4, <1>5, <1>6, <1>7, <1>8 DEF WNext

\* Whatever sequence of calls an application makes, the writer object, its
\* stack and the chunks it has put are of their types (ujo_writer.c).
THEOREM TypeCorrect == WSpec => []TypeOK
  <1>1. IInv => TypeOK
    OBVIOUS
  <1> QED  BY <1>1, InitKeeps, NextKeeps, PTL DEF WSpec

\* Whatever is nested in whatever, however deep, and whichever puts fail: while
\* no push was dropped, the states on the stack are those of properly nested
\* containers and no table row is longer than its columns (ujo_state.c).
THEOREM NestingHolds == WSpec => []Nesting
  <1>1. IInv => Nesting
    BY DEF Kept, Nesting
  <1> QED  BY <1>1, InitKeeps, NextKeeps, PTL DEF WSpec

\* A call on a closed document that reaches its end changes nothing of it.
LEMMA ClosedRejects ==
    ASSUME doc.cur.state = "CLOSED", WNext
    PROVE  UNCHANGED <<doc, acked, wire>>
  <1>1. /\ ~ujo_state_allow_atomic(doc.cur.state) /\ ~ujo_state_allow_string(doc.cur.state)
        /\ ~ujo_state_allow_container(doc.cur.state)
    BY DEF ujo_state_allow_atomic, ujo_state_allow_string, ujo_state_allow_container
  <1>2. \A code : Reject(code) => UNCHANGED <<doc, acked, wire>>
    BY DEF Reject
  <1>3. \A t, chunks, data : AddAtomic(t, chunks, data) => Reject(UJO_ERR_TYPE_MISPLACED)
    BY <1>1 DEF AddAtomic
  <1>4. \A t, x, n : Scalar(t, x, n) => Reject(UJO_ERR_TYPE_MISPLACED)
    BY <1>3 DEF Scalar
  <1>5. \A sub, n, x, block :
            AddString(sub, n, x, block) => Reject(UJO_ERR_TYPE_MISPLACED)
    BY <1>1 DEF AddString
  <1>6. CASE AddScalar
    BY <1>2, <1>4, <1>6
       DEF AddScalar, ujo_writer_add_int64, ujo_writer_add_int32,
           ujo_writer_add_int16, ujo_writer_add_int8, ujo_writer_add_uint64,
           ujo_writer_add_uint32, ujo_writer_add_uint16, ujo_writer_add_uint8,
           ujo_writer_add_float32, ujo_writer_add_float64, ujo_writer_add_uxtime,
           ujo_writer_add_bool
  <1>7. CASE AddHalf
    BY <1>1, <1>2, <1>4, <1>7 DEF AddHalf, ujo_writer_add_float16
  <1>8. CASE AddDateTime
    BY <1>2, <1>3, <1>8
       DEF AddDateTime, ujo_writer_add_date, ujo_writer_add_time, ujo_writer_add_timestamp
  <1>9. CASE AddSized
    BY <1>1, <1>2, <1>5, <1>9
       DEF AddSized, ujo_writer_add_string_c, ujo_writer_add_string_u8,
           ujo_writer_add_string_u16, ujo_writer_add_string_u32, ujo_writer_add_binary
  <1>10. CASE AddEmpty
    BY <1>1, <1>2, <1>3, <1>10 DEF AddEmpty, ujo_writer_add_none, ujo_writer_add_null
  <1>11. CASE Containers
    BY <1>1, <1>2, <1>11
       DEF Containers, ujo_writer_list_open, ujo_writer_map_open, ujo_writer_table_open,
           Open, ujo_writer_list_close, ujo_writer_map_close, Close,
           ujo_writer_table_end_columns, ujo_writer_table_close
  <1>12. CASE ujo_free_writer
    BY <1>12 DEF ujo_free_writer
  <1> QED  BY <1>6, <1>7, <1>8, <1>9, <1>10, <1>11, <1>12 DEF WNext

\* A closed document is final: no later call, nor its failure, changes the
\* document, the accepted elements or the octets (ujo_writer_list_close).
THEOREM ClosedStays == WSpec => ClosedIsFinal
  <1>1. [WNext]_wvars =>
            [doc.cur.state = "CLOSED" => UNCHANGED <<doc, acked, wire>>]_wvars
    BY ClosedRejects DEF wvars
  <1> QED  BY <1>1, PTL DEF WSpec, ClosedIsFinal
=============================================================================
