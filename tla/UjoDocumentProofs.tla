-------------------------- MODULE UjoDocumentProofs -------------------------
(***************************************************************************)
(* What the writer leaves at its destination: each call, seen as the       *)
(* element it accepts, the chunks it puts for it and the move of its state *)
(* machine; and from that, that no octet is missing or written twice.      *)
(***************************************************************************)
EXTENDS UjoDocument, UjoWriterProofs, WellFoundedInduction, SequenceTheorems

-----------------------------------------------------------------------------
(* Induction over the naturals, in the form of sets, and from it what a    *)
(* sum over a sequence is.                                                 *)

\* A set of naturals that is not empty has a least member.
LEMMA LeastMember ==
    ASSUME NEW T, T \subseteq Nat, T # {}
    PROVE  \E x \in T : \A y \in T : x <= y
  <1> DEFINE R == OpToRel(<, Nat)
  <1>1. \A x, y \in Nat : <<y, x>> \in R <=> y < x
    BY DEF OpToRel
  <1>2. IsWellFoundedOn(R, Nat)
    BY NatLessThanWellFounded
  <1> HIDE DEF R
  <1>3. PICK x \in T : \A y \in T : ~ (<<y, x>> \in R)
    BY <1>2, WFMin
  <1>4. ASSUME NEW y \in T
        PROVE  x <= y
    <2>1. x \in Nat /\ y \in Nat
      OBVIOUS
    <2>2. ~ (y < x)
      BY <1>1, <1>3, <2>1
    <2> QED  BY <2>1, <2>2
  <1> QED  BY <1>4

\* Induction: a set that has zero and with a number the next has them all.
LEMMA Induction ==
    ASSUME NEW S, 0 \in S, \A n \in Nat : n \in S => n + 1 \in S
    PROVE  Nat \subseteq S
  <1> DEFINE T == {n \in Nat : n \notin S}
  <1>1. SUFFICES ASSUME T # {} PROVE FALSE
    OBVIOUS
  <1>2. T \subseteq Nat
    OBVIOUS
  <1>3. PICK x \in T : \A y \in T : x <= y
    BY <1>1, <1>2, LeastMember
  <1>4. x \in Nat /\ x # 0
    OBVIOUS
  <1>5. x - 1 \in Nat /\ x - 1 \notin T
    BY <1>3, <1>4
  <1> QED  BY <1>4, <1>5

-----------------------------------------------------------------------------
\* The partial sums of s, from none of its numbers to all of them.
Partial(f, s) ==
    /\ f \in [0 .. Len(s) -> Nat]
    /\ f[0] = 0
    /\ \A i \in 1 .. Len(s) : f[i] = f[i - 1] + s[i]

\* The partial sums of a longer sequence.
Longer(f, s, x) == [i \in 0 .. Len(s) + 1 |-> IF i <= Len(s) THEN f[i] ELSE f[Len(s)] + x]

\* One more number adds one more partial sum.
LEMMA PartialExtends ==
    ASSUME NEW s \in Seq(Nat), NEW x \in Nat, NEW f, Partial(f, s)
    PROVE  Partial(Longer(f, s, x), Append(s, x))
  <1> DEFINE g == Longer(f, s, x)
             t == Append(s, x)
  <1>1. Len(t) = Len(s) + 1 /\ Len(s) \in Nat /\ t[Len(s) + 1] = x
    OBVIOUS
  <1>2. \A i \in 1 .. Len(s) : t[i] = s[i]
    OBVIOUS
  <1>3. f[Len(s)] \in Nat /\ f[0] = 0
    BY DEF Partial
  <1>4. g \in [0 .. Len(s) + 1 -> Nat]
    BY <1>3 DEF Longer, Partial
  <1>5. \A i \in 0 .. Len(s) : g[i] = f[i]
    BY DEF Longer
  <1>6. g[Len(s) + 1] = f[Len(s)] + x
    BY DEF Longer
  <1> HIDE DEF g, t
  <1>7. ASSUME NEW i \in 1 .. Len(s) + 1
        PROVE  g[i] = g[i - 1] + t[i]
    <2>1. CASE i = Len(s) + 1
      BY <1>1, <1>5, <1>6, <2>1
    <2>2. CASE i \in 1 .. Len(s)
      <3>1. g[i] = f[i] /\ g[i - 1] = f[i - 1] /\ t[i] = s[i]
        BY <1>2, <1>5, <2>2, SMTT(60)
      <3> QED  BY <2>2, <3>1 DEF Partial
    <2> QED  BY <2>1, <2>2
  <1>8. g[0] = 0
    BY <1>1, <1>3, <1>5
  <1>9. Partial(g, t)
    BY <1>1, <1>4, <1>7, <1>8 DEF Partial
  <1> QED  BY <1>9 DEF g, t

\* Every sequence of naturals has partial sums.
LEMMA PartialExists ==
    ASSUME NEW s \in Seq(Nat)
    PROVE  \E f : Partial(f, s)
  <1> DEFINE S == {n \in Nat : \A t \in Seq(Nat) : Len(t) = n => \E f : Partial(f, t)}
  <1>1. 0 \in S
    <2> SUFFICES ASSUME NEW t \in Seq(Nat), Len(t) = 0
                 PROVE  \E f : Partial(f, t)
      OBVIOUS
    <2>1. Partial([i \in 0 .. 0 |-> 0], t)
      BY DEF Partial
    <2> QED  BY <2>1
  <1>2. ASSUME NEW n \in Nat, n \in S
        PROVE  n + 1 \in S
    <2> SUFFICES ASSUME NEW t \in Seq(Nat), Len(t) = n + 1
                 PROVE  \E f : Partial(f, t)
      OBVIOUS
    <2> DEFINE front == SubSeq(t, 1, n)
    <2>1. front \in Seq(Nat) /\ Len(front) = n /\ t[n + 1] \in Nat
      OBVIOUS
    <2>2. t = Append(front, t[n + 1])
      OBVIOUS
    <2> HIDE DEF front
    <2>3. PICK f : Partial(f, front)
      BY <1>2, <2>1
    <2> QED  BY <2>1, <2>2, <2>3, PartialExtends
  <1> HIDE DEF S
  <1>3. Len(s) \in S
    BY <1>1, <1>2, Induction, SMTT(60)
  <1> QED  BY <1>3 DEF S

\* The sum is the last of the partial sums.
LEMMA SumIs ==
    ASSUME NEW s \in Seq(Nat), NEW f, Partial(f, s)
    PROVE  Sum(s) = f[Len(s)] /\ Sum(s) \in Nat
  <1> DEFINE Rec(g) == g = [i \in 0 .. Len(s) |-> IF i = 0 THEN 0 ELSE g[i - 1] + s[i]]
             u == CHOOSE g : Rec(g)
  <1>1. Rec(f)
    BY DEF Partial
  <1>2. Rec(u)
    BY <1>1
  <1>3. Sum(s) = u[Len(s)]
    BY DEF Sum
  <1> HIDE DEF u
  <1> DEFINE S == {n \in Nat : n <= Len(s) => u[n] = f[n]}
  <1>4. 0 \in S
    <2>1. u[0] = 0
      BY <1>2
    <2> QED  BY <2>1 DEF Partial
  <1>5. ASSUME NEW n \in Nat, n \in S
        PROVE  n + 1 \in S
    <2> SUFFICES ASSUME n + 1 <= Len(s) PROVE u[n + 1] = f[n + 1]
      OBVIOUS
    <2>1. u[n + 1] = u[n] + s[n + 1]
      BY <1>2
    <2>2. f[n + 1] = f[n] + s[n + 1]
      BY DEF Partial
    <2> QED  BY <1>5, <2>1, <2>2
  <1> HIDE DEF S
  <1>6. Len(s) \in S
    BY <1>4, <1>5, Induction, SMTT(60)
  <1>7. u[Len(s)] = f[Len(s)]
    BY <1>6 DEF S
  <1> QED  BY <1>3, <1>7 DEF Partial

\* The sum of naturals is a natural, and of none it is zero.
LEMMA SumNat ==
    ASSUME NEW s \in Seq(Nat)
    PROVE  /\ Sum(s) \in Nat
           /\ s = <<>> => Sum(s) = 0
  <1>1. PICK f : Partial(f, s)
    BY PartialExists
  <1>2. s = <<>> => f[Len(s)] = 0
    BY <1>1 DEF Partial
  <1> QED  BY <1>1, <1>2, SumIs

\* One more number.
LEMMA SumAppend ==
    ASSUME NEW s \in Seq(Nat), NEW x \in Nat
    PROVE  Sum(Append(s, x)) = Sum(s) + x
  <1>1. PICK f : Partial(f, s)
    BY PartialExists
  <1> DEFINE g == Longer(f, s, x)
             t == Append(s, x)
  <1>2. Partial(g, t)
    BY <1>1, PartialExtends
  <1>3. g[Len(s) + 1] = f[Len(s)] + x
    BY DEF Longer
  <1>4. t \in Seq(Nat) /\ Len(t) = Len(s) + 1
    OBVIOUS
  <1> HIDE DEF g, t
  <1>5. Sum(t) = g[Len(t)]
    BY <1>2, <1>4, SumIs
  <1>6. Sum(s) = f[Len(s)]
    BY <1>1, SumIs
  <1> QED  BY <1>3, <1>4, <1>5, <1>6 DEF t

-----------------------------------------------------------------------------
\* The octets are counted by a natural, and nothing has none.
LEMMA BytesNat ==
    ASSUME NEW C, \A c \in C : c.size \in Nat, NEW ws \in Seq(C)
    PROVE  /\ Bytes(ws) \in Nat
           /\ ws = <<>> => Bytes(ws) = 0
  <1> DEFINE sizes == [i \in 1 .. Len(ws) |-> ws[i].size]
  <1>1. sizes \in Seq(Nat) /\ (ws = <<>> => sizes = <<>>)
    OBVIOUS
  <1> HIDE DEF sizes
  <1> QED  BY <1>1, SumNat DEF Bytes, sizes

\* One more chunk.
LEMMA BytesAppend ==
    ASSUME NEW C, \A c \in C : c.size \in Nat, NEW ws \in Seq(C), NEW c \in C
    PROVE  Bytes(Append(ws, c)) = Bytes(ws) + c.size
  <1> DEFINE sizes == [i \in 1 .. Len(ws) |-> ws[i].size]
             all   == Append(ws, c)
             sizesAll == [i \in 1 .. Len(all) |-> all[i].size]
  <1>1. sizes \in Seq(Nat) /\ Len(sizes) = Len(ws) /\ c.size \in Nat
    OBVIOUS
  <1>2. /\ Len(all) = Len(ws) + 1 /\ all[Len(ws) + 1] = c /\ Len(ws) \in Nat
        /\ \A i \in 1 .. Len(ws) : all[i] = ws[i]
    OBVIOUS
  <1> HIDE DEF all
  <1>3. sizesAll = Append(sizes, c.size)
    <2>1. Append(sizes, c.size) = [i \in 1 .. Len(ws) + 1 |->
                                     IF i <= Len(ws) THEN sizes[i] ELSE c.size]
      BY <1>1
    <2> QED  BY <1>2, <2>1
  <1> HIDE DEF sizes, sizesAll
  <1>4. Sum(sizesAll) = Sum(sizes) + c.size
    BY <1>1, <1>3, SumAppend
  <1> QED  BY <1>4 DEF Bytes, sizes, sizesAll, all

\* Two sequences of chunks, one after the other.
LEMMA BytesConcat ==
    ASSUME NEW C, \A c \in C : c.size \in Nat, NEW ws \in Seq(C), NEW vs \in Seq(C)
    PROVE  Bytes(ws \o vs) = Bytes(ws) + Bytes(vs)
  <1> DEFINE S == {n \in Nat : \A us \in Seq(C) :
                      Len(us) = n => Bytes(ws \o us) = Bytes(ws) + Bytes(us)}
  <1>1. 0 \in S
    <2> SUFFICES ASSUME NEW us \in Seq(C), Len(us) = 0
                 PROVE  Bytes(ws \o us) = Bytes(ws) + Bytes(us)
      OBVIOUS
    <2>1. us = <<>> /\ ws \o us = ws
      OBVIOUS
    <2>2. Bytes(us) = 0 /\ Bytes(ws) \in Nat
      BY <2>1, BytesNat
    <2> QED  BY <2>1, <2>2
  <1>2. ASSUME NEW n \in Nat, n \in S
        PROVE  n + 1 \in S
    <2> SUFFICES ASSUME NEW us \in Seq(C), Len(us) = n + 1
                 PROVE  Bytes(ws \o us) = Bytes(ws) + Bytes(us)
      OBVIOUS
    <2> DEFINE front == SubSeq(us, 1, n)
               last  == us[n + 1]
    <2>1. front \in Seq(C) /\ Len(front) = n /\ last \in C
      OBVIOUS
    <2>2. us = Append(front, last)
      OBVIOUS
    <2> HIDE DEF front, last
    <2>3. ws \o us = Append(ws \o front, last) /\ ws \o front \in Seq(C)
      BY <2>1, <2>2
    <2>4. Bytes(ws \o front) = Bytes(ws) + Bytes(front)
      BY <1>2, <2>1
    <2>5. Bytes(us) = Bytes(front) + last.size
      BY <2>1, <2>2, BytesAppend
    <2>6. Bytes(ws \o us) = Bytes(ws \o front) + last.size
      BY <2>1, <2>3, BytesAppend
    <2>7. Bytes(ws) \in Nat /\ Bytes(front) \in Nat /\ last.size \in Nat
      BY <2>1, BytesNat
    <2> QED  BY <2>4, <2>5, <2>6, <2>7
  <1> HIDE DEF S
  <1>3. Len(vs) \in S
    BY <1>1, <1>2, Induction
  <1> QED  BY <1>3 DEF S

\* One chunk.
LEMMA BytesOne ==
    ASSUME NEW C, \A d \in C : d.size \in Nat, NEW c \in C
    PROVE  Bytes(<<c>>) = c.size
  <1>1. <<>> \in Seq(C) /\ <<c>> = Append(<<>>, c)
    OBVIOUS
  <1>2. Bytes(<<>>) = 0
    BY <1>1, BytesNat
  <1>3. Bytes(Append(<<>>, c)) = Bytes(<<>>) + c.size
    BY <1>1, BytesAppend
  <1>4. c.size \in Nat
    OBVIOUS
  <1> QED  BY <1>1, <1>2, <1>3, <1>4

-----------------------------------------------------------------------------
(* The encodings of the format.                                             *)

TagTypes == {UJO_TERMINATOR, UJO_TYPE_NONE} \cup ContainerTypes

SizedTypes == {UJO_TYPE_STRING, UJO_TYPE_BIN}

ScalarTypes == AtomicTypes \ (SizedTypes \cup
    {UJO_TYPE_NONE, UJO_TYPE_DATE, UJO_TYPE_TIME, UJO_TYPE_TIMESTAMP})

Dates      == [year : Nat, month : Nat, day : Nat]
Times      == [hour : Nat, minute : Nat, second : Nat]
Timestamps == [year : Nat, month : Nat, day : Nat, hour : Nat, minute : Nat,
               second : Nat, millisecond : Nat]

\* A type octet and nothing else.
CodedTag(e, ws) ==
    \E t \in TagTypes : e = Element(t, {}) /\ ws = <<Byte(t)>>

\* A half the writer does not refuse.
HalfWritten(x) == \E f \in Float32s : x = float_to_half(f) /\ Finite(x)

\* A number of the width of its type.
CodedScalar(e, ws) ==
    \E t \in ScalarTypes, x \in Nat :
        /\ t = UJO_TYPE_FLOAT16 => HalfWritten(x)
        /\ e = Element(t, {<<"value", x>>})
        /\ ws = <<Byte(t), Little(x, FixedSize(t) - 1)>>

CodedDate(e, ws) ==
    \E d \in Dates :
        /\ e = Element(UJO_TYPE_DATE,
                       {<<"year", d.year>>, <<"month", d.month>>, <<"day", d.day>>})
        /\ ws = <<Byte(UJO_TYPE_DATE), Little(d.year, 2), Byte(d.month), Byte(d.day)>>

CodedTime(e, ws) ==
    \E d \in Times :
        /\ e = Element(UJO_TYPE_TIME,
                       {<<"hour", d.hour>>, <<"minute", d.minute>>, <<"second", d.second>>})
        /\ ws = <<Byte(UJO_TYPE_TIME), Byte(d.hour), Byte(d.minute), Byte(d.second)>>

CodedTimestamp(e, ws) ==
    \E d \in Timestamps :
        /\ e = Element(UJO_TYPE_TIMESTAMP,
                 {<<"year", d.year>>, <<"month", d.month>>, <<"day", d.day>>,
                  <<"hour", d.hour>>, <<"minute", d.minute>>, <<"second", d.second>>,
                  <<"millisecond", d.millisecond>>})
        /\ ws = <<Byte(UJO_TYPE_TIMESTAMP), Little(d.year, 2), Byte(d.month), Byte(d.day),
                  Byte(d.hour), Byte(d.minute), Byte(d.second), Little(d.millisecond, 2)>>

\* The octets of a unit of a string or a binary.
Unit(t, sub) == IF t = UJO_TYPE_STRING THEN UnitSize(sub) ELSE 1

\* A subtype, a count and, unless the count is cast to a smaller number, a
\* block of that many units, in the order of the host if a unit has more than
\* one octet.
CodedSized(e, ws) ==
    \E t \in SizedTypes, sub \in Nat, n \in Nat, block \in Chunks :
        /\ t = UJO_TYPE_STRING => sub \in 0 .. 3
        /\ n < Mod32 => block.size = n * Unit(t, sub)
        /\ n = 0 => block.val = 0
        /\ block.order = Host \/ Unit(t, sub) = 1
        /\ e = Element(t, Stored(sub, n, block.val))
        /\ ws = Sized(t, sub, n, block)

CodedNull(e, ws) ==
    \E t \in Nulls : /\ e = Element(t, {<<"null", 1>>})
                     /\ ws = <<Byte(IF t >= 128 THEN 128 ELSE 0)>>

Coded(e, ws) ==
    \/ CodedTag(e, ws) \/ CodedScalar(e, ws) \/ CodedDate(e, ws) \/ CodedTime(e, ws)
    \/ CodedTimestamp(e, ws) \/ CodedSized(e, ws) \/ CodedNull(e, ws)

-----------------------------------------------------------------------------
(* Their octets.                                                            *)

\* A length that its uint32_t can count.
Counts(e) == \A m \in e.data : m[1] = "n" => m[2] < Mod32

\* A chunk has a number of octets.
LEMMA SizeIs == \A c \in Chunks : c.size \in Nat
  BY DEF Chunks

\* An octet, and a number of two octets.
LEMMA SmallChunks ==
    ASSUME NEW v \in Nat
    PROVE  /\ Byte(v) \in Chunks /\ Byte(v).size = 1
           /\ Little(v, 2) \in Chunks /\ Little(v, 2).size = 2
  BY ChunkIs DEF Byte

\* The octets of one chunk.
LEMMA BytesOneIs ==
    ASSUME NEW a \in Chunks
    PROVE  <<a>> \in Seq(Chunks) /\ Bytes(<<a>>) = a.size
  <1>1. Bytes(<<a>>) = a.size
    BY SizeIs, BytesOne
  <1> QED  BY <1>1

\* The octets of two chunks.
LEMMA BytesTwo ==
    ASSUME NEW a \in Chunks, NEW b \in Chunks
    PROVE  <<a, b>> \in Seq(Chunks) /\ Bytes(<<a, b>>) = a.size + b.size
  <1>1. <<a>> \in Seq(Chunks) /\ <<a, b>> \in Seq(Chunks) /\ <<a, b>> = Append(<<a>>, b)
    OBVIOUS
  <1>2. Bytes(Append(<<a>>, b)) = Bytes(<<a>>) + b.size
    BY <1>1, SizeIs, BytesAppend
  <1> QED  BY <1>1, <1>2, BytesOneIs

\* The octets of three chunks.
LEMMA BytesThree ==
    ASSUME NEW a \in Chunks, NEW b \in Chunks, NEW c \in Chunks
    PROVE  <<a, b, c>> \in Seq(Chunks) /\ Bytes(<<a, b, c>>) = a.size + b.size + c.size
  <1>1. /\ <<a, b>> \in Seq(Chunks) /\ <<a, b, c>> \in Seq(Chunks)
        /\ <<a, b, c>> = Append(<<a, b>>, c)
    OBVIOUS
  <1>2. Bytes(Append(<<a, b>>, c)) = Bytes(<<a, b>>) + c.size
    BY <1>1, SizeIs, BytesAppend
  <1>3. Bytes(<<a, b>>) = a.size + b.size
    BY BytesTwo
  <1> QED  BY <1>1, <1>2, <1>3

\* What the octets of an element come from.
Fits(e, ws) ==
    /\ ws \in Seq(Chunks) /\ e \in Elements
    /\ Octets(e) \in Nat
    /\ Counts(e) => Bytes(ws) = Octets(e)

\* The type ids are octets.
LEMMA TypesAre ==
    /\ TagTypes \subseteq 0 .. 255 /\ ScalarTypes \subseteq 0 .. 255
    /\ SizedTypes \subseteq 0 .. 255 /\ ContainerTypes \subseteq 0 .. 255
    /\ AtomicTypes \subseteq 0 .. 255
    /\ UJO_TYPE_DATE \in 0 .. 255 /\ UJO_TYPE_TIME \in 0 .. 255
    /\ UJO_TYPE_TIMESTAMP \in 0 .. 255
  BY DEF TagTypes, ScalarTypes, SizedTypes, AtomicTypes, ContainerTypes,
         UJO_TERMINATOR, UJO_TYPE_NONE, UJO_TYPE_LIST, UJO_TYPE_MAP, UJO_TYPE_TABLE,
         UJO_TYPE_FLOAT64, UJO_TYPE_TIMESTAMP, UJO_TYPE_STRING, UJO_TYPE_BIN,
         UJO_TYPE_DATE, UJO_TYPE_TIME

\* Only strings and binaries depend on more than their type.
LEMMA OctetsFixed ==
    ASSUME NEW t, NEW data, t \notin SizedTypes, data # {<<"null", 1>>}
    PROVE  Octets(Element(t, data)) = FixedSize(t)
  BY DEF Octets, Element, SizedTypes

\* A type octet.
LEMMA TagFits ==
    ASSUME NEW e, NEW ws, CodedTag(e, ws)
    PROVE  Fits(e, ws)
  <1>1. PICK t \in TagTypes : e = Element(t, {}) /\ ws = <<Byte(t)>>
    BY DEF CodedTag
  <1>2. t \in 0 .. 255 /\ Byte(t) \in Chunks /\ Byte(t).size = 1
    BY TypesAre, ChunkIs DEF Byte
  <1>3. FixedSize(t) = 1 /\ t \notin SizedTypes
    BY DEF FixedSize, TagTypes, SizedTypes, ContainerTypes, UJO_TERMINATOR,
           UJO_TYPE_NONE, UJO_TYPE_LIST, UJO_TYPE_MAP, UJO_TYPE_TABLE,
           UJO_TYPE_FLOAT32, UJO_TYPE_FLOAT16, UJO_TYPE_STRING,
           UJO_TYPE_INT32, UJO_TYPE_INT16, UJO_TYPE_INT8, UJO_TYPE_UINT32,
           UJO_TYPE_UINT16, UJO_TYPE_UINT8, UJO_TYPE_BOOL, UJO_TYPE_BIN,
           UJO_TYPE_DATE, UJO_TYPE_TIME, UJO_TYPE_TIMESTAMP
  <1>4. Octets(e) = 1
    BY <1>1, <1>3, OctetsFixed
  <1>5. e \in Elements
    BY <1>1, <1>2 DEF Element, Elements
  <1>6. ws \in Seq(Chunks) /\ Bytes(ws) = 1
    BY <1>1, <1>2, BytesOneIs
  <1> QED  BY <1>4, <1>5, <1>6 DEF Fits

\* The widths of the numbers.
LEMMA WidthIs ==
    ASSUME NEW t \in ScalarTypes
    PROVE  FixedSize(t) - 1 \in {1, 2, 4, 8}
  BY DEF ScalarTypes, SizedTypes, AtomicTypes, FixedSize, ContainerTypes,
         UJO_TERMINATOR, UJO_TYPE_NONE, UJO_TYPE_LIST, UJO_TYPE_MAP, UJO_TYPE_TABLE,
         UJO_TYPE_FLOAT64, UJO_TYPE_FLOAT32, UJO_TYPE_FLOAT16, UJO_TYPE_STRING,
         UJO_TYPE_INT64, UJO_TYPE_INT32, UJO_TYPE_INT16, UJO_TYPE_INT8,
         UJO_TYPE_UINT64, UJO_TYPE_UINT32, UJO_TYPE_UINT16, UJO_TYPE_UINT8,
         UJO_TYPE_BOOL, UJO_TYPE_BIN, UJO_TYPE_UX_TIME, UJO_TYPE_DATE, UJO_TYPE_TIME,
         UJO_TYPE_TIMESTAMP

\* A number.
LEMMA ScalarFits ==
    ASSUME NEW e, NEW ws, CodedScalar(e, ws)
    PROVE  Fits(e, ws)
  <1>1. PICK t \in ScalarTypes, x \in Nat :
            /\ e = Element(t, {<<"value", x>>})
            /\ ws = <<Byte(t), Little(x, FixedSize(t) - 1)>>
    BY DEF CodedScalar
  <1> DEFINE n == FixedSize(t) - 1
             c == Little(x, n)
  <1>2. n \in {1, 2, 4, 8}
    BY WidthIs
  <1>3. n \in Nat /\ t \in 0 .. 255 /\ t \notin SizedTypes
    BY <1>2, TypesAre DEF ScalarTypes
  <1>4. Octets(e) = FixedSize(t) /\ e \in Elements
    <2>1. {<<"value", x>>} # {<<"null", 1>>} /\ {<<"value", x>>} \in SUBSET (Members \X Nat)
      BY DEF Members
    <2>2. Octets(e) = FixedSize(t)
      BY <1>1, <1>3, <2>1, OctetsFixed
    <2> QED  BY <1>1, <1>3, <2>1, <2>2 DEF Element, Elements
  <1>5. Byte(t) \in Chunks /\ c \in Chunks /\ Byte(t).size = 1 /\ c.size = n
    BY <1>3, ChunkIs DEF Byte
  <1>6. FixedSize(t) = n + 1
    <2>1. FixedSize(t) \in Nat
      BY DEF ScalarTypes, SizedTypes, AtomicTypes, FixedSize, ContainerTypes,
         UJO_TERMINATOR, UJO_TYPE_NONE, UJO_TYPE_LIST, UJO_TYPE_MAP, UJO_TYPE_TABLE,
         UJO_TYPE_FLOAT64, UJO_TYPE_FLOAT32, UJO_TYPE_FLOAT16, UJO_TYPE_STRING,
         UJO_TYPE_INT32, UJO_TYPE_INT16, UJO_TYPE_INT8,
         UJO_TYPE_UINT32, UJO_TYPE_UINT16, UJO_TYPE_UINT8,
         UJO_TYPE_BOOL, UJO_TYPE_BIN, UJO_TYPE_DATE, UJO_TYPE_TIME,
         UJO_TYPE_TIMESTAMP
    <2> QED  BY <2>1
  <1> HIDE DEF n, c
  <1>7. ws = <<Byte(t), c>>
    BY <1>1 DEF n, c
  <1>8. ws \in Seq(Chunks) /\ Bytes(ws) = 1 + n
    <2>1. <<Byte(t), c>> \in Seq(Chunks) /\ Bytes(<<Byte(t), c>>) = Byte(t).size + c.size
      BY <1>5, BytesTwo
    <2> QED  BY <1>3, <1>5, <1>7, <2>1
  <1> QED  BY <1>3, <1>4, <1>6, <1>8 DEF Fits

\* A date.
LEMMA DateFits ==
    ASSUME NEW e, NEW ws, CodedDate(e, ws)
    PROVE  Fits(e, ws)
  <1> DEFINE D == UJO_TYPE_DATE
  <1>1. PICK d \in Dates :
            /\ e = Element(D, {<<"year", d.year>>, <<"month", d.month>>, <<"day", d.day>>})
            /\ ws = <<Byte(D), Little(d.year, 2), Byte(d.month), Byte(d.day)>>
    BY DEF CodedDate
  <1> DEFINE data == {<<"year", d.year>>, <<"month", d.month>>, <<"day", d.day>>}
  <1>2. d.year \in Nat /\ d.month \in Nat /\ d.day \in Nat /\ D \in 0 .. 255
    BY TypesAre DEF Dates
  <1>3. data \in SUBSET (Members \X Nat) /\ data # {<<"null", 1>>}
    BY <1>2 DEF Members
  <1>4. FixedSize(D) = 5 /\ D \notin SizedTypes
    BY DEF FixedSize, SizedTypes, ContainerTypes, UJO_TERMINATOR,
           UJO_TYPE_NONE, UJO_TYPE_LIST, UJO_TYPE_MAP, UJO_TYPE_TABLE,
           UJO_TYPE_FLOAT32, UJO_TYPE_FLOAT16, UJO_TYPE_STRING,
           UJO_TYPE_INT32, UJO_TYPE_INT16, UJO_TYPE_INT8, UJO_TYPE_UINT32,
           UJO_TYPE_UINT16, UJO_TYPE_UINT8, UJO_TYPE_BOOL, UJO_TYPE_BIN,
           UJO_TYPE_DATE, UJO_TYPE_TIME, UJO_TYPE_TIMESTAMP
  <1>5. Octets(e) = 5
    BY <1>1, <1>3, <1>4, OctetsFixed
  <1>6. e \in Elements
    BY <1>1, <1>2, <1>3 DEF Element, Elements
  <1>7. /\ Byte(D) \in Chunks /\ Little(d.year, 2) \in Chunks
        /\ Byte(d.month) \in Chunks /\ Byte(d.day) \in Chunks
        /\ Byte(D).size = 1 /\ Little(d.year, 2).size = 2
        /\ Byte(d.month).size = 1 /\ Byte(d.day).size = 1
    BY <1>2, SmallChunks
  <1>8. ws \in Seq(Chunks) /\ Bytes(ws) = 5
    <2>1. /\ <<Byte(D), Little(d.year, 2), Byte(d.month)>> \in Seq(Chunks)
          /\ Bytes(<<Byte(D), Little(d.year, 2), Byte(d.month)>>) = 4
      BY <1>7, BytesThree
    <2>2. ws = Append(<<Byte(D), Little(d.year, 2), Byte(d.month)>>, Byte(d.day))
      BY <1>1
    <2>3. Bytes(ws) = 4 + 1
      BY <1>7, <2>1, <2>2, SizeIs, BytesAppend
    <2> QED  BY <1>7, <2>1, <2>2, <2>3
  <1> QED  BY <1>5, <1>6, <1>8 DEF Fits

\* A time of day.
LEMMA TimeFits ==
    ASSUME NEW e, NEW ws, CodedTime(e, ws)
    PROVE  Fits(e, ws)
  <1> DEFINE D == UJO_TYPE_TIME
  <1>1. PICK d \in Times :
            /\ e = Element(D, {<<"hour", d.hour>>, <<"minute", d.minute>>,
                               <<"second", d.second>>})
            /\ ws = <<Byte(D), Byte(d.hour), Byte(d.minute), Byte(d.second)>>
    BY DEF CodedTime
  <1> DEFINE data == {<<"hour", d.hour>>, <<"minute", d.minute>>, <<"second", d.second>>}
  <1>2. d.hour \in Nat /\ d.minute \in Nat /\ d.second \in Nat /\ D \in 0 .. 255
    BY TypesAre DEF Times
  <1>3. data \in SUBSET (Members \X Nat) /\ data # {<<"null", 1>>}
    BY <1>2 DEF Members
  <1>4. FixedSize(D) = 4 /\ D \notin SizedTypes
    BY DEF FixedSize, SizedTypes, ContainerTypes, UJO_TERMINATOR,
           UJO_TYPE_NONE, UJO_TYPE_LIST, UJO_TYPE_MAP, UJO_TYPE_TABLE,
           UJO_TYPE_FLOAT32, UJO_TYPE_FLOAT16, UJO_TYPE_STRING,
           UJO_TYPE_INT32, UJO_TYPE_INT16, UJO_TYPE_INT8, UJO_TYPE_UINT32,
           UJO_TYPE_UINT16, UJO_TYPE_UINT8, UJO_TYPE_BOOL, UJO_TYPE_BIN,
           UJO_TYPE_DATE, UJO_TYPE_TIME, UJO_TYPE_TIMESTAMP
  <1>5. Octets(e) = 4
    BY <1>1, <1>3, <1>4, OctetsFixed
  <1>6. e \in Elements
    BY <1>1, <1>2, <1>3 DEF Element, Elements
  <1>7. /\ Byte(D) \in Chunks /\ Byte(d.hour) \in Chunks
        /\ Byte(d.minute) \in Chunks /\ Byte(d.second) \in Chunks
        /\ Byte(D).size = 1 /\ Byte(d.hour).size = 1
        /\ Byte(d.minute).size = 1 /\ Byte(d.second).size = 1
    BY <1>2, SmallChunks
  <1>8. ws \in Seq(Chunks) /\ Bytes(ws) = 4
    <2>1. /\ <<Byte(D), Byte(d.hour), Byte(d.minute)>> \in Seq(Chunks)
          /\ Bytes(<<Byte(D), Byte(d.hour), Byte(d.minute)>>) = 3
      BY <1>7, BytesThree
    <2>2. ws = Append(<<Byte(D), Byte(d.hour), Byte(d.minute)>>, Byte(d.second))
      BY <1>1
    <2>3. Bytes(ws) = 3 + 1
      BY <1>7, <2>1, <2>2, SizeIs, BytesAppend
    <2> QED  BY <1>7, <2>1, <2>2, <2>3
  <1> QED  BY <1>5, <1>6, <1>8 DEF Fits

\* A date and a time of day.
LEMMA TimestampFits ==
    ASSUME NEW e, NEW ws, CodedTimestamp(e, ws)
    PROVE  Fits(e, ws)
  <1> DEFINE D == UJO_TYPE_TIMESTAMP
  <1>1. PICK d \in Timestamps :
            /\ e = Element(D,
                 {<<"year", d.year>>, <<"month", d.month>>, <<"day", d.day>>,
                  <<"hour", d.hour>>, <<"minute", d.minute>>, <<"second", d.second>>,
                  <<"millisecond", d.millisecond>>})
            /\ ws = <<Byte(D), Little(d.year, 2), Byte(d.month), Byte(d.day),
                      Byte(d.hour), Byte(d.minute), Byte(d.second), Little(d.millisecond, 2)>>
    BY DEF CodedTimestamp
  <1> DEFINE data == {<<"year", d.year>>, <<"month", d.month>>, <<"day", d.day>>,
                  <<"hour", d.hour>>, <<"minute", d.minute>>, <<"second", d.second>>,
                  <<"millisecond", d.millisecond>>}
  <1>2. /\ d.year \in Nat /\ d.month \in Nat /\ d.day \in Nat /\ D \in 0 .. 255
        /\ d.hour \in Nat /\ d.minute \in Nat /\ d.second \in Nat /\ d.millisecond \in Nat
    BY TypesAre DEF Timestamps
  <1>3. data \in SUBSET (Members \X Nat) /\ data # {<<"null", 1>>}
    BY <1>2 DEF Members
  <1>4. FixedSize(D) = 10 /\ D \notin SizedTypes
    BY DEF FixedSize, SizedTypes, ContainerTypes, UJO_TERMINATOR,
           UJO_TYPE_NONE, UJO_TYPE_LIST, UJO_TYPE_MAP, UJO_TYPE_TABLE,
           UJO_TYPE_FLOAT32, UJO_TYPE_FLOAT16, UJO_TYPE_STRING,
           UJO_TYPE_INT32, UJO_TYPE_INT16, UJO_TYPE_INT8, UJO_TYPE_UINT32,
           UJO_TYPE_UINT16, UJO_TYPE_UINT8, UJO_TYPE_BOOL, UJO_TYPE_BIN,
           UJO_TYPE_DATE, UJO_TYPE_TIME, UJO_TYPE_TIMESTAMP
  <1>5. Octets(e) = 10
    BY <1>1, <1>3, <1>4, OctetsFixed
  <1>6. e \in Elements
    BY <1>1, <1>2, <1>3 DEF Element, Elements
  <1> DEFINE front  == <<Byte(D), Little(d.year, 2), Byte(d.month)>>
             middle == <<Byte(d.day), Byte(d.hour), Byte(d.minute)>>
             end    == <<Byte(d.second), Little(d.millisecond, 2)>>
  <1>7. /\ Byte(D) \in Chunks /\ Byte(D).size = 1
        /\ Little(d.year, 2) \in Chunks /\ Little(d.year, 2).size = 2
        /\ Byte(d.month) \in Chunks /\ Byte(d.month).size = 1
        /\ Byte(d.day) \in Chunks /\ Byte(d.day).size = 1
        /\ Byte(d.hour) \in Chunks /\ Byte(d.hour).size = 1
        /\ Byte(d.minute) \in Chunks /\ Byte(d.minute).size = 1
        /\ Byte(d.second) \in Chunks /\ Byte(d.second).size = 1
        /\ Little(d.millisecond, 2) \in Chunks /\ Little(d.millisecond, 2).size = 2
    BY <1>2, SmallChunks
  <1>8. ws = (front \o middle) \o end
    BY <1>1
  <1>9. front \in Seq(Chunks) /\ Bytes(front) = 4
    BY <1>7, BytesThree
  <1>10. middle \in Seq(Chunks) /\ Bytes(middle) = 3
    BY <1>7, BytesThree
  <1>11. end \in Seq(Chunks) /\ Bytes(end) = 3
    BY <1>7, BytesTwo
  <1> HIDE DEF front, middle, end
  <1>12. front \o middle \in Seq(Chunks) /\ Bytes(front \o middle) = 7
    <2>1. Bytes(front \o middle) = 4 + 3
      BY <1>9, <1>10, SizeIs, BytesConcat
    <2> QED  BY <1>9, <1>10, <2>1
  <1>13. ws \in Seq(Chunks) /\ Bytes(ws) = 10
    <2>1. Bytes(ws) = 7 + 3
      BY <1>8, <1>11, <1>12, SizeIs, BytesConcat
    <2> QED  BY <1>8, <1>11, <1>12, <2>1
  <1> QED  BY <1>5, <1>6, <1>13 DEF Fits

\* The members of a string or a binary are found by their names.
LEMMA StoredMembers ==
    ASSUME NEW sub \in Nat, NEW n \in Nat, NEW x \in Nat
    PROVE  /\ Named(Stored(sub, n, x), "n") = n
           /\ Named(Stored(sub, n, x), "type") = sub
           /\ Stored(sub, n, x) # {<<"null", 1>>}
  <1> DEFINE data == Stored(sub, n, x)
  <1>1. {p[2] : p \in data} = {sub, n, x}
    BY DEF Stored
  <1>2. \A k : <<"n", k>> \in data <=> k = n
    BY DEF Stored
  <1>3. \A k : <<"type", k>> \in data <=> k = sub
    BY DEF Stored
  <1>4. data # {<<"null", 1>>}
    BY <1>2
  <1> HIDE DEF data
  <1>5. Named(data, "n") = n
    BY <1>1, <1>2 DEF Named
  <1>6. Named(data, "type") = sub
    BY <1>1, <1>3 DEF Named
  <1> QED  BY <1>4, <1>5, <1>6 DEF data

\* A string or a binary.
LEMMA SizedFits ==
    ASSUME NEW e, NEW ws, CodedSized(e, ws)
    PROVE  Fits(e, ws)
  <1>1. PICK t \in SizedTypes, sub \in Nat, n \in Nat, block \in Chunks :
            /\ n < Mod32 => block.size = n * Unit(t, sub)
            /\ e = Element(t, Stored(sub, n, block.val))
            /\ ws = Sized(t, sub, n, block)
    BY DEF CodedSized
  <1>2. t \in 0 .. 255 /\ block.val \in Nat /\ block.size \in Nat /\ Unit(t, sub) \in Nat
    BY TypesAre DEF Chunks, Unit, UnitSize
  <1>3. e \in Elements /\ ws \in Seq(Chunks)
    BY <1>1, <1>2, SizedIs
  <1>4. FixedSize(t) = 6
    BY DEF FixedSize, SizedTypes, ContainerTypes, UJO_TERMINATOR,
           UJO_TYPE_NONE, UJO_TYPE_LIST, UJO_TYPE_MAP, UJO_TYPE_TABLE,
           UJO_TYPE_FLOAT32, UJO_TYPE_FLOAT16, UJO_TYPE_STRING,
           UJO_TYPE_INT32, UJO_TYPE_INT16, UJO_TYPE_INT8, UJO_TYPE_UINT32,
           UJO_TYPE_UINT16, UJO_TYPE_UINT8, UJO_TYPE_BOOL, UJO_TYPE_BIN,
           UJO_TYPE_DATE, UJO_TYPE_TIME, UJO_TYPE_TIMESTAMP
  <1>5. Octets(e) = 6 + n * Unit(t, sub)
    <2> DEFINE data == Stored(sub, n, block.val)
    <2>1. Named(data, "n") = n /\ Named(data, "type") = sub /\ data # {<<"null", 1>>}
      BY <1>2, StoredMembers, SMTT(60)
    <2>2. e.type = t /\ e.data = data
      BY <1>1 DEF Element
    <2> HIDE DEF data
    <2> QED  BY <1>4, <2>1, <2>2 DEF Octets, SizedTypes, Unit
  <1>6. Octets(e) \in Nat
    <2>1. n * Unit(t, sub) \in Nat
      BY <1>2
    <2> QED  BY <1>5, <2>1
  <1>7. ASSUME Counts(e)
        PROVE  Bytes(ws) = Octets(e)
    <2>1. n < Mod32
      <3>1. <<"n", n>> \in e.data
        BY <1>1 DEF Element, Stored
      <3> QED  BY <1>7, <3>1 DEF Counts
    <2> DEFINE count == n % Mod32
               front == <<Byte(t), Byte(sub), Native(count, 4)>>
    <2>2. count \in Nat
      BY WriterAssumption
    <2> HIDE DEF count
    <2>3. /\ Byte(t) \in Chunks /\ Byte(sub) \in Chunks /\ Native(count, 4) \in Chunks
          /\ Byte(t).size = 1 /\ Byte(sub).size = 1 /\ Native(count, 4).size = 4
      <3>1. Native(count, 4) \in Chunks /\ Native(count, 4).size = 4
        BY <2>2, ChunkIs
      <3> QED  BY <1>2, <3>1, SmallChunks
    <2>4. front \in Seq(Chunks) /\ Bytes(front) = 6
      BY <2>3, BytesThree
    <2>5. Block(block) \in Seq(Chunks) /\ Bytes(Block(block)) = block.size
      <3>1. CASE block.size = 0
        <4>1. Block(block) = <<>> /\ <<>> \in Seq(Chunks)
          BY <3>1 DEF Block
        <4>2. Bytes(<<>>) = 0
          BY <4>1, SizeIs, BytesNat
        <4> QED  BY <3>1, <4>1, <4>2
      <3>2. CASE block.size # 0
        BY <3>2, BytesOneIs DEF Block
      <3> QED  BY <3>1, <3>2
    <2>6. ws = front \o Block(block)
      BY <1>1 DEF Sized, count
    <2> HIDE DEF front
    <2>7. Bytes(ws) = 6 + block.size
      BY <2>4, <2>5, <2>6, SizeIs, BytesConcat
    <2> QED  BY <1>1, <1>5, <2>1, <2>7
  <1> QED  BY <1>3, <1>6, <1>7 DEF Fits

\* A null is one octet, whatever type it was given.
LEMMA NullFits ==
    ASSUME NEW e, NEW ws, CodedNull(e, ws)
    PROVE  Fits(e, ws)
  <1>1. PICK t \in Nulls : /\ e = Element(t, {<<"null", 1>>})
                           /\ ws = <<Byte(IF t >= 128 THEN 128 ELSE 0)>>
    BY DEF CodedNull
  <1> DEFINE b == IF t >= 128 THEN 128 ELSE 0
  <1>2. t \in 0 .. 255 /\ b \in Nat
    BY WriterAssumption
  <1> HIDE DEF b
  <1>3. Octets(e) = 1
    BY <1>1 DEF Octets, Element
  <1>4. e \in Elements
    BY <1>1, <1>2 DEF Element, Elements, Members
  <1>5. Byte(b) \in Chunks /\ Byte(b).size = 1
    BY <1>2, SmallChunks
  <1>6. ws \in Seq(Chunks) /\ Bytes(ws) = 1
    BY <1>1, <1>5, BytesOneIs DEF b
  <1> QED  BY <1>3, <1>4, <1>6 DEF Fits

\* What is put for an element has the octets the format has for it, unless its
\* length is beyond 32 bits.
LEMMA CodedFits ==
    ASSUME NEW e, NEW ws, Coded(e, ws)
    PROVE  Fits(e, ws)
  BY TagFits, ScalarFits, DateFits, TimeFits, TimestampFits, SizedFits, NullFits DEF Coded

-----------------------------------------------------------------------------
(* What a call does.                                                        *)

\* The event of a value: a null is an atomic, also that of a string.
Event(e) ==
    IF e.type = UJO_TYPE_STRING /\ e.data # {<<"null", 1>>}
    THEN "STRING_FOUND" ELSE "ATOMIC_FOUND"

Valued(e) == e.data # {} \/ e.type = UJO_TYPE_NONE

Enters == {<<UJO_TYPE_LIST, "LIST">>, <<UJO_TYPE_MAP, "DICT_KEY">>,
           <<UJO_TYPE_TABLE, "TABLE_COLUMNS">>}

\* The machine m may take the element e, and then is r.
MovesValue(e, m, r) ==
    /\ Valued(e)
    /\ IF Event(e) = "STRING_FOUND" THEN ujo_state_allow_string(m.cur.state)
       ELSE ujo_state_allow_atomic(m.cur.state)
    /\ \E grow \in BOOLEAN : r = ujo_state_switch(Event(e), m, grow)

MovesIn(e, m, r) ==
    \E p \in Enters, grow \in BOOLEAN :
        /\ e = Element(p[1], {})
        /\ ujo_state_allow_container(m.cur.state)
        /\ r = ujo_state_next(p[2], m, grow)

MovesOut(e, m, r) ==
    /\ e = Terminator /\ m.items # <<>>
    /\ m.cur.state \in {"LIST", "DICT_KEY"} \/ (m.cur.state = "TABLE_VALUES" /\ m.cur.column = 0)
    /\ \E grow \in BOOLEAN :
          r = ujo_state_switch("CONTAINER_CLOSED", ujo_state_prev(m), grow)

MovesToRows(e, m, r) ==
    /\ e = Terminator
    /\ m.cur.state = "TABLE_COLUMNS" /\ m.cur.columns > 0
    /\ r = [m EXCEPT !.cur.state = "TABLE_VALUES"]

Moves(e, m, r) ==
    MovesValue(e, m, r) \/ MovesIn(e, m, r) \/ MovesOut(e, m, r) \/ MovesToRows(e, m, r)

\* A call accepts e and puts ws for it.
Accepts(e, ws) ==
    /\ Coded(e, ws) /\ Moves(e, doc, doc')
    /\ wire' = wire \o ws /\ acked' = Append(acked, e)
    /\ UNCHANGED reported

\* A call reports that a put has failed.
Reports == reported' = TRUE /\ UNCHANGED acked

\* A call does nothing, or dereferences the NULL of an empty stack.
Rests ==
    /\ UNCHANGED <<wire, acked, reported>>
    /\ \/ doc' = doc
       \/ /\ doc.items = <<>> /\ doc.cur.state \in ContainerStates
          /\ doc' = ujo_state_prev(doc)

\* The close of a table does not look at the put of its terminator.
Overlooks ==
    /\ "put" \in Faults /\ doc.cur.state = "TABLE_VALUES" /\ Moves(Terminator, doc, doc')
    /\ acked' = Append(acked, Terminator)
    /\ UNCHANGED reported

Called == (\E e, ws : Accepts(e, ws)) \/ Reports \/ Rests \/ Overlooks

\* A rejected call rests.
LEMMA RejectCalled ==
    ASSUME NEW code, Reject(code)
    PROVE  Called
  BY DEF Reject, Called, Rests

\* The shape all handlers share.
LEMMA PerformCalled ==
    ASSUME NEW ws, NEW e, NEW STATE done, NEW STATE failed,
           Perform(ws, e, done, failed), Coded(e, ws), Moves(e, doc, done)
    PROVE  Called
  <1>1. CASE PutOk(ws) /\ doc' = done /\ acked' = Append(acked, e) /\ UNCHANGED reported
    <2>1. Accepts(e, ws)
      BY <1>1 DEF Accepts, PutOk
    <2> QED  BY <2>1 DEF Called
  <1>2. CASE reported' = TRUE /\ UNCHANGED acked
    BY <1>2 DEF Called, Reports
  <1> QED  BY <1>1, <1>2 DEF Perform

\* The functions that write a value.
LEMMA AddCalled ==
    ASSUME NEW e, NEW ws, Add(e, Event(e), ws), Coded(e, ws), Valued(e),
           IF Event(e) = "STRING_FOUND" THEN ujo_state_allow_string(doc.cur.state)
           ELSE ujo_state_allow_atomic(doc.cur.state)
    PROVE  Called
  <1>1. PICK grow \in Grow : Perform(ws, e, ujo_state_switch(Event(e), doc, grow), doc)
    BY DEF Add
  <1>2. grow \in BOOLEAN
    BY DEF Grow
  <1>3. Moves(e, doc, ujo_state_switch(Event(e), doc, grow))
    BY <1>2 DEF Moves, MovesValue
  <1> QED  BY <1>1, <1>3, PerformCalled

\* The functions that write an atomic value, none included.
LEMMA AddAtomicCalled ==
    ASSUME NEW t, t # UJO_TYPE_STRING, NEW ws, NEW data,
           data # {} \/ t = UJO_TYPE_NONE,
           AddAtomic(t, ws, data), Coded(Element(t, data), <<Byte(t)>> \o ws)
    PROVE  Called
  <1> DEFINE e == Element(t, data)
  <1>1. e.type = t /\ e.data = data
    BY DEF Element
  <1> HIDE DEF e
  <1>2. Event(e) = "ATOMIC_FOUND" /\ Valued(e) /\ Event(e) # "STRING_FOUND"
    BY <1>1 DEF Event, Valued
  <1>3. CASE Reject(UJO_ERR_TYPE_MISPLACED)
    BY <1>3, RejectCalled
  <1>4. CASE /\ ujo_state_allow_atomic(doc.cur.state)
             /\ Add(e, "ATOMIC_FOUND", <<Byte(t)>> \o ws)
    BY <1>2, <1>4, AddCalled DEF e
  <1> QED  BY <1>3, <1>4 DEF AddAtomic, e

\* A type octet before the chunks of a value.
LEMMA Prefixed ==
    ASSUME NEW a, NEW b, NEW c, NEW d
    PROVE  /\ <<a>> \o <<>> = <<a>>
           /\ <<a>> \o <<b>> = <<a, b>>
           /\ <<a>> \o <<b, c, d>> = <<a, b, c, d>>
  <1> DEFINE S == {a, b, c, d}
  <1>1. <<a>> \o <<>> = <<a>>
    OBVIOUS
  <1>2. <<a>> \o <<b>> = <<a, b>>
    <2>1. <<a>> \o <<b>> \in Seq(S) /\ <<a, b>> \in Seq(S) /\ Len(<<a>> \o <<b>>) = 2
      OBVIOUS
    <2>2. \A i \in 1 .. 2 : (<<a>> \o <<b>>)[i] = <<a, b>>[i]
      OBVIOUS
    <2> QED  BY <2>1, <2>2, SeqEqual
  <1>3. <<a>> \o <<b, c, d>> = <<a, b, c, d>>
    <2>1. /\ <<a>> \o <<b, c, d>> \in Seq(S) /\ <<a, b, c, d>> \in Seq(S)
          /\ Len(<<a>> \o <<b, c, d>>) = 4
      OBVIOUS
    <2>2. \A i \in 1 .. 4 : (<<a>> \o <<b, c, d>>)[i] = <<a, b, c, d>>[i]
      OBVIOUS
    <2> QED  BY <2>1, <2>2, SeqEqual
  <1> QED  BY <1>1, <1>2, <1>3

\* The same for the seven members of a timestamp.
LEMMA PrefixedSeven ==
    ASSUME NEW a, NEW b, NEW c, NEW d, NEW f, NEW g, NEW h, NEW i
    PROVE  <<a>> \o <<b, c, d, f, g, h, i>> = <<a, b, c, d, f, g, h, i>>
  <1> DEFINE S == {a, b, c, d, f, g, h, i}
  <1>1. /\ <<a>> \o <<b, c, d, f, g, h, i>> \in Seq(S)
        /\ <<a, b, c, d, f, g, h, i>> \in Seq(S)
        /\ Len(<<a>> \o <<b, c, d, f, g, h, i>>) = 8
    OBVIOUS
  <1>2. \A j \in 1 .. 8 :
            (<<a>> \o <<b, c, d, f, g, h, i>>)[j] = <<a, b, c, d, f, g, h, i>>[j]
    OBVIOUS
  <1> QED  BY <1>1, <1>2, SeqEqual

\* The functions that write a number.
LEMMA ScalarCalled ==
    ASSUME NEW t \in ScalarTypes, NEW x \in Nat, Scalar(t, x, FixedSize(t) - 1),
           t = UJO_TYPE_FLOAT16 => HalfWritten(x)
    PROVE  Called
  <1> DEFINE c == Little(x, FixedSize(t) - 1)
             data == {<<"value", x>>}
  <1>1. <<Byte(t)>> \o <<c>> = <<Byte(t), c>>
    BY Prefixed
  <1>2. Coded(Element(t, data), <<Byte(t), c>>)
    BY DEF Coded, CodedScalar
  <1>3. t # UJO_TYPE_STRING /\ data # {}
    BY DEF ScalarTypes, SizedTypes
  <1>4. AddAtomic(t, <<c>>, data)
    BY DEF Scalar
  <1> HIDE DEF c, data
  <1> QED  BY <1>1, <1>2, <1>3, <1>4, AddAtomicCalled

\* Integers, floats, booleans and Unix times, with the widths of their types.
LEMMA AddScalarCalled ==
    ASSUME AddScalar
    PROVE  Called
  <1>1. PICK x \in Values :
          \E t \in ScalarTypes : t # UJO_TYPE_FLOAT16 /\ Scalar(t, x, FixedSize(t) - 1)
    BY DEF AddScalar, ScalarTypes, SizedTypes, AtomicTypes, ContainerTypes, FixedSize,
           ujo_writer_add_int64, ujo_writer_add_int32,
           ujo_writer_add_int16, ujo_writer_add_int8, ujo_writer_add_uint64,
           ujo_writer_add_uint32, ujo_writer_add_uint16, ujo_writer_add_uint8,
           ujo_writer_add_float32, ujo_writer_add_float64, ujo_writer_add_uxtime,
           ujo_writer_add_bool, UJO_TERMINATOR, UJO_TYPE_NONE, UJO_TYPE_LIST,
           UJO_TYPE_MAP, UJO_TYPE_TABLE,
           UJO_TYPE_FLOAT64, UJO_TYPE_FLOAT32, UJO_TYPE_FLOAT16, UJO_TYPE_STRING,
           UJO_TYPE_INT64, UJO_TYPE_INT32, UJO_TYPE_INT16, UJO_TYPE_INT8,
           UJO_TYPE_UINT64, UJO_TYPE_UINT32, UJO_TYPE_UINT16, UJO_TYPE_UINT8,
           UJO_TYPE_BOOL, UJO_TYPE_BIN, UJO_TYPE_UX_TIME, UJO_TYPE_DATE, UJO_TYPE_TIME,
           UJO_TYPE_TIMESTAMP
  <1>2. x \in Nat
    BY WriterAssumption
  <1> QED  BY <1>1, <1>2, ScalarCalled

\* Halves.
LEMMA AddHalfCalled ==
    ASSUME AddHalf
    PROVE  Called
  <1>1. PICK f \in Floats : ujo_writer_add_float16(f)
    BY DEF AddHalf
  <1> DEFINE h == float_to_half(f)
  <1>2. h \in Nat /\ (Finite(h) => HalfWritten(h))
    <2>1. f \in Float32s
      BY WriterAssumption
    <2>2. h \in Nat
      BY <2>1, FloatToHalfIs, SMT
    <2> QED  BY <2>1, <2>2 DEF HalfWritten
  <1> HIDE DEF h
  <1>3. UJO_TYPE_FLOAT16 \in ScalarTypes /\ FixedSize(UJO_TYPE_FLOAT16) = 3
    BY DEF ScalarTypes, SizedTypes, AtomicTypes, ContainerTypes, FixedSize,
           UJO_TERMINATOR, UJO_TYPE_NONE, UJO_TYPE_LIST,
           UJO_TYPE_MAP, UJO_TYPE_TABLE,
           UJO_TYPE_FLOAT64, UJO_TYPE_FLOAT32, UJO_TYPE_FLOAT16, UJO_TYPE_STRING,
           UJO_TYPE_INT32, UJO_TYPE_INT16, UJO_TYPE_INT8,
           UJO_TYPE_UINT32, UJO_TYPE_UINT16, UJO_TYPE_UINT8,
           UJO_TYPE_BOOL, UJO_TYPE_BIN, UJO_TYPE_DATE, UJO_TYPE_TIME,
           UJO_TYPE_TIMESTAMP
  <1>4. CASE Reject(UJO_ERR_INVALID_DATA)
    BY <1>4, RejectCalled
  <1>5. CASE Finite(h) /\ Scalar(UJO_TYPE_FLOAT16, h, 2)
    <2>1. FixedSize(UJO_TYPE_FLOAT16) - 1 = 2
      BY <1>3
    <2> QED  BY <1>2, <1>3, <1>5, <2>1, ScalarCalled
  <1>6. CASE ~ujo_state_allow_atomic(doc.cur.state) /\ Scalar(UJO_TYPE_FLOAT16, h, 2)
    <2>1. Reject(UJO_ERR_TYPE_MISPLACED)
      BY <1>6 DEF Scalar, AddAtomic
    <2> QED  BY <2>1, RejectCalled
  <1> QED  BY <1>1, <1>4, <1>5, <1>6 DEF ujo_writer_add_float16, h

\* Dates, times and timestamps.
LEMMA AddDateTimeCalled ==
    ASSUME AddDateTime
    PROVE  Called
  <1>1. Values \subseteq Nat
    BY WriterAssumption
  <1>2. /\ UJO_TYPE_DATE # UJO_TYPE_STRING /\ UJO_TYPE_TIME # UJO_TYPE_STRING
        /\ UJO_TYPE_TIMESTAMP # UJO_TYPE_STRING
    BY DEF UJO_TYPE_DATE, UJO_TYPE_TIME, UJO_TYPE_TIMESTAMP, UJO_TYPE_STRING
  <1>3. ASSUME NEW d \in [year : Values, month : Values, day : Values],
               ujo_writer_add_date(d)
        PROVE  Called
    <2> DEFINE ws == <<Little(d.year, 2), Byte(d.month), Byte(d.day)>>
               data == {<<"year", d.year>>, <<"month", d.month>>, <<"day", d.day>>}
    <2>1. d \in Dates
      BY <1>1 DEF Dates
    <2>2. <<Byte(UJO_TYPE_DATE)>> \o ws =
             <<Byte(UJO_TYPE_DATE), Little(d.year, 2), Byte(d.month), Byte(d.day)>>
      BY Prefixed
    <2>3. Coded(Element(UJO_TYPE_DATE, data), <<Byte(UJO_TYPE_DATE)>> \o ws)
      BY <2>1, <2>2 DEF Coded, CodedDate
    <2>4. AddAtomic(UJO_TYPE_DATE, ws, data) /\ data # {}
      BY <1>3 DEF ujo_writer_add_date
    <2> HIDE DEF ws, data
    <2> QED  BY <1>2, <2>3, <2>4, AddAtomicCalled
  <1>4. ASSUME NEW d \in [hour : Values, minute : Values, second : Values],
               ujo_writer_add_time(d)
        PROVE  Called
    <2> DEFINE ws == <<Byte(d.hour), Byte(d.minute), Byte(d.second)>>
               data == {<<"hour", d.hour>>, <<"minute", d.minute>>, <<"second", d.second>>}
    <2>1. d \in Times
      BY <1>1 DEF Times
    <2>2. <<Byte(UJO_TYPE_TIME)>> \o ws =
             <<Byte(UJO_TYPE_TIME), Byte(d.hour), Byte(d.minute), Byte(d.second)>>
      BY Prefixed
    <2>3. Coded(Element(UJO_TYPE_TIME, data), <<Byte(UJO_TYPE_TIME)>> \o ws)
      BY <2>1, <2>2 DEF Coded, CodedTime
    <2>4. AddAtomic(UJO_TYPE_TIME, ws, data) /\ data # {}
      BY <1>4 DEF ujo_writer_add_time
    <2> HIDE DEF ws, data
    <2> QED  BY <1>2, <2>3, <2>4, AddAtomicCalled
  <1>5. ASSUME NEW d \in [year : Values, month : Values, day : Values, hour : Values,
                          minute : Values, second : Values, millisecond : Values],
               ujo_writer_add_timestamp(d)
        PROVE  Called
    <2> DEFINE D == UJO_TYPE_TIMESTAMP
               ws == <<Little(d.year, 2), Byte(d.month), Byte(d.day), Byte(d.hour),
                       Byte(d.minute), Byte(d.second), Little(d.millisecond, 2)>>
               data == {<<"year", d.year>>, <<"month", d.month>>, <<"day", d.day>>,
                  <<"hour", d.hour>>, <<"minute", d.minute>>, <<"second", d.second>>,
                  <<"millisecond", d.millisecond>>}
    <2>1. d \in Timestamps
      BY <1>1 DEF Timestamps
    <2>2. <<Byte(D)>> \o ws =
             <<Byte(D), Little(d.year, 2), Byte(d.month), Byte(d.day),
               Byte(d.hour), Byte(d.minute), Byte(d.second), Little(d.millisecond, 2)>>
      BY PrefixedSeven
    <2>3. Coded(Element(D, data), <<Byte(D)>> \o ws)
      BY <2>1, <2>2 DEF Coded, CodedTimestamp
    <2>4. AddAtomic(D, ws, data) /\ data # {}
      BY <1>5 DEF ujo_writer_add_timestamp
    <2> HIDE DEF ws, data
    <2> QED  BY <1>2, <2>3, <2>4, AddAtomicCalled
  <1> QED  BY <1>3, <1>4, <1>5 DEF AddDateTime

\* Strings.
LEMMA AddStringCalled ==
    ASSUME NEW sub \in 0 .. 3, NEW n \in Nat, NEW block \in Chunks,
           AddString(sub, n, block.val, block),
           n < Mod32 => block.size = n * UnitSize(sub),
           n = 0 => block.val = 0,
           block.order = Host \/ UnitSize(sub) = 1
    PROVE  Called
  <1> DEFINE e == Element(UJO_TYPE_STRING, Stored(sub, n, block.val))
             ws == Sized(UJO_TYPE_STRING, sub, n, block)
  <1>1. UJO_TYPE_STRING \in SizedTypes /\ Unit(UJO_TYPE_STRING, sub) = UnitSize(sub)
    BY DEF SizedTypes, Unit
  <1>2. Coded(e, ws)
    <2>1. sub \in Nat
      OBVIOUS
    <2>2. CodedSized(e, ws)
      BY <1>1, <2>1 DEF CodedSized
    <2> QED  BY <2>2 DEF Coded
  <1>3. Event(e) = "STRING_FOUND" /\ Valued(e)
    <2>1. /\ Stored(sub, n, block.val) # {<<"null", 1>>} /\ Stored(sub, n, block.val) # {}
      <3>1. <<"n", n>> \in Stored(sub, n, block.val)
        BY DEF Stored
      <3> QED  BY <3>1
    <2> QED  BY <2>1 DEF Event, Valued, Element
  <1>4. CASE Reject(UJO_ERR_TYPE_MISPLACED)
    BY <1>4, RejectCalled
  <1>5. CASE ujo_state_allow_string(doc.cur.state) /\ Add(e, "STRING_FOUND", ws)
    <2> HIDE DEF e, ws
    <2> QED  BY <1>2, <1>3, <1>5, AddCalled
  <1> QED  BY <1>4, <1>5 DEF AddString

\* Binaries, whose length is a uint32_t.
LEMMA AddBinaryCalled ==
    ASSUME NEW sub \in Nat, NEW n \in Nat, NEW x \in Nat, n = 0 => x = 0,
           ujo_writer_add_binary(sub, n, x)
    PROVE  Called
  <1> DEFINE block == Little(x, n)
             e == Element(UJO_TYPE_BIN, Stored(sub, n, x))
             ws == Sized(UJO_TYPE_BIN, sub, n, block)
  <1>1. /\ UJO_TYPE_BIN \in SizedTypes /\ Unit(UJO_TYPE_BIN, sub) = 1
        /\ UJO_TYPE_BIN # UJO_TYPE_STRING
    BY DEF SizedTypes, Unit, UJO_TYPE_BIN, UJO_TYPE_STRING
  <1>2. block \in Chunks /\ block.size = n * 1 /\ block.val = x
    BY ChunkIs DEF Little
  <1>3. Coded(e, ws)
    <2> HIDE DEF block
    <2>1. CodedSized(e, ws)
      BY <1>1, <1>2 DEF CodedSized
    <2> QED  BY <2>1 DEF Coded
  <1>4. Event(e) = "ATOMIC_FOUND" /\ Valued(e)
    <2>1. <<"n", n>> \in Stored(sub, n, x)
      BY DEF Stored
    <2>2. Stored(sub, n, x) # {}
      BY <2>1
    <2> QED  BY <1>1, <2>2 DEF Event, Valued, Element
  <1>5. CASE Reject(UJO_ERR_TYPE_MISPLACED)
    BY <1>5, RejectCalled
  <1>6. CASE ujo_state_allow_atomic(doc.cur.state) /\ Add(e, "ATOMIC_FOUND", ws)
    <2> HIDE DEF e, ws
    <2>1. Event(e) # "STRING_FOUND"
      BY <1>4
    <2> QED  BY <1>3, <1>4, <1>6, <2>1, AddCalled
  <1> QED  BY <1>5, <1>6 DEF ujo_writer_add_binary

\* Every string and binary.
LEMMA AddSizedCalled ==
    ASSUME AddSized
    PROVE  Called
  <1>1. PICK n \in Units, x \in Values :
            /\ n = 0 => x = 0
            /\ \/ \E len \in Units : ujo_writer_add_string_c(len, n, x)
               \/ ujo_writer_add_string_u8(n, x)
               \/ ujo_writer_add_string_u16(n, x) \/ ujo_writer_add_string_u32(n, x)
               \/ \E sub \in {0, 1} : ujo_writer_add_binary(sub, n, x)
    BY DEF AddSized
  <1>2. n \in Nat /\ x \in Nat /\ 2 * n \in Nat /\ 4 * n \in Nat
    BY WriterAssumption
  <1>3. /\ UJO_SUB_STRING_C = 0 /\ UJO_SUB_STRING_U8 = 1
        /\ UJO_SUB_STRING_U16 = 2 /\ UJO_SUB_STRING_U32 = 3
    BY DEF UJO_SUB_STRING_C, UJO_SUB_STRING_U8, UJO_SUB_STRING_U16, UJO_SUB_STRING_U32
  <1>4. UnitSize(0) = 1 /\ UnitSize(1) = 1 /\ UnitSize(2) = 2 /\ UnitSize(3) = 4
    BY <1>3 DEF UnitSize
  <1>5. ASSUME NEW len \in Units, ujo_writer_add_string_c(len, n, x)
        PROVE  Called
    <2> DEFINE units  == strnlen(len, n) + 1
               octets == Text(x, len <= n)
               block  == Little(octets, units % Mod32)
    <2>1. units \in Nat /\ units # 0 /\ units % Mod32 \in Nat
      BY <1>2, WriterAssumption DEF strnlen
    <2>2. octets \in Nat
      BY <1>2 DEF Text
    <2>3. AddString(0, units, octets, block)
      BY <1>3, <1>5 DEF ujo_writer_add_string_c
    <2> HIDE DEF units, octets
    <2>4. block \in Chunks /\ block.val = octets /\ block.size = units % Mod32
      BY <2>1, <2>2, ChunkIs DEF Little
    <2>5. units < Mod32 => units % Mod32 = units * UnitSize(0)
      BY <1>4, <2>1, WriterAssumption
    <2> HIDE DEF block
    <2>6. 0 \in 0 .. 3
      OBVIOUS
    <2> QED  BY <1>4, <2>1, <2>3, <2>4, <2>5, <2>6, AddStringCalled
  <1>6. CASE ujo_writer_add_string_u8(n, x)
    <2> DEFINE block == Little(x, n)
    <2>1. AddString(1, n, x, block)
      BY <1>3, <1>6 DEF ujo_writer_add_string_u8
    <2>2. block \in Chunks /\ block.val = x /\ block.size = n * UnitSize(1)
      BY <1>2, <1>4, ChunkIs DEF Little
    <2> HIDE DEF block
    <2>3. 1 \in 0 .. 3
      OBVIOUS
    <2> QED  BY <1>1, <1>2, <1>4, <2>1, <2>2, <2>3, AddStringCalled
  <1>7. CASE ujo_writer_add_string_u16(n, x)
    <2> DEFINE block == Native(x, 2 * n)
    <2>1. AddString(2, n, x, block)
      BY <1>3, <1>7 DEF ujo_writer_add_string_u16
    <2>2. block \in Chunks /\ block.val = x /\ block.size = n * UnitSize(2)
      BY <1>2, <1>4, ChunkIs DEF Native
    <2>3. block.order = Host
      BY DEF Native
    <2> HIDE DEF block
    <2>4. 2 \in 0 .. 3
      OBVIOUS
    <2> QED  BY <1>1, <1>2, <2>1, <2>2, <2>3, <2>4, AddStringCalled
  <1>8. CASE ujo_writer_add_string_u32(n, x)
    <2> DEFINE block == Native(x, 4 * n)
    <2>1. AddString(3, n, x, block)
      BY <1>3, <1>8 DEF ujo_writer_add_string_u32
    <2>2. block \in Chunks /\ block.val = x /\ block.size = n * UnitSize(3)
      BY <1>2, <1>4, ChunkIs DEF Native
    <2>3. block.order = Host
      BY DEF Native
    <2> HIDE DEF block
    <2>4. 3 \in 0 .. 3
      OBVIOUS
    <2> QED  BY <1>1, <1>2, <2>1, <2>2, <2>3, <2>4, AddStringCalled
  <1>9. ASSUME NEW sub \in {0, 1}, ujo_writer_add_binary(sub, n, x)
        PROVE  Called
    <2>1. sub \in Nat
      OBVIOUS
    <2> QED  BY <1>1, <1>2, <1>9, <2>1, AddBinaryCalled
  <1> QED  BY <1>1, <1>5, <1>6, <1>7, <1>8, <1>9

\* The values without octets of their own.
LEMMA AddEmptyCalled ==
    ASSUME AddEmpty
    PROVE  Called
  <1>1. CASE ujo_writer_add_none
    <2> DEFINE e == Element(UJO_TYPE_NONE, {})
    <2>1. <<Byte(UJO_TYPE_NONE)>> \o <<>> = <<Byte(UJO_TYPE_NONE)>>
      BY Prefixed
    <2>2. CodedTag(e, <<Byte(UJO_TYPE_NONE)>>)
      BY DEF CodedTag, TagTypes
    <2>3. UJO_TYPE_NONE # UJO_TYPE_STRING
      BY DEF UJO_TYPE_NONE, UJO_TYPE_STRING
    <2>4. Coded(e, <<Byte(UJO_TYPE_NONE)>> \o <<>>)
      BY <2>1, <2>2 DEF Coded
    <2> QED  BY <1>1, <2>3, <2>4, AddAtomicCalled DEF ujo_writer_add_none
  <1>2. ASSUME NEW t \in Nulls, ujo_writer_add_null(t)
        PROVE  Called
    <2> DEFINE b == IF t >= 128 THEN 128 ELSE 0
               e == Element(t, {<<"null", 1>>})
    <2>1. Coded(e, <<Byte(b)>>)
      BY DEF Coded, CodedNull
    <2>2. Event(e) = "ATOMIC_FOUND" /\ Valued(e) /\ Event(e) # "STRING_FOUND"
      BY DEF Event, Valued, Element
    <2>3. CASE Reject(UJO_ERR_TYPE_MISPLACED)
      BY <2>3, RejectCalled
    <2>4. CASE ujo_state_allow_atomic(doc.cur.state) /\ Add(e, "ATOMIC_FOUND", <<Byte(b)>>)
      <3> HIDE DEF e, b
      <3> QED  BY <2>1, <2>2, <2>4, AddCalled
    <2> QED  BY <1>2, <2>3, <2>4 DEF ujo_writer_add_null
  <1> QED  BY <1>1, <1>2 DEF AddEmpty

\* Opening a container.
LEMMA OpenCalled ==
    ASSUME NEW p \in Enters, Open(p[1], p[2])
    PROVE  Called
  <1>1. CASE Reject(UJO_ERR_TYPE_MISPLACED)
    BY <1>1, RejectCalled
  <1>2. ASSUME ujo_state_allow_container(doc.cur.state), NEW grow \in Grow,
               Perform(<<Byte(p[1])>>, Element(p[1], {}), ujo_state_next(p[2], doc, grow),
                       ujo_state_next(p[2], doc, grow))
        PROVE  Called
    <2>1. Coded(Element(p[1], {}), <<Byte(p[1])>>)
      <3>1. p[1] \in TagTypes
        BY DEF Enters, TagTypes, ContainerTypes
      <3>2. CodedTag(Element(p[1], {}), <<Byte(p[1])>>)
        BY <3>1 DEF CodedTag
      <3> QED  BY <3>2 DEF Coded
    <2>2. Moves(Element(p[1], {}), doc, ujo_state_next(p[2], doc, grow))
      <3>1. grow \in BOOLEAN
        BY DEF Grow
      <3>2. MovesIn(Element(p[1], {}), doc, ujo_state_next(p[2], doc, grow))
        BY <1>2, <3>1 DEF MovesIn
      <3> QED  BY <3>2 DEF Moves
    <2> QED  BY <1>2, <2>1, <2>2, PerformCalled
  <1> QED  BY <1>1, <1>2 DEF Open

\* The terminator and its octet.
LEMMA TerminatorCoded == Coded(Terminator, <<Byte(UJO_TERMINATOR)>>)
  <1>1. CodedTag(Terminator, <<Byte(UJO_TERMINATOR)>>)
    BY DEF CodedTag, Terminator, TagTypes
  <1> QED  BY <1>1 DEF Coded

\* Closing a list or a map.
LEMMA CloseCalled ==
    ASSUME NEW s \in {"LIST", "DICT_KEY"}, Close(s)
    PROVE  Called
  <1>1. CASE Reject(UJO_ERR_INVALID_OBJECT)
    BY <1>1, RejectCalled
  <1>2. ASSUME doc.cur.state = s, doc.items # <<>>, NEW grow \in Grow,
               Perform(<<Byte(UJO_TERMINATOR)>>, Terminator,
                       ujo_state_switch("CONTAINER_CLOSED", ujo_state_prev(doc), grow),
                       ujo_state_prev(doc))
        PROVE  Called
    <2>1. grow \in BOOLEAN
      BY DEF Grow
    <2>2. MovesOut(Terminator, doc,
                   ujo_state_switch("CONTAINER_CLOSED", ujo_state_prev(doc), grow))
      BY <1>2, <2>1 DEF MovesOut
    <2>3. Moves(Terminator, doc,
                ujo_state_switch("CONTAINER_CLOSED", ujo_state_prev(doc), grow))
      BY <2>2 DEF Moves
    <2> QED  BY <1>2, <2>3, TerminatorCoded, PerformCalled
  <1>3. CASE /\ doc.cur.state = s /\ doc.items = <<>> /\ doc' = ujo_state_prev(doc)
             /\ UNCHANGED <<wire, acked, reported>>
    BY <1>3 DEF Called, Rests, ContainerStates
  <1> QED  BY <1>1, <1>2, <1>3 DEF Close

\* The end of the columns of a table.
LEMMA EndColumnsCalled ==
    ASSUME ujo_writer_table_end_columns
    PROVE  Called
  <1>1. CASE Reject(UJO_ERR_INVALID_OBJECT)
    BY <1>1, RejectCalled
  <1>2. CASE /\ doc.cur.state = "TABLE_COLUMNS" /\ doc.cur.columns > 0
             /\ Perform(<<Byte(UJO_TERMINATOR)>>, Terminator,
                        [doc EXCEPT !.cur.state = "TABLE_VALUES"], doc)
    <2>1. Moves(Terminator, doc, [doc EXCEPT !.cur.state = "TABLE_VALUES"])
      BY <1>2 DEF Moves, MovesToRows
    <2> QED  BY <1>2, <2>1, TerminatorCoded, PerformCalled
  <1> QED  BY <1>1, <1>2 DEF ujo_writer_table_end_columns

\* Closing a table.
LEMMA TableCloseCalled ==
    ASSUME ujo_writer_table_close
    PROVE  Called
  <1>1. CASE Reject(UJO_ERR_INVALID_OBJECT)
    BY <1>1, RejectCalled
  <1>2. ASSUME doc.cur.state = "TABLE_VALUES", doc.cur.column = 0,
               doc.items # <<>>, NEW grow \in Grow,
               doc' = ujo_state_switch("CONTAINER_CLOSED", ujo_state_prev(doc), grow),
               PutOk(<<Byte(UJO_TERMINATOR)>>),
               acked' = Append(acked, Terminator), UNCHANGED reported
        PROVE  Called
    <2>1. grow \in BOOLEAN
      BY DEF Grow
    <2>2. Moves(Terminator, doc, doc')
      BY <1>2, <2>1 DEF Moves, MovesOut
    <2>3. Accepts(Terminator, <<Byte(UJO_TERMINATOR)>>)
      BY <1>2, <2>2, TerminatorCoded DEF Accepts, PutOk
    <2> QED  BY <2>3 DEF Called
  <1>3. ASSUME doc.cur.state = "TABLE_VALUES", doc.cur.column = 0,
               doc.items # <<>>, NEW grow \in Grow,
               doc' = ujo_state_switch("CONTAINER_CLOSED", ujo_state_prev(doc), grow),
               PutFails(<<Byte(UJO_TERMINATOR)>>),
               acked' = Append(acked, Terminator), UNCHANGED reported
        PROVE  Called
    <2>1. grow \in BOOLEAN
      BY DEF Grow
    <2>2. Moves(Terminator, doc, doc')
      BY <1>3, <2>1 DEF Moves, MovesOut
    <2> QED  BY <1>3, <2>2 DEF PutFails, Called, Overlooks
  <1>4. CASE /\ doc.cur.state = "TABLE_VALUES" /\ doc.items = <<>> /\ doc' = ujo_state_prev(doc)
             /\ UNCHANGED <<wire, acked, reported>>
    BY <1>4 DEF Called, Rests, ContainerStates
  <1> QED  BY <1>1, <1>2, <1>3, <1>4 DEF ujo_writer_table_close

\* Every call accepts an element and puts its encoding, reports a failed put,
\* rests, or is a close of a table that overlooks one.
LEMMA NextCalled ==
    ASSUME WNext
    PROVE  Called
  <1>1. CASE Containers
    <2>1. /\ <<UJO_TYPE_LIST, "LIST">> \in Enters /\ <<UJO_TYPE_MAP, "DICT_KEY">> \in Enters
          /\ <<UJO_TYPE_TABLE, "TABLE_COLUMNS">> \in Enters
      BY DEF Enters
    <2>2. CASE ujo_writer_list_open
      BY <2>1, <2>2, OpenCalled DEF ujo_writer_list_open
    <2>3. CASE ujo_writer_map_open
      BY <2>1, <2>3, OpenCalled DEF ujo_writer_map_open
    <2>4. CASE ujo_writer_table_open
      BY <2>1, <2>4, OpenCalled DEF ujo_writer_table_open
    <2>5. CASE ujo_writer_list_close
      BY <2>5, CloseCalled DEF ujo_writer_list_close
    <2>6. CASE ujo_writer_map_close
      BY <2>6, CloseCalled DEF ujo_writer_map_close
    <2> QED  BY <1>1, <2>2, <2>3, <2>4, <2>5, <2>6, EndColumnsCalled, TableCloseCalled
             DEF Containers
  <1>2. CASE ujo_free_writer
    BY <1>2 DEF ujo_free_writer, Called, Rests
  <1> QED  BY <1>1, <1>2, AddScalarCalled, AddHalfCalled, AddDateTimeCalled,
              AddSizedCalled, AddEmptyCalled DEF WNext

-----------------------------------------------------------------------------
(* Tables leave their type among the accepted elements.                     *)

TableStates == {"TABLE_COLUMNS", "TABLE_VALUES"}

\* Some struct of the machine is that of a table.
HasTable(m) ==
    \/ m.cur.state \in TableStates
    \/ \E i \in 1 .. Len(m.items) : m.items[i].state \in TableStates

\* Entering a state: the struct that was in use is stacked or dropped.
LEMMA NextTables ==
    ASSUME NEW m \in Machines, NEW s \in ujoDocState, NEW grow \in BOOLEAN,
           HasTable(ujo_state_next(s, m, grow))
    PROVE  HasTable(m) \/ s \in TableStates
  <1> DEFINE p == ujo_stack_push(m, m.cur, grow)
             r == ujo_state_next(s, m, grow)
  <1>1. /\ m.cur \in ujo_state /\ m.items \in Seq(ujo_state)
        /\ m.size \in Nat /\ m.lost \in BOOLEAN
    BY DEF Machines
  <1>2. p \in Machines /\ p.items \in {m.items, Append(m.items, m.cur)}
    <2>1. p \in Machines
      BY <1>1, PushIsMachine
    <2>2. m.size # Len(m.items) => p.items = Append(m.items, m.cur)
      BY DEF ujo_stack_push, Machines
    <2>3. m.size = Len(m.items) /\ grow => p.items = Append(m.items, m.cur)
      BY DEF ujo_stack_push, Machines
    <2>4. m.size = Len(m.items) /\ ~grow => p.items = m.items
      BY DEF ujo_stack_push, Machines
    <2> HIDE DEF p
    <2> QED  BY <2>1, <2>2, <2>3, <2>4
  <1>3. r = [p EXCEPT !.cur = NewState(s)]
    BY DEF ujo_state_next
  <1> HIDE DEF p, r
  <1>4. r.cur.state = s /\ r.items = p.items
    BY <1>2, <1>3 DEF Machines, NewState
  <1>5. HasTable(r)
    BY DEF r
  <1>6. CASE r.items = m.items
    BY <1>4, <1>5, <1>6 DEF HasTable
  <1>7. CASE r.items = Append(m.items, m.cur)
    BY <1>1, <1>4, <1>5, <1>7 DEF HasTable
  <1> QED  BY <1>2, <1>4, <1>6, <1>7

\* Leaving a state.
LEMMA PrevTables ==
    ASSUME NEW m \in Machines, HasTable(ujo_state_prev(m))
    PROVE  HasTable(m)
  <1> DEFINE r == ujo_state_prev(m)
             top == m.items[Len(m.items)]
  <1>1. m.cur \in ujo_state /\ m.items \in Seq(ujo_state)
    BY DEF Machines
  <1>2. CASE m.items = <<>>
    <2>1. r.cur.state = "NULL" /\ r.items = <<>>
      BY <1>2 DEF ujo_state_prev, NullState, NewState, Machines
    <2> QED  BY <2>1 DEF HasTable, TableStates
  <1>3. CASE m.items # <<>>
    <2>1. r.items = SubSeq(m.items, 1, Len(m.items) - 1)
      BY <1>3, PrevIsMachine
    <2>2. r.cur = IF top.state = "ROOT" THEN [top EXCEPT !.state = "CLOSED"] ELSE top
      BY <1>3, PrevIsMachine
    <2>3. Len(m.items) \in 1 .. Len(m.items) /\ top \in ujo_state
      BY <1>1, <1>3
    <2>4. r.cur.state \in TableStates => top.state \in TableStates
      BY <2>2, <2>3 DEF ujo_state, TableStates
    <2>5. \A i \in 1 .. Len(r.items) : i \in 1 .. Len(m.items) /\ r.items[i] = m.items[i]
      BY <1>1, <1>3, <2>1
    <2> HIDE DEF r
    <2>6. HasTable(r)
      BY DEF r
    <2> QED  BY <2>3, <2>4, <2>5, <2>6 DEF HasTable
  <1> QED  BY <1>2, <1>3

\* The state change after a value or a closed container enters no table.
LEMMA SwitchTables ==
    ASSUME NEW m \in Machines, NEW e, NEW grow \in BOOLEAN,
           HasTable(ujo_state_switch(e, m, grow))
    PROVE  HasTable(m)
  <1>1. CASE m.cur.state \in TableStates
    BY <1>1 DEF HasTable
  <1>2. CASE m.cur.state = "DICT_VALUE"
    BY <1>2, PrevTables DEF ujo_state_switch
  <1>3. CASE m.cur.state = "DICT_KEY" /\ e # "CONTAINER_CLOSED"
    <2>1. ujo_state_switch(e, m, grow) = ujo_state_next("DICT_VALUE", m, grow)
      BY <1>3 DEF ujo_state_switch
    <2>2. "DICT_VALUE" \in ujoDocState /\ "DICT_VALUE" \notin TableStates
      BY DEF ujoDocState, TableStates
    <2> QED  BY <2>1, <2>2, NextTables
  <1>4. CASE /\ m.cur.state \notin TableStates /\ m.cur.state # "DICT_VALUE"
             /\ ~(m.cur.state = "DICT_KEY" /\ e # "CONTAINER_CLOSED")
    BY <1>4 DEF ujo_state_switch, TableStates
  <1> QED  BY <1>1, <1>2, <1>3, <1>4

\* A machine that has a table had one before, or the element opens one.
LEMMA MovesTables ==
    ASSUME NEW m \in Machines, NEW e, NEW r, Moves(e, m, r), HasTable(r)
    PROVE  HasTable(m) \/ e.type = UJO_TYPE_TABLE
  <1>1. CASE MovesValue(e, m, r)
    BY <1>1, SwitchTables DEF MovesValue
  <1>2. CASE MovesIn(e, m, r)
    <2>1. PICK p \in Enters, grow \in BOOLEAN :
              e = Element(p[1], {}) /\ r = ujo_state_next(p[2], m, grow)
      BY <1>2 DEF MovesIn
    <2>2. p[2] \in ujoDocState /\ (p[2] \in TableStates => p[1] = UJO_TYPE_TABLE)
      BY DEF Enters, ujoDocState, TableStates
    <2>3. e.type = p[1]
      BY <2>1 DEF Element
    <2> QED  BY <2>1, <2>2, <2>3, NextTables
  <1>3. CASE MovesOut(e, m, r)
    <2>1. PICK grow \in BOOLEAN :
              r = ujo_state_switch("CONTAINER_CLOSED", ujo_state_prev(m), grow)
      BY <1>3 DEF MovesOut
    <2>2. ujo_state_prev(m) \in Machines
      BY PrevIsMachine
    <2> QED  BY <2>1, <2>2, SwitchTables, PrevTables
  <1>4. CASE MovesToRows(e, m, r)
    BY <1>4 DEF MovesToRows, HasTable, TableStates
  <1> QED  BY <1>1, <1>2, <1>3, <1>4 DEF Moves

-----------------------------------------------------------------------------
(* The octets of everything accepted.                                       *)

Total(es) == Sum([i \in 1 .. Len(es) |-> Octets(es[i])])

OctetsKnown == \A i \in 1 .. Len(acked) : Octets(acked[i]) \in Nat

Tabled == \E i \in 1 .. Len(acked) : acked[i].type = UJO_TYPE_TABLE

\* A table on the stack was accepted, unless an error was reported.
TablesKnown == ~reported /\ HasTable(doc) => Tabled

\* FailuresReported with what makes it inductive: the octets of every accepted
\* element are a number, and a writer in the body of a table has accepted one.
DInv == IInv /\ OctetsKnown /\ TablesKnown /\ FailuresReported

\* One more element adds its octets.
LEMMA TotalAppend ==
    ASSUME NEW es \in Seq(Elements), \A i \in 1 .. Len(es) : Octets(es[i]) \in Nat,
           NEW e \in Elements, Octets(e) \in Nat
    PROVE  /\ Total(Append(es, e)) = Total(es) + Octets(e)
           /\ Total(es) \in Nat
  <1> DEFINE all == Append(es, e)
             one == [i \in 1 .. Len(es) |-> Octets(es[i])]
             two == [i \in 1 .. Len(all) |-> Octets(all[i])]
  <1>1. /\ Len(all) = Len(es) + 1 /\ all[Len(es) + 1] = e /\ Len(es) \in Nat
        /\ \A i \in 1 .. Len(es) : all[i] = es[i]
    OBVIOUS
  <1>2. one \in Seq(Nat) /\ Len(one) = Len(es)
    OBVIOUS
  <1> HIDE DEF all
  <1>3. two = Append(one, Octets(e))
    <2>1. Append(one, Octets(e)) = [i \in 1 .. Len(es) + 1 |->
                                      IF i <= Len(es) THEN one[i] ELSE Octets(e)]
      BY <1>2
    <2> QED  BY <1>1, <2>1
  <1> HIDE DEF one, two
  <1>4. Sum(two) = Sum(one) + Octets(e) /\ Sum(one) \in Nat
    BY <1>2, <1>3, SumAppend, SumNat
  <1> QED  BY <1>4 DEF Total, one, two, all

\* What WireHoldsAcked says, in terms of Total.
LEMMA HoldsIs ==
    WireHoldsAcked <=> (~reported /\ Countable => Bytes(wire) = 7 + Total(acked))
  BY DEF WireHoldsAcked, Total

\* A longer list of elements is countable if the shorter is.
LEMMA CountableAppend ==
    ASSUME acked \in Seq(Elements), NEW e \in Elements, acked' = Append(acked, e)
    PROVE  Countable' <=> Countable /\ Counts(e)
  <1>1. /\ Len(acked') = Len(acked) + 1 /\ acked'[Len(acked) + 1] = e /\ Len(acked) \in Nat
        /\ \A i \in 1 .. Len(acked) : acked'[i] = acked[i]
    OBVIOUS
  <1>2. Countable' => Countable /\ Counts(e)
    BY <1>1 DEF Countable, Counts
  <1>3. ASSUME Countable, Counts(e)
        PROVE  Countable'
    <2> SUFFICES ASSUME NEW i \in 1 .. Len(acked) + 1
                 PROVE  \A m \in acked'[i].data : m[1] = "n" => m[2] < Mod32
      BY <1>1 DEF Countable
    <2>1. CASE i \in 1 .. Len(acked)
      BY <1>1, <1>3, <2>1 DEF Countable
    <2>2. CASE i = Len(acked) + 1
      BY <1>1, <1>3, <2>2 DEF Counts
    <2> QED  BY <2>1, <2>2
  <1> QED  BY <1>2, <1>3

\* An accepted element adds to the destination what it adds to the account.
LEMMA AcceptsHolds ==
    ASSUME TypeOK, OctetsKnown, WireHoldsAcked, NEW e, NEW ws, Accepts(e, ws)
    PROVE  WireHoldsAcked'
  <1>1. Fits(e, ws)
    BY CodedFits DEF Accepts
  <1>2. ws \in Seq(Chunks) /\ e \in Elements /\ Octets(e) \in Nat
    BY <1>1 DEF Fits
  <1>3. acked \in Seq(Elements) /\ wire \in Seq(Chunks)
    BY DEF TypeOK
  <1>4. acked' = Append(acked, e) /\ wire' = wire \o ws /\ reported' = reported
    BY DEF Accepts
  <1>5. Bytes(wire') = Bytes(wire) + Bytes(ws)
    BY <1>2, <1>3, <1>4, SizeIs, BytesConcat
  <1>6. Total(acked') = Total(acked) + Octets(e) /\ Total(acked) \in Nat
    BY <1>2, <1>3, <1>4, TotalAppend DEF OctetsKnown
  <1>7. Countable' <=> Countable /\ Counts(e)
    BY <1>2, <1>3, <1>4, CountableAppend
  <1>8. Counts(e) => Bytes(ws) = Octets(e)
    BY <1>1 DEF Fits
  <1>9. ~reported /\ Countable => Bytes(wire) = 7 + Total(acked)
    BY HoldsIs
  <1>10. ~reported' /\ Countable' => Bytes(wire') = 7 + Total(acked')
    BY <1>2, <1>4, <1>5, <1>6, <1>7, <1>8, <1>9
  <1>11. WireHoldsAcked' <=> (~reported /\ Countable => Bytes(wire) = 7 + Total(acked))'
    BY HoldsIs, PTL
  <1> QED  BY <1>10, <1>11

\* A call after which the account and the destination are the same.
LEMMA RestsHolds ==
    ASSUME WireHoldsAcked, UNCHANGED <<wire, acked, reported>>
    PROVE  WireHoldsAcked'
  BY DEF WireHoldsAcked, Countable

\* After a reported error nothing is claimed.
LEMMA ReportedHolds ==
    ASSUME reported' = TRUE
    PROVE  WireHoldsAcked'
  BY DEF WireHoldsAcked

\* One more element with a number of octets.
LEMMA OctetsStayKnown ==
    ASSUME TypeOK, OctetsKnown, NEW e \in Elements, Octets(e) \in Nat,
           acked' = Append(acked, e)
    PROVE  OctetsKnown' /\ (Tabled' <=> Tabled \/ e.type = UJO_TYPE_TABLE)
  <1>0. acked \in Seq(Elements)
    BY DEF TypeOK
  <1>1. /\ Len(acked') = Len(acked) + 1 /\ acked'[Len(acked) + 1] = e /\ Len(acked) \in Nat
        /\ \A i \in 1 .. Len(acked) : acked'[i] = acked[i]
    BY <1>0
  <1>2. \A i \in 1 .. Len(acked') : i \in 1 .. Len(acked) \/ i = Len(acked) + 1
    BY <1>1
  <1>3. OctetsKnown'
    BY <1>1, <1>2 DEF OctetsKnown
  <1>4. Tabled' => Tabled \/ e.type = UJO_TYPE_TABLE
    BY <1>1, <1>2 DEF Tabled
  <1>5. 1 .. Len(acked) \subseteq 1 .. Len(acked') /\ Len(acked) + 1 \in 1 .. Len(acked')
    BY <1>1
  <1>6. Tabled \/ e.type = UJO_TYPE_TABLE => Tabled'
    BY <1>1, <1>5 DEF Tabled
  <1> QED  BY <1>3, <1>4, <1>6

-----------------------------------------------------------------------------
(* The theorems.                                                            *)

\* The header is seven octets and no element.
LEMMA InitHolds ==
    ASSUME WInit
    PROVE  WireHoldsAcked /\ OctetsKnown /\ TablesKnown
  <1>1. OctetsKnown
    BY DEF WInit, OctetsKnown
  <1>2. TablesKnown
    BY DEF WInit, TablesKnown, NewMachine, NewState, HasTable, TableStates
  <1>3. Bytes(wire) = 7
    <2>1. UJO_MAGIC \in Nat /\ UJO_DATA_VERSION \in Nat /\ UJO_COMPRESS_NONE \in Nat
      BY DEF UJO_MAGIC, UJO_DATA_VERSION, UJO_COMPRESS_NONE
    <2>2. Little(UJO_MAGIC, 4) \in Chunks /\ Little(UJO_MAGIC, 4).size = 4
      BY <2>1, ChunkIs
    <2>3. /\ Little(UJO_DATA_VERSION, 2) \in Chunks /\ Byte(UJO_COMPRESS_NONE) \in Chunks
          /\ Little(UJO_DATA_VERSION, 2).size = 2 /\ Byte(UJO_COMPRESS_NONE).size = 1
      BY <2>1, SmallChunks
    <2>4. Bytes(Header) = 4 + 2 + 1
      BY <2>2, <2>3, BytesThree DEF Header
    <2> QED  BY <2>4 DEF WInit
  <1>4. Total(acked) = 0
    <2>1. [i \in 1 .. Len(acked) |-> Octets(acked[i])] = <<>>
      BY DEF WInit
    <2>2. <<>> \in Seq(Nat)
      OBVIOUS
    <2> QED  BY <2>1, <2>2, SumNat DEF Total
  <1> QED  BY <1>1, <1>2, <1>3, <1>4, HoldsIs

\* The terminator has a number of octets.
LEMMA TerminatorFits == Terminator \in Elements /\ Octets(Terminator) \in Nat
  BY TerminatorCoded, CodedFits DEF Fits

\* Every call keeps the octets and the tables of the accepted elements known.
LEMMA CalledKnown ==
    ASSUME TypeOK, OctetsKnown, TablesKnown, Called
    PROVE  OctetsKnown' /\ TablesKnown'
  <1>0. doc \in Machines
    BY DEF TypeOK
  <1>1. ASSUME NEW e, NEW ws, Accepts(e, ws)
        PROVE  OctetsKnown' /\ TablesKnown'
    <2>1. e \in Elements /\ Octets(e) \in Nat
      BY <1>1, CodedFits DEF Accepts, Fits
    <2>2. OctetsKnown' /\ (Tabled' <=> Tabled \/ e.type = UJO_TYPE_TABLE)
      BY <1>1, <2>1, OctetsStayKnown DEF Accepts
    <2>3. HasTable(doc') => HasTable(doc) \/ e.type = UJO_TYPE_TABLE
      BY <1>0, <1>1, MovesTables DEF Accepts
    <2>4. HasTable(doc)' <=> HasTable(doc')
      BY DEF HasTable
    <2> QED  BY <1>1, <2>2, <2>3, <2>4 DEF TablesKnown, Accepts
  <1>2. CASE Reports
    BY <1>2 DEF Reports, OctetsKnown, TablesKnown
  <1>3. CASE Rests
    <2>1. HasTable(doc') => HasTable(doc)
      BY <1>0, <1>3, PrevTables DEF Rests
    <2>2. (HasTable(doc)' <=> HasTable(doc')) /\ (Tabled' <=> Tabled)
      BY <1>3 DEF HasTable, Tabled, Rests
    <2> QED  BY <1>3, <2>1, <2>2 DEF Rests, OctetsKnown, TablesKnown
  <1>4. CASE Overlooks
    <2>1. OctetsKnown' /\ (Tabled => Tabled')
      BY <1>4, TerminatorFits, OctetsStayKnown DEF Overlooks
    <2>2. HasTable(doc)
      BY <1>4 DEF Overlooks, HasTable, TableStates
    <2> QED  BY <1>4, <2>1, <2>2 DEF TablesKnown, Overlooks
  <1> QED  BY <1>1, <1>2, <1>3, <1>4 DEF Called

\* Every call keeps the account, if no close overlooks a failed put.
LEMMA CalledHolds ==
    ASSUME TypeOK, OctetsKnown, WireHoldsAcked, Called, ~Overlooks
    PROVE  WireHoldsAcked'
  BY AcceptsHolds, RestsHolds, ReportedHolds DEF Called, Reports, Rests

\* The elements of a longer list are those of the shorter and one more.
LEMMA NoTable ==
    FailuresReported <=> (~Tabled => WireHoldsAcked)
  BY DEF FailuresReported, Tabled

\* Every call keeps the account of a document without a table.
LEMMA CalledReports ==
    ASSUME DInv, Called
    PROVE  FailuresReported'
  <1>1. TypeOK /\ OctetsKnown /\ TablesKnown /\ (~Tabled => WireHoldsAcked)
    BY NoTable DEF DInv, IInv
  <1>2. SUFFICES ASSUME ~Tabled'
                 PROVE  WireHoldsAcked'
    <2>1. FailuresReported' <=> (~Tabled => WireHoldsAcked)'
      BY NoTable, PTL
    <2> QED  BY <2>1
  <1>3. ASSUME NEW e, NEW ws, Accepts(e, ws)
        PROVE  WireHoldsAcked'
    <2>1. e \in Elements /\ Octets(e) \in Nat
      BY <1>3, CodedFits DEF Accepts, Fits
    <2>2. ~Tabled
      BY <1>1, <1>2, <1>3, <2>1, OctetsStayKnown DEF Accepts
    <2> QED  BY <1>1, <1>3, <2>2, AcceptsHolds
  <1>4. CASE Reports
    BY <1>4, ReportedHolds DEF Reports
  <1>5. CASE Rests
    <2>1. ~Tabled
      BY <1>2, <1>5 DEF Tabled, Rests
    <2> QED  BY <1>1, <1>5, <2>1, RestsHolds DEF Rests
  <1>6. CASE Overlooks
    <2>1. HasTable(doc)
      BY <1>6 DEF Overlooks, HasTable, TableStates
    <2>2. ~Tabled
      BY <1>1, <1>2, <1>6, TerminatorFits, OctetsStayKnown DEF Overlooks
    <2>3. reported
      BY <1>1, <2>1, <2>2 DEF TablesKnown
    <2>4. reported' = TRUE
      BY <1>1, <1>6, <2>3 DEF Overlooks, TypeOK
    <2> QED  BY <2>4, ReportedHolds
  <1> QED  BY <1>3, <1>4, <1>5, <1>6 DEF Called

\* A stuttering step leaves the invariant as it is.
LEMMA DocumentStutters ==
    ASSUME DInv, UNCHANGED wvars
    PROVE  DInv'
  <1>1. IInv'
    BY NextKeeps DEF DInv
  <1>2. OctetsKnown' /\ TablesKnown'
    BY DEF DInv, wvars, OctetsKnown, TablesKnown, HasTable, Tabled
  <1>3. FailuresReported'
    BY DEF DInv, wvars, FailuresReported, WireHoldsAcked, Countable
  <1> QED  BY <1>1, <1>2, <1>3 DEF DInv

\* Whichever put fails, at whichever octet of whichever call, in documents of
\* any size: without a reported error the destination holds the header and every
\* accepted element in full, tables excepted (return_on_err, ujo_writer.c).
THEOREM FailuresAreReported == WSpec => []FailuresReported
  <1>1. WInit => DInv
    BY InitKeeps, InitHolds DEF DInv, FailuresReported
  <1>2. ASSUME DInv, [WNext]_wvars
        PROVE  DInv'
    <2>1. CASE WNext
      <3>1. Called
        BY <2>1, NextCalled
      <3>2. IInv'
        BY <1>2, <2>1, NextKeeps DEF DInv
      <3> QED  BY <1>2, <3>1, <3>2, CalledKnown, CalledReports DEF DInv, IInv
    <2>2. CASE UNCHANGED wvars
      BY <1>2, <2>2, DocumentStutters
    <2> QED  BY <1>2, <2>1, <2>2
  <1>3. DInv => FailuresReported
    BY DEF DInv
  <1> QED  BY <1>1, <1>2, <1>3, PTL DEF WSpec

\* Where puts do not fail, the destination of any document, tables included,
\* holds the header and every accepted element in full: no octet is missing and
\* none is written twice, whatever was rejected or dropped (ujo_writer.c).
THEOREM WireIsComplete ==
    ASSUME "put" \notin Faults
    PROVE  WSpec => []WireHoldsAcked
  <1> DEFINE J == IInv /\ OctetsKnown /\ TablesKnown /\ WireHoldsAcked
  <1>1. WInit => J
    BY InitKeeps, InitHolds
  <1>2. ASSUME J, [WNext]_wvars
        PROVE  J'
    <2>1. CASE WNext
      <3>1. Called /\ ~Overlooks
        BY <2>1, NextCalled DEF Overlooks
      <3>2. IInv'
        BY <1>2, <2>1, NextKeeps
      <3> QED  BY <1>2, <3>1, <3>2, CalledKnown, CalledHolds DEF IInv
    <2>2. CASE UNCHANGED wvars
      <3>1. IInv'
        BY <1>2, <2>2, NextKeeps
      <3>2. OctetsKnown' /\ TablesKnown'
        BY <1>2, <2>2 DEF wvars, OctetsKnown, TablesKnown, HasTable, Tabled
      <3> QED  BY <1>2, <2>2, <3>1, <3>2, RestsHolds DEF wvars
    <2> QED  BY <1>2, <2>1, <2>2
  <1>3. J => WireHoldsAcked
    OBVIOUS
  <1> QED  BY <1>1, <1>2, <1>3, PTL DEF WSpec
=============================================================================
