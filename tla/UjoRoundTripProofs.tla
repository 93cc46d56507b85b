------------------------- MODULE UjoRoundTripProofs -------------------------
(***************************************************************************)
(* The reader and the memory it owns, for every document, every sequence   *)
(* of calls and every failure; and that it reads what the writer wrote.    *)
(***************************************************************************)
EXTENDS UjoRoundTrip, UjoDocumentProofs

-----------------------------------------------------------------------------
(* Counting the octets of the members that are read.                        *)

\* Partial sums rise.
LEMMA PartialRises ==
    ASSUME NEW s \in Seq(Nat), NEW f, Partial(f, s), NEW k \in 0 .. Len(s)
    PROVE  f[k] <= f[Len(s)] /\ f[k] \in Nat /\ f[Len(s)] \in Nat
  <1> DEFINE S == {n \in Nat : k + n <= Len(s) => f[k] <= f[k + n]}
  <1>0. Len(s) \in Nat /\ k \in Nat /\ f \in [0 .. Len(s) -> Nat]
    BY DEF Partial
  <1>1. 0 \in S
    BY <1>0
  <1>2. ASSUME NEW n \in Nat, n \in S
        PROVE  n + 1 \in S
    <2> SUFFICES ASSUME k + (n + 1) <= Len(s) PROVE f[k] <= f[k + (n + 1)]
      OBVIOUS
    <2>1. k + (n + 1) \in 1 .. Len(s) /\ (k + (n + 1)) - 1 = k + n /\ k + n \in 0 .. Len(s)
      BY <1>0
    <2>2. f[k + (n + 1)] = f[k + n] + s[k + (n + 1)]
      BY <2>1 DEF Partial
    <2>3. s[k + (n + 1)] \in Nat /\ f[k + n] \in Nat /\ f[k] \in Nat
      BY <1>0, <2>1
    <2>4. f[k] <= f[k + n]
      BY <1>0, <1>2, <2>1
    <2> QED  BY <2>2, <2>3, <2>4
  <1> HIDE DEF S
  <1>3. Len(s) - k \in S
    BY <1>0, <1>1, <1>2, Induction, SMTT(60)
  <1>4. k + (Len(s) - k) = Len(s)
    BY <1>0
  <1> QED  BY <1>0, <1>3, <1>4 DEF S

\* Sums of two numbers grow with each of them.
LEMMA SumOfTwo ==
    ASSUME NEW a \in Nat, NEW b \in Nat, NEW c \in Nat, NEW d \in Nat, a <= b, c <= d
    PROVE  /\ a + c <= b + d
           /\ c < d => a + c < b + d
  OBVIOUS

\* Fewer numbers, none of them greater, have a smaller sum if the last of them is
\* less or is followed by others.
LEMMA SumLess ==
    ASSUME NEW s \in Seq(Nat), NEW t \in Seq(Nat), Len(s) <= Len(t),
           \A i \in 1 .. Len(s) : s[i] <= t[i],
           \A i \in 1 .. Len(t) : t[i] >= 1,
           Len(s) < Len(t) \/ (Len(s) > 0 /\ s[Len(s)] < t[Len(s)])
    PROVE  Sum(s) < Sum(t)
  <1>1. PICK f : Partial(f, s)
    BY PartialExists
  <1>2. PICK g : Partial(g, t)
    BY PartialExists
  <1>3. Sum(s) = f[Len(s)] /\ Sum(t) = g[Len(t)]
    BY <1>1, <1>2, SumIs
  <1>4. Len(s) \in Nat /\ Len(t) \in Nat /\ f \in [0 .. Len(s) -> Nat] /\ g \in [0 .. Len(t) -> Nat]
    BY <1>1, <1>2 DEF Partial
  <1> DEFINE S == {n \in Nat : n <= Len(s) => f[n] <= g[n]}
             n == Len(s)
  <1>5. 0 \in S
    BY <1>1, <1>2 DEF Partial
  <1>6. ASSUME NEW k \in Nat, k \in S
        PROVE  k + 1 \in S
    <2> SUFFICES ASSUME k + 1 <= Len(s) PROVE f[k + 1] <= g[k + 1]
      OBVIOUS
    <2>1. /\ k + 1 \in 1 .. Len(s) /\ k + 1 \in 1 .. Len(t) /\ (k + 1) - 1 = k /\ k <= Len(s)
          /\ k \in 0 .. Len(s) /\ k \in 0 .. Len(t)
      BY <1>4
    <2>2. f[k + 1] = f[k] + s[k + 1] /\ g[k + 1] = g[k] + t[k + 1]
      BY <1>1, <1>2, <2>1 DEF Partial
    <2>3. s[k + 1] <= t[k + 1] /\ s[k + 1] \in Nat /\ t[k + 1] \in Nat
      BY <2>1
    <2>4. f[k] <= g[k] /\ f[k] \in Nat /\ g[k] \in Nat
      BY <1>4, <1>6, <2>1
    <2>5. f[k] + s[k + 1] <= g[k] + t[k + 1]
      BY <2>3, <2>4, SumOfTwo
    <2> QED  BY <2>2, <2>5
  <1> HIDE DEF S
  <1>7. Nat \subseteq S
    BY <1>5, <1>6, Induction
  <1>8. ASSUME NEW k \in 0 .. Len(s)
        PROVE  f[k] <= g[k] /\ f[k] \in Nat /\ g[k] \in Nat
    <2>1. k \in Nat /\ k <= Len(s) /\ k \in 0 .. Len(t)
      BY <1>4
    <2>2. k \in S
      BY <1>7, <2>1
    <2> QED  BY <1>4, <2>1, <2>2 DEF S
  <1>9. CASE Len(s) < Len(t)
    <2>1. n + 1 \in 1 .. Len(t) /\ n + 1 \in 0 .. Len(t) /\ (n + 1) - 1 = n /\ n \in 0 .. Len(s)
      BY <1>4, <1>9
    <2>2. g[n + 1] = g[n] + t[n + 1] /\ t[n + 1] >= 1 /\ t[n + 1] \in Nat
      BY <1>2, <2>1 DEF Partial
    <2>3. g[n + 1] <= g[Len(t)] /\ g[n + 1] \in Nat /\ g[Len(t)] \in Nat
      BY <1>2, <2>1, PartialRises
    <2>4. f[n] <= g[n] /\ f[n] \in Nat /\ g[n] \in Nat
      BY <1>8, <2>1
    <2>5. f[n] < g[n + 1]
      BY <2>2, <2>4
    <2>6. f[n] < g[Len(t)]
      BY <2>3, <2>4, <2>5
    <2> QED  BY <1>3, <2>6
  <1>10. CASE Len(s) > 0 /\ s[Len(s)] < t[Len(s)]
    <2>1. /\ n \in 1 .. Len(s) /\ n \in 1 .. Len(t) /\ n \in 0 .. Len(t)
          /\ n - 1 \in 0 .. Len(s)
      BY <1>4, <1>10
    <2>2. f[n] = f[n - 1] + s[n] /\ g[n] = g[n - 1] + t[n]
      BY <1>1, <1>2, <2>1 DEF Partial
    <2>3. s[n] < t[n] /\ s[n] \in Nat /\ t[n] \in Nat
      BY <1>10, <2>1
    <2>4. g[n] <= g[Len(t)] /\ g[n] \in Nat /\ g[Len(t)] \in Nat
      BY <1>2, <2>1, PartialRises
    <2>5. f[n - 1] <= g[n - 1] /\ f[n - 1] \in Nat /\ g[n - 1] \in Nat
      BY <1>8, <2>1
    <2>6. f[n - 1] + s[n] < g[n - 1] + t[n]
      BY <2>3, <2>5, SumOfTwo
    <2>7. f[n] < g[n] /\ f[n] \in Nat /\ g[n] \in Nat
      BY <2>2, <2>3, <2>5, <2>6
    <2>8. f[n] < g[Len(t)]
      BY <2>4, <2>7
    <2> QED  BY <1>3, <2>8
  <1> QED  BY <1>9, <1>10

\* The octets of fields.
LEMMA FieldsBytes ==
    ASSUME NEW fs, Len(fs) \in Nat, \A i \in 1 .. Len(fs) : fs[i].size \in Nat
    PROVE  Bytes(fs) \in Nat
  <1> DEFINE sizes == [i \in 1 .. Len(fs) |-> fs[i].size]
  <1>1. sizes \in Seq(Nat)
    OBVIOUS
  <1> HIDE DEF sizes
  <1> QED  BY <1>1, SumNat DEF Bytes, sizes

\* Fields for more octets than the chunks rs have.
LEMMA BytesLess ==
    ASSUME NEW rs, Len(rs) \in Nat, \A i \in 1 .. Len(rs) : rs[i].size \in Nat,
           NEW fs, Len(fs) \in Nat, \A i \in 1 .. Len(fs) : fs[i].size \in Nat /\ fs[i].size >= 1,
           Len(rs) <= Len(fs), \A i \in 1 .. Len(rs) : rs[i].size <= fs[i].size,
           Len(rs) < Len(fs) \/ (Len(rs) > 0 /\ rs[Len(rs)].size < fs[Len(rs)].size)
    PROVE  Bytes(rs) < Bytes(fs)
  <1> DEFINE s == [i \in 1 .. Len(rs) |-> rs[i].size]
             t == [i \in 1 .. Len(fs) |-> fs[i].size]
  <1>1. s \in Seq(Nat) /\ Len(s) = Len(rs) /\ t \in Seq(Nat) /\ Len(t) = Len(fs)
    OBVIOUS
  <1>2. (\A i \in 1 .. Len(rs) : s[i] = rs[i].size) /\ (\A i \in 1 .. Len(fs) : t[i] = fs[i].size)
    OBVIOUS
  <1>3. Len(rs) > 0 => Len(rs) \in 1 .. Len(rs) /\ Len(rs) \in 1 .. Len(fs)
    OBVIOUS
  <1> HIDE DEF s, t
  <1>4. /\ Len(s) <= Len(t) /\ \A i \in 1 .. Len(s) : s[i] <= t[i]
        /\ \A i \in 1 .. Len(t) : t[i] >= 1
        /\ Len(s) < Len(t) \/ (Len(s) > 0 /\ s[Len(s)] < t[Len(s)])
    <2>1. \A i \in 1 .. Len(rs) : i \in 1 .. Len(fs)
      OBVIOUS
    <2> QED  BY <1>1, <1>2, <1>3, <2>1
  <1>5. Sum(s) < Sum(t)
    BY <1>1, <1>4, SumLess
  <1> QED  BY <1>5 DEF Bytes, s, t

-----------------------------------------------------------------------------
(* Scans.                                                                   *)

\* The members a get_next may read before the type of an element.
HeaderNames == {"magic", "version", "compression", "tag"}

\* The octets a type id may be.
Tags == 0 .. 255

\* What octets may be taken for.
Takings == [magic : Nat, version : Nat, tag : Nat, type : Nat, n : Nat]

\* The progress of a get_next that has read members of the names N.
Progress(N) ==
    [pos : 1 .. Len(input) + 1, off : Nat, doc : Machines, code : UjoErrors,
     health : {"ok", "overrun", "garbled", "crashed"}, type : Tags,
     data : SUBSET (N \X Nat), noise : Takings]

Scans(N) == { c \in Progress(N) : c.off <= Remaining(c.pos) }

\* The noises are ones.
LEMMA NoisesAre ==
    Noises \subseteq Takings /\ HeaderNoises \subseteq Takings
  <1>1. Noises \subseteq Takings
    <2> SUFFICES ASSUME NEW z \in Noises PROVE z \in Takings
      OBVIOUS
    <2>1. z \in [magic : {0}, version : {0}, tag : Noise, type : Noise, n : Noise]
      BY DEF Noises
    <2>2. Noise \subseteq Nat /\ 0 \in Nat
      BY ReaderAssumption
    <2>3. z.magic = 0 /\ z.version = 0 /\ z.tag \in Noise /\ z.type \in Noise /\ z.n \in Noise
      BY <2>1
    <2> HIDE DEF Noises
    <2>4. z = [magic |-> z.magic, version |-> z.version, tag |-> z.tag, type |-> z.type, n |-> z.n]
      BY <2>1
    <2> QED  BY <2>2, <2>3, <2>4 DEF Takings
  <1>2. \E z \in Noises : TRUE
    <2>1. PICK v \in Noise : TRUE
      BY ReaderAssumption
    <2> DEFINE z == [magic |-> 0, version |-> 0, tag |-> v, type |-> v, n |-> v]
    <2>2. z \in Noises
      BY <2>1 DEF Noises
    <2> QED  BY <2>2
  <1>3. (CHOOSE z \in Noises : TRUE) \in Takings
    BY <1>1, <1>2
  <1>4. UJO_MAGIC \in Nat /\ UJO_DATA_VERSION \in Nat
    BY DEF UJO_MAGIC, UJO_DATA_VERSION
  <1>5. \A z \in Takings : /\ [z EXCEPT !.magic = UJO_MAGIC] \in Takings
                           /\ [z EXCEPT !.magic = UJO_MAGIC, !.version = UJO_DATA_VERSION]
                                \in Takings
    BY <1>4 DEF Takings
  <1>6. HeaderNoises \subseteq Takings
    BY <1>1, <1>3, <1>5, ZenonT(60) DEF HeaderNoises
  <1> QED  BY <1>1, <1>6

\* The chunks of an input.
LEMMA ChunkAt ==
    ASSUME input \in Seq(Chunks)
    PROVE  /\ \A p \in 1 .. Len(input) :
                 input[p] \in Chunks /\ input[p].val \in Nat /\ input[p].size \in Nat
           /\ input # <<>> => 1 \in 1 .. Len(input)
  <1>1. \A p \in 1 .. Len(input) : input[p] \in Chunks
    OBVIOUS
  <1>2. \A c \in Chunks : c.val \in Nat /\ c.size \in Nat
    BY DEF Chunks
  <1>3. input # <<>> => 1 \in 1 .. Len(input)
    OBVIOUS
  <1> QED  BY <1>1, <1>2, <1>3

\* The value of the one member of a name.
LEMMA MemberIs ==
    ASSUME NEW c, NEW f, NEW v, <<f, v>> \in c.data,
           \A m \in c.data : m[1] = f => m = <<f, v>>
    PROVE  Member(c, f) = v
  <1> DEFINE m == CHOOSE x \in c.data : x[1] = f
  <1>1. <<f, v>>[1] = f /\ <<f, v>>[2] = v
    OBVIOUS
  <1>2. m \in c.data /\ m[1] = f
    BY <1>1
  <1>3. m = <<f, v>>
    BY <1>2
  <1> QED  BY <1>1, <1>3 DEF Member

\* The value of a member that is there is a number.
LEMMA MemberNat ==
    ASSUME NEW N, NEW c, c.data \in SUBSET (N \X Nat), NEW f, NEW v, <<f, v>> \in c.data
    PROVE  Member(c, f) \in Nat
  <1> DEFINE m == CHOOSE x \in c.data : x[1] = f
  <1>1. <<f, v>>[1] = f
    OBVIOUS
  <1>2. m \in c.data
    BY <1>1
  <1>3. m \in N \X Nat
    BY <1>2
  <1> QED  BY <1>3 DEF Member

\* A chunk decodes to a number.
LEMMA DecodeIs ==
    ASSUME NEW c \in Chunks, NEW f
    PROVE  Decode(c, f) \in Nat
  BY DEF Decode, Swapped, Chunks

\* The octets of a part of the input.
LEMMA RemainingIs ==
    ASSUME input \in Seq(Chunks), NEW p \in 1 .. Len(input) + 1
    PROVE  /\ Remaining(p) \in Nat
           /\ p = Len(input) + 1 => Remaining(p) = 0
  <1> DEFINE rest == SubSeq(input, p, Len(input))
  <1>1. rest \in Seq(Chunks) /\ (p = Len(input) + 1 => rest = <<>>)
    OBVIOUS
  <1> HIDE DEF rest
  <1> QED  BY <1>1, SizeIs, BytesNat DEF Remaining, rest

\* One scan has come as far as another, in octets.
Further(d, c) == d.pos > c.pos \/ (d.pos = c.pos /\ d.off >= c.off)

\* The fields can be read, into members of the names N.
Readable(fields, N) ==
    /\ Len(fields) \in Nat
    /\ \A i \in 1 .. Len(fields) : fields[i].name \in N /\ fields[i].size \in Nat

\* What the reads of a handler come to (_ujo_reader_get_data).
LEMMA GetIs ==
    ASSUME input \in Seq(Chunks), NEW N, NEW c \in Scans(N), NEW fields, Readable(fields, N)
    PROVE  /\ Get(c, fields) \in Scans(N)
           /\ Get(c, fields).doc = c.doc /\ Get(c, fields).type = c.type
           /\ Further(Get(c, fields), c)
           /\ rtype # "FILE" /\ Going(c) /\ ~Going(Get(c, fields)) =>
                Get(c, fields).health = "overrun"
  <1> DEFINE at(i) == c.pos + i - 1
             n == Bytes(fields)
             new == Decoded(c, fields)
             guess == Guessed(c, fields)
             read == [c EXCEPT !.pos = @ + Len(fields), !.data = @ \cup new]
             moved == [c EXCEPT !.off = @ + n, !.health = "garbled", !.data = @ \cup guess]
             short == [c EXCEPT !.code = UJO_ERR_FILE, !.pos = Len(input) + 1, !.off = 0]
             over == [c EXCEPT !.health = "overrun"]
  <1>0. Len(fields) \in Nat /\ n \in Nat
    BY FieldsBytes DEF Readable
  <1>1. /\ c.pos \in 1 .. Len(input) + 1 /\ Len(input) \in Nat /\ c.off \in Nat
        /\ c.doc \in Machines /\ c.code \in UjoErrors /\ c.type \in Tags
        /\ c.health \in {"ok", "overrun", "garbled", "crashed"}
        /\ c.data \in SUBSET (N \X Nat) /\ c.noise \in Takings /\ c.off <= Remaining(c.pos)
    BY DEF Scans, Progress
  <1>2. Get(c, fields) =
          IF ~Going(c) THEN c ELSE IF InStep(c) /\ Fitting(c, fields) THEN read
          ELSE IF c.off + n <= Remaining(c.pos) THEN moved
          ELSE IF rtype = "FILE" THEN short ELSE over
    BY DEF Get
  <1>3. ASSUME Fitting(c, fields)
        PROVE  /\ c.pos + Len(fields) \in 1 .. Len(input) + 1 /\ c.pos + Len(fields) >= c.pos
               /\ c.data \cup new \in SUBSET (N \X Nat)
    <2>1. \A i \in 1 .. Len(fields) : at(i) \in 1 .. Len(input)
      BY <1>0, <1>1, <1>3 DEF Fitting
    <2>2. \A i \in 1 .. Len(fields) : input[at(i)] \in Chunks
      BY <2>1
    <2>3. \A i \in 1 .. Len(fields) : Decode(input[at(i)], fields[i]) \in Nat
      BY <2>2, DecodeIs
    <2>4. new \in SUBSET (N \X Nat)
      BY <2>3 DEF Decoded, Readable
    <2>5. Len(fields) > 0 => at(Len(fields)) \in 1 .. Len(input)
      BY <1>0, <2>1
    <2> QED  BY <1>0, <1>1, <2>4, <2>5, SMTT(60)
  <1>4. c.data \cup guess \in SUBSET (N \X Nat)
    <2>1. \A f \in DOMAIN c.noise : c.noise[f] \in Nat
      BY <1>1 DEF Takings
    <2>2. \A i \in 1 .. Len(fields) : fields[i].name \in N
      BY DEF Readable
    <2>3. ASSUME NEW f \in { fields[i].name : i \in 1 .. Len(fields) } \cap DOMAIN c.noise
          PROVE  <<f, c.noise[f]>> \in N \X Nat
      BY <2>1, <2>2
    <2>4. guess \in SUBSET (N \X Nat)
      BY <2>3 DEF Guessed
    <2> QED  BY <1>1, <2>4
  <1> HIDE DEF new, guess, n
  <1>5. ASSUME InStep(c), Fitting(c, fields)
        PROVE  /\ read \in Scans(N) /\ read.doc = c.doc /\ read.type = c.type
               /\ read.health = c.health /\ read.code = c.code /\ Further(read, c)
    <2> DEFINE q == c.pos + Len(fields)
    <2>1. q \in 1 .. Len(input) + 1 /\ q >= c.pos /\ c.data \cup new \in SUBSET (N \X Nat)
      BY <1>3, <1>5
    <2>2. Remaining(q) \in Nat /\ c.off = 0
      BY <1>5, <2>1, RemainingIs DEF InStep
    <2> HIDE DEF q
    <2> DEFINE r == [c EXCEPT !.pos = q, !.data = @ \cup new]
    <2>3. r.pos = q /\ r.off = 0 /\ r.doc = c.doc /\ r.type = c.type /\ r.health = c.health /\ r.code = c.code
      BY <2>2 DEF Scans, Progress
    <2>4. r \in Scans(N)
      <3>1. r \in Progress(N)
        BY <1>1, <2>1, <2>2 DEF Scans, Progress
      <3>2. r.off <= Remaining(r.pos)
        <4> HIDE DEF r
        <4> QED  BY <2>2, <2>3
      <3> QED  BY <3>1, <3>2 DEF Scans
    <2>5. Further(r, c)
      BY <1>1, <2>1, <2>2, <2>3 DEF Further
    <2> QED  BY <2>3, <2>4, <2>5 DEF q
  <1>6. ASSUME c.off + n <= Remaining(c.pos)
        PROVE  /\ moved \in Scans(N) /\ moved.doc = c.doc /\ moved.type = c.type
               /\ moved.health = "garbled" /\ moved.code = c.code /\ Further(moved, c)
    <2> DEFINE o == c.off + n
    <2>1. o \in Nat /\ o >= c.off /\ o <= Remaining(c.pos)
      BY <1>0, <1>1, <1>6
    <2> HIDE DEF o
    <2> DEFINE r == [c EXCEPT !.off = o, !.health = "garbled", !.data = @ \cup guess]
    <2>2. r.pos = c.pos /\ r.off = o /\ r.doc = c.doc /\ r.type = c.type /\ r.health = "garbled" /\ r.code = c.code
      BY DEF Scans, Progress
    <2>3. r \in Scans(N)
      <3>1. r \in Progress(N)
        BY <1>1, <1>4, <2>1 DEF Scans, Progress
      <3>2. r.off <= Remaining(r.pos)
        <4> HIDE DEF r
        <4> QED  BY <2>1, <2>2
      <3> QED  BY <3>1, <3>2 DEF Scans
    <2>4. Further(r, c)
      BY <2>1, <2>2 DEF Further
    <2> QED  BY <2>2, <2>3, <2>4 DEF o
  <1>7. /\ short \in Scans(N) /\ short.doc = c.doc /\ short.type = c.type
        /\ short.code = UJO_ERR_FILE /\ Further(short, c)
    <2> DEFINE end == Len(input) + 1
    <2>1. UJO_ERR_FILE \in UjoErrors /\ end \in 1 .. end /\ end >= c.pos /\ Remaining(end) = 0
      BY <1>1, RemainingIs DEF UjoErrors
    <2>2. c.pos = end => c.off = 0
      BY <1>1, <2>1
    <2>3. end \in 1 .. Len(input) + 1
      BY <2>1
    <2> HIDE DEF end
    <2> DEFINE r == [c EXCEPT !.code = UJO_ERR_FILE, !.pos = end, !.off = 0]
    <2>4. r.pos = end /\ r.off = 0 /\ r.doc = c.doc /\ r.type = c.type /\ r.code = UJO_ERR_FILE
      BY DEF Scans, Progress
    <2>5. r \in Scans(N)
      <3>1. r \in Progress(N)
        BY <1>1, <2>1, <2>3 DEF Scans, Progress
      <3>2. r.off <= Remaining(r.pos)
        <4> HIDE DEF r
        <4> QED  BY <2>1, <2>4
      <3> QED  BY <3>1, <3>2 DEF Scans
    <2>6. Further(r, c)
      BY <1>1, <2>1, <2>2, <2>3, <2>4 DEF Further
    <2> QED  BY <2>4, <2>5, <2>6 DEF end
  <1>8. /\ over \in Scans(N) /\ over.doc = c.doc /\ over.type = c.type /\ over.health = "overrun"
        /\ Further(over, c)
    BY <1>1 DEF Scans, Progress, Further
  <1>9. Further(c, c)
    BY <1>1 DEF Further
  <1> HIDE DEF read, moved, short, over
  <1>10. CASE InStep(c) /\ Fitting(c, fields)
    BY <1>2, <1>5, <1>9, <1>10 DEF Going
  <1>11. CASE ~(InStep(c) /\ Fitting(c, fields)) /\ c.off + n <= Remaining(c.pos)
    BY <1>2, <1>6, <1>9, <1>11 DEF Going
  <1>12. CASE ~(InStep(c) /\ Fitting(c, fields)) /\ ~(c.off + n <= Remaining(c.pos))
    BY <1>2, <1>7, <1>8, <1>9, <1>12 DEF Going
  <1> QED  BY <1>10, <1>11, <1>12

\* A member that can be guessed is there once it is read.
LEMMA GetHas ==
    ASSUME NEW N, NEW c \in Scans(N), NEW fields, Going(Get(c, fields)), NEW i \in 1 .. Len(fields),
           fields[i].name \in {"magic", "version", "tag", "type", "n"}
    PROVE  \E v : <<fields[i].name, v>> \in Get(c, fields).data
  <1> DEFINE read == [c EXCEPT !.pos = @ + Len(fields), !.data = @ \cup Decoded(c, fields)]
             moved == [c EXCEPT !.off = @ + Bytes(fields), !.health = "garbled",
                                !.data = @ \cup Guessed(c, fields)]
             short == [c EXCEPT !.code = UJO_ERR_FILE, !.pos = Len(input) + 1, !.off = 0]
             over == [c EXCEPT !.health = "overrun"]
  <1>1. Get(c, fields) =
          IF ~Going(c) THEN c ELSE IF InStep(c) /\ Fitting(c, fields) THEN read
          ELSE IF c.off + Bytes(fields) <= Remaining(c.pos) THEN moved
          ELSE IF rtype = "FILE" THEN short ELSE over
    BY DEF Get
  <1>2. /\ read.data = c.data \cup Decoded(c, fields)
        /\ moved.data = c.data \cup Guessed(c, fields)
        /\ short.code = UJO_ERR_FILE /\ over.health = "overrun"
    BY DEF Scans, Progress
  <1>3. fields[i].name \in DOMAIN c.noise
    BY DEF Scans, Progress, Takings
  <1>4. \E v : <<fields[i].name, v>> \in Decoded(c, fields)
    BY DEF Decoded
  <1>5. <<fields[i].name, c.noise[fields[i].name]>> \in Guessed(c, fields)
    BY <1>3 DEF Guessed
  <1> HIDE DEF read, moved, short, over
  <1>6. Get(c, fields) = read \/ Get(c, fields) = moved
    BY <1>1, <1>2 DEF Going, UJO_SUCCESS, UJO_ERR_FILE
  <1> QED  BY <1>2, <1>4, <1>5, <1>6

\* A scan that has read only what is there, and goes on so.
Steady(c) == c.code = UJO_SUCCESS /\ InStep(c)

LEMMA SteadyGoes == \A c : Steady(c) => Going(c)
  BY DEF Steady, InStep, Going

\* The reads of a handler are steady exactly if the fields are there.
LEMMA GetGoes ==
    ASSUME NEW N, NEW c \in Scans(N), NEW fields, Steady(c)
    PROVE  /\ Fitting(c, fields) =>
                Get(c, fields) = [c EXCEPT !.pos = @ + Len(fields), !.data = @ \cup Decoded(c, fields)]
           /\ Steady(Get(c, fields)) <=> Fitting(c, fields)
           /\ Steady(Get(c, fields)) => Get(c, fields).data = c.data \cup Decoded(c, fields)
  <1> DEFINE read == [c EXCEPT !.pos = @ + Len(fields), !.data = @ \cup Decoded(c, fields)]
             moved == [c EXCEPT !.off = @ + Bytes(fields), !.health = "garbled",
                                !.data = @ \cup Guessed(c, fields)]
             short == [c EXCEPT !.code = UJO_ERR_FILE, !.pos = Len(input) + 1, !.off = 0]
             over == [c EXCEPT !.health = "overrun"]
  <1>1. Get(c, fields) =
          IF ~Going(c) THEN c ELSE IF InStep(c) /\ Fitting(c, fields) THEN read
          ELSE IF c.off + Bytes(fields) <= Remaining(c.pos) THEN moved
          ELSE IF rtype = "FILE" THEN short ELSE over
    BY DEF Get
  <1>2. Going(c) /\ InStep(c)
    BY SteadyGoes DEF Steady
  <1>3. /\ read.data = c.data \cup Decoded(c, fields)
        /\ read.code = c.code /\ read.health = c.health /\ read.off = c.off
        /\ moved.health = "garbled" /\ short.code = UJO_ERR_FILE /\ over.health = "overrun"
    BY DEF Scans, Progress
  <1> HIDE DEF read, moved, short, over
  <1>4. /\ Fitting(c, fields) => Get(c, fields) = read
        /\ Steady(Get(c, fields)) <=> Fitting(c, fields)
        /\ Steady(Get(c, fields)) => Get(c, fields).data = c.data \cup Decoded(c, fields)
    BY <1>1, <1>2, <1>3 DEF Steady, InStep, UJO_SUCCESS, UJO_ERR_FILE
  <1> QED  BY <1>4 DEF read

\* The start of every get_next.
LEMMA ScanIs ==
    ASSUME NEW N, ReaderTypeOK, NEW z \in Noises \cup HeaderNoises
    PROVE  /\ Scan(z) \in Scans(N) /\ Scan(z).doc = rdoc /\ Going(Scan(z))
           /\ Scan(z).pos = pos /\ Scan(z).off = off
           /\ ~Lost /\ off = 0 => Steady(Scan(z))
           /\ Lost => Scan(z).health = "garbled"
  <1>1. z \in Takings
    BY NoisesAre
  <1>2. /\ pos \in 1 .. Len(input) + 1 /\ off \in Nat /\ off <= Remaining(pos) /\ rdoc \in Machines
        /\ UJO_SUCCESS \in UjoErrors /\ 0 \in Tags
    BY CodesAre, RemainingIs DEF ReaderTypeOK, Tags
  <1>3. Scan(z) \in Progress(N)
    BY <1>1, <1>2 DEF Scan, Progress
  <1>4. Scan(z).off = off /\ Scan(z).pos = pos
    BY DEF Scan
  <1>5. Scan(z) \in Scans(N)
    BY <1>2, <1>3, <1>4 DEF Scans
  <1> QED  BY <1>5 DEF Scan, Going, Steady, InStep

\* A scan that fails keeps what it has.
LEMMA FailIs ==
    ASSUME NEW N, NEW c \in Scans(N), NEW code \in UjoErrors
    PROVE  /\ Fail(c, code) \in Scans(N)
           /\ Fail(c, code).doc = c.doc /\ Fail(c, code).type = c.type
           /\ Fail(c, code).pos = c.pos /\ Fail(c, code).off = c.off
           /\ Fail(c, code).health = c.health
  BY DEF Fail, Scans, Progress

\* One field.
LEMMA FieldReadable ==
    ASSUME NEW N, NEW n \in N, NEW k \in Nat
    PROVE  Readable(<<Field(n, k)>>, N)
  <1> DEFINE fs == <<Field(n, k)>>
  <1>1. Len(fs) = 1 /\ \A i \in 1 .. 1 : fs[i].name = n /\ fs[i].size = k
    BY DEF Field
  <1> HIDE DEF fs
  <1>2. Readable(fs, N)
    BY <1>1 DEF Readable
  <1> QED  BY <1>2 DEF fs

\* The header of a document is read without leaving the input
\* (ujo_reader_parse_header).
LEMMA HeaderIs ==
    ASSUME input \in Seq(Chunks), NEW c \in Scans(HeaderNames)
    PROVE  /\ ujo_reader_parse_header(c) \in Scans(HeaderNames)
           /\ ujo_reader_parse_header(c).doc = c.doc
  <1> DEFINE m0 == ReadMagic(c)
             m1 == Check(m0, "magic", UJO_MAGIC)
             v0 == Get(m1, <<Field("version", 2)>>)
             v1 == Check(v0, "version", UJO_DATA_VERSION)
  <1>2. \A x \in Scans(HeaderNames), n \in HeaderNames, k \in Nat :
            /\ Get(x, <<Field(n, k)>>) \in Scans(HeaderNames)
            /\ Get(x, <<Field(n, k)>>).doc = x.doc
    BY FieldReadable, GetIs, SMTT(60)
  <1>3. \A n, v : \A x \in Scans(HeaderNames) : /\ Check(x, n, v) \in Scans(HeaderNames)
                                                /\ Check(x, n, v).doc = x.doc
    BY FailIs, CodesAre DEF Check, UjoErrors
  <1>4. m0 \in Scans(HeaderNames) /\ m0.doc = c.doc
    <2>1. CASE InStep(c) /\ Remaining(c.pos) >= 4
      <3>1. c.pos \in 1 .. Len(input) + 1 /\ c.off = 0
        BY <2>1 DEF Scans, Progress, InStep
      <3>2. c.pos \in 1 .. Len(input)
        BY <2>1, <3>1, RemainingIs
      <3>3. input[c.pos].val % 256 \in Nat
        BY <3>2, ChunkAt
      <3> DEFINE magic == {<<"magic", input[c.pos].val % 256>>}
                 next == c.pos + 1
                 behind == [c EXCEPT !.pos = next, !.data = magic]
                 within == [c EXCEPT !.off = 4, !.data = magic]
      <3>4. magic \in SUBSET (HeaderNames \X Nat)
        BY <3>3 DEF HeaderNames
      <3>5. next \in 1 .. Len(input) + 1
        BY <3>2
      <3>6. Remaining(next) \in Nat
        BY <3>5, RemainingIs
      <3>7. m0 = IF input[c.pos].size = 4 THEN behind ELSE within
        BY <2>1, RemainingIs, <3>1 DEF ReadMagic
      <3> HIDE DEF magic, next
      <3>8. behind \in Scans(HeaderNames) /\ behind.doc = c.doc
        <4>1. behind \in Progress(HeaderNames) /\ behind.pos = next /\ behind.off = 0 /\ behind.doc = c.doc
          BY <3>1, <3>4, <3>5 DEF Scans, Progress
        <4> HIDE DEF behind
        <4> QED  BY <3>6, <4>1 DEF Scans
      <3>9. within \in Scans(HeaderNames) /\ within.doc = c.doc
        <4>1. within \in Progress(HeaderNames) /\ within.pos = c.pos /\ within.off = 4 /\ within.doc = c.doc
          BY <3>1, <3>4 DEF Scans, Progress
        <4>2. Remaining(c.pos) \in Nat
          BY <3>1, RemainingIs
        <4> HIDE DEF within
        <4> QED  BY <2>1, <4>1, <4>2 DEF Scans
      <3> QED  BY <3>7, <3>8, <3>9
    <2>2. CASE ~(InStep(c) /\ Remaining(c.pos) >= 4)
      <3>1. Remaining(c.pos) \in Nat
        BY RemainingIs DEF Scans, Progress
      <3>2. m0 = Get(c, <<Field("magic", 4)>>)
        BY <2>2, <3>1 DEF ReadMagic
      <3> QED  BY <3>2, <1>2 DEF HeaderNames
    <2> QED  BY <2>1, <2>2
  <1>5. m1 \in Scans(HeaderNames) /\ m1.doc = c.doc
    BY <1>4, <1>3
  <1>6. v0 \in Scans(HeaderNames) /\ v0.doc = c.doc
    BY <1>5, <1>2 DEF HeaderNames
  <1>7. v1 \in Scans(HeaderNames) /\ v1.doc = c.doc
    BY <1>6, <1>3
  <1>8. /\ Get(v1, <<Field("compression", 1)>>) \in Scans(HeaderNames)
        /\ Get(v1, <<Field("compression", 1)>>).doc = c.doc
    BY <1>7, <1>2 DEF HeaderNames
  <1> QED  BY <1>8 DEF ujo_reader_parse_header

\* The octet of a type, or in memory a read that cannot be repaired.
LEMMA ReadTypeIs ==
    ASSUME input \in Seq(Chunks), NEW c \in Scans(HeaderNames)
    PROVE  LET t == ReadType(c)
           IN  /\ t \in Scans(HeaderNames) /\ t.doc = c.doc
               /\ Going(t) => t \in Scans(Members)
               /\ Further(t, c)
               /\ rtype # "FILE" /\ Going(c) /\ ~Going(t) => t.health = "overrun"
  <1> DEFINE first == [c EXCEPT !.off = 1, !.data = {<<"tag", input[1].val>>}]
             clean == [c EXCEPT !.data = {}]
             next == Get(clean, <<Field("tag", 1)>>)
             start == InStep(c) /\ c.pos = 1 /\ Remaining(1) > 0
             t == IF start THEN first ELSE next
             typed == [t EXCEPT !.type = Member(t, "tag") % 256, !.data = {}]
  <1>1. /\ clean \in Scans(HeaderNames) /\ clean.doc = c.doc /\ (Going(clean) <=> Going(c))
        /\ clean.pos = c.pos /\ clean.off = c.off
    BY DEF Scans, Progress, Going
  <1>2. /\ next \in Scans(HeaderNames) /\ next.doc = c.doc /\ Further(next, c)
        /\ rtype # "FILE" /\ Going(c) /\ ~Going(next) => next.health = "overrun"
    <2> DEFINE fs == <<Field("tag", 1)>>
    <2>1. Readable(fs, HeaderNames)
      BY FieldReadable DEF HeaderNames
    <2> HIDE DEF fs, clean
    <2>2. /\ Get(clean, fs) \in Scans(HeaderNames) /\ Get(clean, fs).doc = clean.doc
          /\ Further(Get(clean, fs), clean)
          /\ rtype # "FILE" /\ Going(clean) /\ ~Going(Get(clean, fs)) => Get(clean, fs).health = "overrun"
      BY <1>1, <2>1, GetIs
    <2> QED  BY <1>1, <2>2 DEF fs, Further
  <1>3. ASSUME start
        PROVE  /\ first \in Scans(HeaderNames) /\ first.doc = c.doc /\ Further(first, c)
               /\ (Going(first) <=> Going(c)) /\ \E v \in Nat : <<"tag", v>> \in first.data
    <2>1. 1 \in 1 .. Len(input) + 1 /\ c.off = 0
      BY <1>3 DEF InStep
    <2>2. Remaining(1) \in Nat /\ Remaining(1) >= 1 /\ input # <<>>
      <3>1. Remaining(1) \in Nat /\ (1 = Len(input) + 1 => Remaining(1) = 0)
        BY <2>1, RemainingIs
      <3>2. input = <<>> => 1 = Len(input) + 1
        OBVIOUS
      <3> QED  BY <1>3, <3>1, <3>2
    <2>3. input[1].val \in Nat
      BY <2>2, ChunkAt
    <2> DEFINE tag == {<<"tag", input[1].val>>}
    <2>4. tag \in SUBSET (HeaderNames \X Nat)
      BY <2>3 DEF HeaderNames
    <2>5. \E v \in Nat : <<"tag", v>> \in tag
      BY <2>3
    <2> HIDE DEF tag
    <2> DEFINE r == [c EXCEPT !.off = 1, !.data = tag]
    <2>6. /\ r \in Progress(HeaderNames) /\ r.pos = 1 /\ r.off = 1 /\ r.doc = c.doc
          /\ r.code = c.code /\ r.health = c.health /\ r.data = tag
      BY <1>3, <2>4 DEF Scans, Progress
    <2>7. r = first
      BY DEF tag
    <2> HIDE DEF r
    <2>8. r \in Scans(HeaderNames) /\ Further(r, c) /\ (Going(r) <=> Going(c))
      BY <1>3, <2>1, <2>2, <2>6 DEF Scans, Further, Going
    <2> HIDE DEF first
    <2> QED  BY <2>5, <2>6, <2>7, <2>8
  <1>4. t \in Scans(HeaderNames) /\ t.doc = c.doc /\ Further(t, c)
    BY <1>2, <1>3
  <1>5. Going(t) => \E v : <<"tag", v>> \in t.data
    <2>1. ASSUME Going(next) PROVE \E v : <<"tag", v>> \in next.data
      <3> DEFINE fs == <<Field("tag", 1)>>
      <3>1. 1 \in 1 .. Len(fs) /\ fs[1].name = "tag"
        BY DEF Field
      <3> HIDE DEF fs, clean
      <3>2. \E v : <<fs[1].name, v>> \in Get(clean, fs).data
        BY <1>1, <2>1, <3>1, GetHas DEF fs
      <3> QED  BY <3>1, <3>2 DEF fs
    <2> QED  BY <1>3, <2>1
  <1>6. ASSUME Going(t)
        PROVE  /\ typed \in Scans(Members) /\ typed \in Scans(HeaderNames) /\ typed.doc = c.doc
               /\ Going(typed) /\ Further(typed, c)
    <2>1. PICK v : <<"tag", v>> \in t.data
      BY <1>5, <1>6
    <2>2. t.data \in SUBSET (HeaderNames \X Nat)
      <3> HIDE DEF t
      <3> QED  BY <1>4 DEF Scans, Progress
    <2> DEFINE k == Member(t, "tag") % 256
    <2>3. k \in Tags
      <3>1. Member(t, "tag") \in Nat
        <4> HIDE DEF t
        <4> QED  BY <2>1, <2>2, MemberNat
      <3>2. \A o \in Nat : o % 256 \in Tags
        BY DEF Tags
      <3> HIDE DEF t
      <3> QED  BY <3>1, <3>2
    <2> HIDE DEF t, k
    <2> DEFINE r == [t EXCEPT !.type = k, !.data = {}]
    <2>4. /\ r \in Progress(Members) /\ r \in Progress(HeaderNames) /\ r.doc = t.doc
          /\ r.code = t.code /\ r.health = t.health /\ r.pos = t.pos /\ r.off = t.off
      BY <1>4, <2>3 DEF Scans, Progress
    <2>5. t.off <= Remaining(t.pos)
      BY <1>4 DEF Scans
    <2>6. typed = r
      BY DEF k
    <2> HIDE DEF r, typed
    <2> QED  BY <1>4, <1>6, <2>4, <2>5, <2>6 DEF Scans, Going, Further
  <1>8. ReadType(c) = IF Going(t) THEN typed ELSE t
    BY DEF ReadType
  <1>9. rtype # "FILE" /\ Going(c) /\ ~Going(t) => t.health = "overrun"
    BY <1>2, <1>3
  <1> HIDE DEF t, typed
  <1> QED  BY <1>4, <1>6, <1>8, <1>9

-----------------------------------------------------------------------------
(* The handlers.                                                            *)

\* A handler reads into the scan, never back, and moves neither its type nor its
\* machine.
Kin(d, c) == d.type = c.type /\ d.doc = c.doc /\ Further(d, c)

\* The parts of a handler follow one another.
LEMMA KinIs ==
    ASSUME NEW c \in Scans(Members)
    PROVE  /\ Kin(c, c)
           /\ \A s, d \in Scans(Members) : Kin(d, s) /\ Kin(s, c) => Kin(d, c)
  BY DEF Kin, Further, Scans, Progress

\* A handler that reads fields with the names of members.
LEMMA ReadIs ==
    ASSUME input \in Seq(Chunks), NEW c \in Scans(Members)
    PROVE  /\ \A k \in Nat : Get(c, <<Field("value", k)>>) \in Scans(Members)
                          /\ Kin(Get(c, <<Field("value", k)>>), c)
           /\ ujo_reader_parse_date(c) \in Scans(Members)
           /\ Kin(ujo_reader_parse_date(c), c)
           /\ ujo_reader_parse_time(c) \in Scans(Members)
           /\ Kin(ujo_reader_parse_time(c), c)
           /\ ujo_reader_parse_timestamp(c) \in Scans(Members)
           /\ Kin(ujo_reader_parse_timestamp(c), c)
           /\ Sizes(c) \in Scans(Members) /\ Kin(Sizes(c), c)
  <1>0. ASSUME NEW fs, Readable(fs, Members)
        PROVE  Get(c, fs) \in Scans(Members) /\ Kin(Get(c, fs), c)
    BY <1>0, GetIs DEF Kin
  <1>1. ASSUME NEW k \in Nat
        PROVE  Get(c, <<Field("value", k)>>) \in Scans(Members)
               /\ Kin(Get(c, <<Field("value", k)>>), c)
    <2> DEFINE fs == <<Field("value", k)>>
    <2>1. Readable(fs, Members)
      BY DEF Field, Members, Readable
    <2> HIDE DEF fs
    <2>2. Get(c, fs) \in Scans(Members) /\ Kin(Get(c, fs), c)
      BY <2>1, <1>0
    <2> QED  BY <2>2 DEF fs
  <1>2. ujo_reader_parse_date(c) \in Scans(Members) /\ Kin(ujo_reader_parse_date(c), c)
    <2> DEFINE fs == <<Field("year", 2), Field("month", 1), Field("day", 1)>>
    <2>1. Readable(fs, Members)
      BY DEF Field, Members, Readable
    <2> HIDE DEF fs
    <2>2. Get(c, fs) \in Scans(Members) /\ Kin(Get(c, fs), c)
      BY <2>1, <1>0
    <2> QED  BY <2>2 DEF fs, ujo_reader_parse_date
  <1>3. ujo_reader_parse_time(c) \in Scans(Members) /\ Kin(ujo_reader_parse_time(c), c)
    <2> DEFINE fs == <<Field("hour", 1), Field("minute", 1), Field("second", 1)>>
    <2>1. Readable(fs, Members)
      BY DEF Field, Members, Readable
    <2> HIDE DEF fs
    <2>2. Get(c, fs) \in Scans(Members) /\ Kin(Get(c, fs), c)
      BY <2>1, <1>0
    <2> QED  BY <2>2 DEF fs, ujo_reader_parse_time
  <1>4. /\ ujo_reader_parse_timestamp(c) \in Scans(Members)
        /\ Kin(ujo_reader_parse_timestamp(c), c)
    <2> DEFINE fs == <<Field("year", 2), Field("month", 1), Field("day", 1), Field("hour", 1),
                       Field("minute", 1), Field("second", 1), Field("millisecond", 2)>>
    <2>1. Readable(fs, Members)
      BY DEF Field, Members, Readable
    <2> HIDE DEF fs
    <2>2. Get(c, fs) \in Scans(Members) /\ Kin(Get(c, fs), c)
      BY <2>1, <1>0
    <2> QED  BY <2>2 DEF fs, ujo_reader_parse_timestamp
  <1>5. Sizes(c) \in Scans(Members) /\ Kin(Sizes(c), c)
    <2> DEFINE fs == <<Field("type", 1), Raw("n", 4, 4)>>
    <2>1. Readable(fs, Members)
      BY DEF Field, Raw, Members, Readable
    <2> HIDE DEF fs
    <2>2. Get(c, fs) \in Scans(Members) /\ Kin(Get(c, fs), c)
      BY <2>1, <1>0
    <2> QED  BY <2>2 DEF fs, Sizes
  <1> QED  BY <1>1, <1>2, <1>3, <1>4, <1>5

\* One field that is used as it comes.
LEMMA RawReadable ==
    ASSUME NEW N, NEW n \in N, NEW k \in Nat, NEW unit
    PROVE  Readable(<<Raw(n, k, unit)>>, N)
  <1> DEFINE fs == <<Raw(n, k, unit)>>
  <1>1. Len(fs) = 1 /\ \A i \in 1 .. 1 : fs[i].name = n /\ fs[i].size = k
    BY DEF Raw
  <1> HIDE DEF fs
  <1>2. Readable(fs, N)
    BY <1>1 DEF Readable
  <1> QED  BY <1>2 DEF fs

\* The octets of a string or a binary.
LEMMA PayloadIs ==
    ASSUME input \in Seq(Chunks), NEW c \in Scans(Members), NEW mem \in BOOLEAN, NEW n \in Nat,
           NEW unit \in Nat
    PROVE  Payload(c, mem, n, unit) \in Scans(Members) /\ Kin(Payload(c, mem, n, unit), c)
  <1> DEFINE fs == <<Raw("octets", n * unit, unit)>>
             none == [c EXCEPT !.data = @ \cup {<<"octets", 0>>}]
  <1>1. Readable(fs, Members)
    <2>1. n * unit \in Nat /\ "octets" \in Members
      BY DEF Members
    <2> QED  BY <2>1, RawReadable
  <1> HIDE DEF fs
  <1>2. Get(c, fs) \in Scans(Members) /\ Kin(Get(c, fs), c)
    BY <1>1, GetIs DEF Kin
  <1>3. none \in Scans(Members) /\ Kin(none, c)
    <2>1. {<<"octets", 0>>} \in SUBSET (Members \X Nat)
      BY DEF Members
    <2>2. c.off <= Remaining(c.pos) /\ c.data \in SUBSET (Members \X Nat)
      BY DEF Scans, Progress
    <2>3. /\ none \in Progress(Members) /\ none.pos = c.pos /\ none.off = c.off
          /\ none.doc = c.doc /\ none.type = c.type /\ c.pos \in Nat /\ c.off \in Nat
      BY <2>1, <2>2 DEF Scans, Progress
    <2> HIDE DEF none
    <2> QED  BY <2>2, <2>3 DEF Scans, Kin, Further
  <1>4. UJO_ERR_ALLOCATION \in UjoErrors
    BY DEF UjoErrors
  <1>5. /\ Fail(c, UJO_ERR_ALLOCATION) \in Scans(Members)
        /\ Kin(Fail(c, UJO_ERR_ALLOCATION), c)
    BY <1>4, FailIs, KinIs DEF Kin, Further
  <1> QED  BY <1>2, <1>3, <1>5 DEF Payload, fs

\* Strings and binaries.
LEMMA SizedReadIs ==
    ASSUME input \in Seq(Chunks), NEW c \in Scans(Members), NEW mem \in BOOLEAN
    PROVE  /\ ujo_reader_parse_string(c, mem) \in Scans(Members)
           /\ Kin(ujo_reader_parse_string(c, mem), c)
           /\ ujo_reader_parse_binary(c, mem) \in Scans(Members)
           /\ Kin(ujo_reader_parse_binary(c, mem), c)
  <1> DEFINE s == Sizes(c)
             sub == Member(s, "type")
             n == Member(s, "n")
  <1>1. s \in Scans(Members) /\ Kin(s, c)
    BY ReadIs
  <1>0. Going(s) => n \in Nat
    <2> DEFINE fs == <<Field("type", 1), Raw("n", 4, 4)>>
    <2> SUFFICES ASSUME Going(s) PROVE n \in Nat
      OBVIOUS
    <2>1. 2 \in 1 .. Len(fs) /\ fs[2].name = "n" /\ s = Get(c, fs)
      BY DEF Raw, Sizes
    <2> HIDE DEF fs, s
    <2>2. \E v : <<"n", v>> \in s.data
      <3>1. \E v : <<fs[2].name, v>> \in Get(c, fs).data
        BY <2>1, GetHas
      <3> QED  BY <2>1, <3>1
    <2>3. s.data \in SUBSET (Members \X Nat)
      BY <1>1 DEF Scans, Progress
    <2> QED  BY <2>2, <2>3, MemberNat
  <1> HIDE DEF s, sub, n
  <1>2. \A unit \in Nat : Going(s) => /\ Payload(s, mem, n, unit) \in Scans(Members)
                                     /\ Kin(Payload(s, mem, n, unit), c)
    BY <1>0, <1>1, PayloadIs, KinIs
  <1>3. /\ Fail(s, UJO_ERR_INVALID_DATA) \in Scans(Members)
        /\ Kin(Fail(s, UJO_ERR_INVALID_DATA), c)
    <2>1. Kin(Fail(s, UJO_ERR_INVALID_DATA), s)
      BY <1>1, FailIs, CodesAre, KinIs DEF Kin, Further
    <2> QED  BY <1>1, <2>1, FailIs, CodesAre, KinIs
  <1>4. /\ ~Going(s) => ujo_reader_parse_string(c, mem) = s
        /\ Going(s) => ujo_reader_parse_string(c, mem) \in
                         {Payload(s, mem, n, 1), Payload(s, mem, n, 2), Payload(s, mem, n, 4),
                          Fail(s, UJO_ERR_INVALID_DATA)}
    <2> DEFINE str == CASE ~Going(s) -> s
          [] Going(s) /\ sub \in {UJO_SUB_STRING_C, UJO_SUB_STRING_U8} -> Payload(s, mem, n, 1)
          [] Going(s) /\ sub = UJO_SUB_STRING_U16 -> Payload(s, mem, n, 2)
          [] Going(s) /\ sub = UJO_SUB_STRING_U32 -> Payload(s, mem, n, 4)
          [] OTHER -> Fail(s, UJO_ERR_INVALID_DATA)
    <2>1. ujo_reader_parse_string(c, mem) = str
      BY DEF ujo_reader_parse_string, s, sub, n
    <2>2. /\ ~Going(s) => str = s
          /\ Going(s) => str \in {Payload(s, mem, n, 1), Payload(s, mem, n, 2),
                                  Payload(s, mem, n, 4), Fail(s, UJO_ERR_INVALID_DATA)}
      BY DEF UJO_SUB_STRING_C, UJO_SUB_STRING_U8, UJO_SUB_STRING_U16, UJO_SUB_STRING_U32
    <2> QED  BY <2>1, <2>2
  <1>5. ujo_reader_parse_binary(c, mem) = IF Going(s) THEN Payload(s, mem, n, 1) ELSE s
    BY DEF ujo_reader_parse_binary, s, n
  <1> QED  BY <1>1, <1>2, <1>3, <1>4, <1>5

\* The state machine moves only after a complete read.
LEMMA FoundIs ==
    ASSUME NEW c \in Scans(Members), NEW grow \in BOOLEAN
    PROVE  /\ Found(c, grow) \in Scans(Members) /\ Found(c, grow).type = c.type
           /\ Found(c, grow).pos = c.pos /\ Found(c, grow).off = c.off
  <1>1. c.doc \in Machines
    BY DEF Scans, Progress
  <1>2. ujo_state_switch("ATOMIC_FOUND", c.doc, grow) \in Machines
    BY <1>1, SwitchIsMachine
  <1> DEFINE m == ujo_state_switch("ATOMIC_FOUND", c.doc, grow)
             r == [c EXCEPT !.doc = m]
  <1>3. c \in Progress(Members) /\ c.off <= Remaining(c.pos)
    BY DEF Scans, Progress
  <1> HIDE DEF m
  <1>4. r \in Progress(Members) /\ r.type = c.type /\ r.pos = c.pos /\ r.off = c.off
    BY <1>2, <1>3 DEF Progress, m
  <1>5. Found(c, grow) = IF Going(c) THEN r ELSE c
    BY <1>3 DEF Found, Progress, m
  <1> HIDE DEF r
  <1> QED  BY <1>3, <1>4, <1>5 DEF Scans, Progress

\* Every atomic type has a handler.
LEMMA ParseIs ==
    ASSUME input \in Seq(Chunks), NEW c \in Scans(Members), NEW mem \in BOOLEAN,
           c.type \in AtomicTypes
    PROVE  Parse(c, mem) \in Scans(Members) /\ Kin(Parse(c, mem), c)
  <1>1. \A k \in {1, 2, 4, 8} : /\ Get(c, <<Field("value", k)>>) \in Scans(Members)
                                /\ Kin(Get(c, <<Field("value", k)>>), c)
    BY ReadIs
  <1>2. Parse(c, mem) \in
          { Get(c, <<Field("value", k)>>) : k \in {1, 2, 4, 8} } \cup
          {c, ujo_reader_parse_date(c), ujo_reader_parse_time(c), ujo_reader_parse_timestamp(c),
           ujo_reader_parse_string(c, mem), ujo_reader_parse_binary(c, mem)}
    <2>1. c.type \in 1 .. 19
      BY DEF AtomicTypes, UJO_TYPE_FLOAT64, UJO_TYPE_TIMESTAMP
    <2>2. \A k \in {1, 2, 4, 8} : Get(c, <<Field("value", k)>>) \in
                                   { Get(c, <<Field("value", j)>>) : j \in {1, 2, 4, 8} }
      OBVIOUS
    <2> DEFINE gets == { Get(c, <<Field("value", k)>>) : k \in {1, 2, 4, 8} }
               get(k) == Get(c, <<Field("value", k)>>)
    <2>3. get(1) \in gets /\ get(2) \in gets /\ get(4) \in gets /\ get(8) \in gets
      BY <2>2
    <2> HIDE DEF gets
    <2>4. Parse(c, mem) \in gets \cup
            {c, ujo_reader_parse_date(c), ujo_reader_parse_time(c), ujo_reader_parse_timestamp(c),
             ujo_reader_parse_string(c, mem), ujo_reader_parse_binary(c, mem)}
      BY <2>1, <2>3 DEF Parse, UJO_TYPE_INT64, UJO_TYPE_INT32, UJO_TYPE_INT16, UJO_TYPE_INT8,
         UJO_TYPE_UINT64, UJO_TYPE_UINT32, UJO_TYPE_UINT16, UJO_TYPE_UINT8, UJO_TYPE_FLOAT16,
         UJO_TYPE_FLOAT32, UJO_TYPE_FLOAT64, UJO_TYPE_BOOL, UJO_TYPE_NONE, UJO_TYPE_UX_TIME,
         UJO_TYPE_DATE, UJO_TYPE_TIME, UJO_TYPE_TIMESTAMP, UJO_TYPE_STRING, UJO_TYPE_BIN,
         ujo_reader_parse_int64, ujo_reader_parse_int32, ujo_reader_parse_int16,
         ujo_reader_parse_int8, ujo_reader_parse_uint64, ujo_reader_parse_uint32,
         ujo_reader_parse_uint16, ujo_reader_parse_uint8, ujo_reader_parse_float16,
         ujo_reader_parse_float32, ujo_reader_parse_float64, ujo_reader_parse_bool,
         ujo_reader_parse_none, ujo_reader_parse_uxtime
    <2> QED  BY <2>4 DEF gets
  <1>3. Kin(c, c)
    BY KinIs
  <1> QED  BY <1>1, <1>2, <1>3, ReadIs, SizedReadIs

\* Whatever the type octet, the scan stays within the input and the machine is one
\* (the switch of ujo_reader_get_next).
LEMMA DispatchIs ==
    ASSUME input \in Seq(Chunks), NEW c \in Scans(Members), NEW grow \in BOOLEAN,
           NEW mem \in BOOLEAN
    PROVE  /\ Dispatch(c, grow, mem) \in Scans(Members) /\ Dispatch(c, grow, mem).type = c.type
           /\ Further(Dispatch(c, grow, mem), c)
  <1> DEFINE ok(d) == d \in Scans(Members) /\ d.type = c.type /\ Further(d, c)
             rows == [c EXCEPT !.doc.cur.state = "TABLE_VALUES"]
             left == ujo_state_prev(c.doc)
             shut == [c EXCEPT !.doc = ujo_state_switch("CONTAINER_CLOSED", left, grow)]
             crash == [c EXCEPT !.doc = left, !.health = "crashed"]
  <1>1. c.doc \in Machines
    BY DEF Scans, Progress
  <1>0. ASSUME NEW m \in Machines
        PROVE  ok([c EXCEPT !.doc = m]) /\ ok([c EXCEPT !.doc = m, !.health = "crashed"])
    <2>1. /\ c \in Progress(Members) /\ c.off <= Remaining(c.pos)
          /\ c.pos \in Nat /\ c.off \in Nat
      BY DEF Scans, Progress
    <2> DEFINE r == [c EXCEPT !.doc = m]
               x == [c EXCEPT !.doc = m, !.health = "crashed"]
    <2>2. /\ r \in Progress(Members) /\ r.pos = c.pos /\ r.off = c.off /\ r.type = c.type
          /\ x \in Progress(Members) /\ x.pos = c.pos /\ x.off = c.off /\ x.type = c.type
      BY <2>1 DEF Progress
    <2> HIDE DEF r, x
    <2>3. ok(r) /\ ok(x)
      BY <2>1, <2>2 DEF Scans, Further
    <2> QED  BY <2>3 DEF r, x
  <1>2. \A s \in ujoDocState : ok([c EXCEPT !.doc = ujo_state_next(s, c.doc, grow)])
    <2> TAKE s \in ujoDocState
    <2>1. ujo_state_next(s, c.doc, grow) \in Machines
      BY <1>1, NextIsMachine
    <2> HIDE DEF ok
    <2> QED  BY <1>0, <2>1
  <1>3. /\ ok(ujo_reader_open_list(c, grow)) /\ ok(ujo_reader_open_map(c, grow))
        /\ ok(ujo_reader_open_table(c, grow))
    <2>1. "LIST" \in ujoDocState /\ "DICT_KEY" \in ujoDocState /\ "TABLE_COLUMNS" \in ujoDocState
      BY DEF ujoDocState
    <2> HIDE DEF ok
    <2> QED  BY <1>2, <2>1
             DEF ujo_reader_open_list, ujo_reader_open_map, ujo_reader_open_table
  <1>4. ok(rows)
    <2>1. [c.doc EXCEPT !.cur.state = "TABLE_VALUES"] \in Machines
      BY <1>1 DEF Machines, ujo_state, ujoDocState
    <2>2. rows = [c EXCEPT !.doc = [c.doc EXCEPT !.cur.state = "TABLE_VALUES"]]
      BY DEF Scans, Progress
    <2> HIDE DEF ok, rows
    <2> QED  BY <1>0, <2>1, <2>2
  <1>5. ok(ujo_reader_close_container(c, grow))
    <2>1. left \in Machines
      BY <1>1, PrevIsMachine
    <2>2. ujo_state_switch("CONTAINER_CLOSED", left, grow) \in Machines
      BY <2>1, SwitchIsMachine
    <2>3. ok(shut) /\ ok(crash)
      <3> HIDE DEF ok
      <3> QED  BY <1>0, <2>1, <2>2
    <2>4. ujo_reader_close_container(c, grow) = IF left.cur.state = "NULL" THEN crash ELSE shut
      BY DEF ujo_reader_close_container
    <2> HIDE DEF ok, shut, crash
    <2> QED  BY <2>3, <2>4
  <1>6. c.type \in AtomicTypes => ok(Found(Parse(c, mem), grow))
    BY ParseIs, FoundIs DEF Kin, Further
  <1>7. ok(Fail(c, UJO_ERR_INVALID_DATA))
    <2>1. c.pos \in Nat /\ c.off \in Nat
      BY DEF Scans, Progress
    <2>2. /\ Fail(c, UJO_ERR_INVALID_DATA) \in Scans(Members)
          /\ Fail(c, UJO_ERR_INVALID_DATA).type = c.type
          /\ Fail(c, UJO_ERR_INVALID_DATA).pos = c.pos
          /\ Fail(c, UJO_ERR_INVALID_DATA).off = c.off
      BY FailIs, CodesAre
    <2> QED  BY <2>1, <2>2 DEF Further
  <1> HIDE DEF ok, rows
  <1>8. ok(Dispatch(c, grow, mem))
    BY <1>3, <1>4, <1>5, <1>6, <1>7
       DEF Dispatch, rows, UJO_TYPE_LIST, UJO_TYPE_MAP, UJO_TYPE_TABLE, UJO_TERMINATOR,
           AtomicTypes, UJO_TYPE_FLOAT64, UJO_TYPE_TIMESTAMP
  <1> QED  BY <1>8 DEF ok

-----------------------------------------------------------------------------
(* The reader object and its memory.                                        *)

\* An element was lost only if a file ended within it, or a read went astray.
Intact == health = "ok" \/ (rtype = "MEMORY" /\ health \in Defined)

\* The inductive invariant.
RInv ==
    /\ IInv /\ ReaderTypeOK
    /\ rtype = "none" => pos = 1 /\ off = 0 /\ health = "ok"
    /\ phase = "parse" =>
          held # <<>> /\ health \in Defined /\ rtype \in {"FILE", "MEMORY"}
    /\ heap.elements >= Len(held) /\ heap.payloads >= Payloads(held)
    /\ Intact => heap.elements = Len(held)

\* The memory of an element.
LEMMA OwnsIs ==
    /\ \A t : Owns(t) \in Nat
    /\ Payloads(<<>>) = 0
    /\ \A e : Payloads(<<e>>) = Owns(e.type)
  BY DEF Owns, Payloads

\* Counting an element and what it owns.
LEMMA HeapIs ==
    ASSUME NEW h \in [elements : Nat, payloads : Nat, buffers : Nat], NEW k \in Nat
    PROVE  /\ [h EXCEPT !.elements = @ + 1, !.payloads = @ + k]
                \in [elements : Nat, payloads : Nat, buffers : Nat]
           /\ [h EXCEPT !.elements = @ + 1, !.payloads = @ + k].elements = h.elements + 1
           /\ [h EXCEPT !.elements = @ + 1, !.payloads = @ + k].payloads = h.payloads + k
           /\ [h EXCEPT !.elements = @ + 1] \in [elements : Nat, payloads : Nat, buffers : Nat]
           /\ [h EXCEPT !.elements = @ + 1].elements = h.elements + 1
           /\ [h EXCEPT !.elements = @ + 1].payloads = h.payloads
  <1>1. h.elements + 1 \in Nat /\ h.payloads + k \in Nat
    OBVIOUS
  <1> DEFINE a == h.elements + 1
             b == h.payloads + k
  <1> HIDE DEF a, b
  <1>2. /\ [h EXCEPT !.elements = a, !.payloads = b]
                \in [elements : Nat, payloads : Nat, buffers : Nat]
           /\ [h EXCEPT !.elements = a, !.payloads = b].elements = a
           /\ [h EXCEPT !.elements = a, !.payloads = b].payloads = b
           /\ [h EXCEPT !.elements = a] \in [elements : Nat, payloads : Nat, buffers : Nat]
           /\ [h EXCEPT !.elements = a].elements = a
           /\ [h EXCEPT !.elements = a].payloads = h.payloads
    BY <1>1 DEF a, b
  <1> QED  BY <1>2 DEF a, b

\* The three ways a get_next ends: the header could not be read, the document is
\* closed, or an element is found or fails after its type.
Stops(c, h) ==
    /\ ~Going(c)
    /\ pos' = c.pos /\ off' = c.off /\ rret' = c.code /\ heap' = h /\ held' = <<>>
    /\ health' = Failure(c) /\ phase' = "idle"
    /\ UNCHANGED <<rdoc, eod, got>>

Ends(c, h) ==
    /\ Going(c) /\ c.doc.cur.state = "CLOSED"
    /\ pos' = c.pos /\ off' = c.off /\ rret' = UJO_SUCCESS /\ heap' = h /\ held' = <<>>
    /\ eod' = TRUE /\ health' = Success(c) /\ phase' = "idle"
    /\ UNCHANGED <<rdoc, got>>

Outcome(c, grow, mem) ==
    IF Going(ReadType(c)) THEN Dispatch(ReadType(c), grow, mem) ELSE ReadType(c)

ElementOf(d) == [type |-> d.type, data |-> d.data]

Yields(d, h, loop) ==
    /\ Going(d)
    /\ got' = IF Lost THEN got ELSE Append(got, ElementOf(d))
    /\ held' = <<ElementOf(d)>>
    /\ heap' = [h EXCEPT !.elements = @ + 1, !.payloads = @ + Owns(d.type)]
    /\ phase' = loop /\ health' = Success(d)

Fails(d, t, h) ==
    /\ ~Going(d)
    /\ health' = Failure(d)
    /\ heap' = IF Going(t) THEN h ELSE [h EXCEPT !.elements = @ + 1]
    /\ held' = <<>> /\ phase' = "idle"
    /\ UNCHANGED got

Finds(c, d, h, loop) ==
    /\ Going(c) /\ c.doc.cur.state # "CLOSED"
    /\ pos' = d.pos /\ off' = d.off /\ rdoc' = d.doc /\ rret' = d.code /\ eod' = FALSE
    /\ Yields(d, h, loop) \/ Fails(d, ReadType(c), h)

\* There is no fourth.
LEMMA GetNextCases ==
    ASSUME NEW c, NEW h, NEW loop, GetNext(c, h, loop)
    PROVE  \/ Stops(c, h) \/ Ends(c, h)
           \/ \E grow \in BOOLEAN, mem \in BOOLEAN : Finds(c, Outcome(c, grow, mem), h, loop)
  <1>1. CASE ~Going(c)
    BY <1>1 DEF GetNext, Stops
  <1>2. CASE Going(c) /\ c.doc.cur.state = "CLOSED"
    BY <1>2 DEF GetNext, Ends
  <1>3. CASE Going(c) /\ c.doc.cur.state # "CLOSED"
    <2>1. PICK grow \in IF "push" \in RFaults THEN BOOLEAN ELSE {TRUE},
               mem \in IF "calloc" \in RFaults THEN BOOLEAN ELSE {TRUE} :
            \E t \in {ReadType(c)} :
            \E d \in {IF Going(t) THEN Dispatch(t, grow, mem) ELSE t} :
              LET e == [type |-> d.type, data |-> d.data]
              IN  /\ pos' = d.pos /\ off' = d.off /\ rdoc' = d.doc /\ rret' = d.code
                  /\ eod' = FALSE
                  /\ \/ /\ Going(d)
                        /\ got' = IF Lost THEN got ELSE Append(got, e)
                        /\ held' = <<e>>
                        /\ heap' = [h EXCEPT !.elements = @ + 1, !.payloads = @ + Owns(e.type)]
                        /\ phase' = loop
                        /\ health' = Success(d)
                     \/ /\ ~Going(d)
                        /\ health' = Failure(d)
                        /\ heap' = IF Going(t) THEN h ELSE [h EXCEPT !.elements = @ + 1]
                        /\ held' = <<>> /\ phase' = "idle"
                        /\ UNCHANGED got
      BY <1>3, Zenon DEF GetNext
    <2>2. grow \in BOOLEAN /\ mem \in BOOLEAN
      OBVIOUS
    <2> DEFINE t == ReadType(c)
               d == Outcome(c, grow, mem)
    <2>3. d = IF Going(t) THEN Dispatch(t, grow, mem) ELSE t
      BY DEF Outcome
    <2> HIDE DEF t, d
    <2>4. /\ pos' = d.pos /\ off' = d.off /\ rdoc' = d.doc /\ rret' = d.code /\ eod' = FALSE
          /\ Yields(d, h, loop) \/ Fails(d, t, h)
      BY <2>1, <2>3, ZenonT(60) DEF t, Yields, Fails, ElementOf
    <2>5. Finds(c, d, h, loop)
      BY <1>3, <2>4 DEF Finds, t
    <2>6. Finds(c, Outcome(c, grow, mem), h, loop)
      BY <2>5 DEF d
    <2> QED  BY <2>2, <2>6
  <1> QED  BY <1>1, <1>2, <1>3

\* What a call of ujo_reader_get_next leaves, if the memory before it was that of
\* no element.
Leaves(h) ==
    /\ pos' \in 1 .. Len(input) + 1 /\ off' \in Nat /\ off' <= Remaining(pos')
    /\ rdoc' \in Machines /\ rret' \in UjoErrors /\ eod' \in BOOLEAN
    /\ health' \in Defined \cup {"overrun", "crashed"}
    /\ got' \in Seq(Elements)
    /\ held' \in Seq(Elements) /\ Len(held') <= 1
    /\ phase' \in {"idle", "parse"}
    /\ phase' = "parse" => held' # <<>> /\ health' \in Defined
    /\ heap' \in [elements : Nat, payloads : Nat, buffers : Nat]
    /\ heap'.elements >= Len(held')
    /\ heap'.payloads - Payloads(held') = h.payloads
    /\ health' = "ok" \/ (rtype = "MEMORY" /\ health' \in Defined) => heap'.elements = Len(held')

\* What becomes of the reader's health.
LEMMA HealthIs ==
    ASSUME NEW N, NEW d \in Scans(N), health \in Defined
    PROVE  /\ Failure(d) \in {"error", "astray", "garbled", "overrun", "crashed"}
           /\ d.health = "overrun" => Failure(d) \notin Defined
           /\ Going(d) => Success(d) \in Defined
           /\ Success(d) = "ok" => health = "ok"
  BY DEF Failure, Success, Defined, Going, Scans, Progress

\* Whatever get_next meets, the position stays within the input and every element
\* is the caller's or released, but for one whose type could not be read.
LEMMA GetNextLeaves ==
    ASSUME ReaderTypeOK, NEW c \in Scans(HeaderNames), NEW loop \in {"idle", "parse"},
           NEW h \in [elements : Nat, payloads : Nat, buffers : Nat],
           rtype \in {"FILE", "MEMORY"}, health \in Defined,
           Intact => h.elements = 0,
           GetNext(c, h, loop)
    PROVE  Leaves(h)
  <1> USE DEF ReaderTypeOK
  <1>1. /\ c.pos \in 1 .. Len(input) + 1 /\ c.doc \in Machines /\ c.code \in UjoErrors
        /\ c.off \in Nat /\ c.off <= Remaining(c.pos)
    BY DEF Scans, Progress
  <1>0. /\ Failure(c) \in {"error", "astray", "garbled", "overrun", "crashed"}
        /\ Going(c) => Success(c) \in Defined
        /\ Success(c) = "ok" => health = "ok"
    BY HealthIs
  <1>2. h.elements \in Nat /\ h.payloads \in Nat /\ h.buffers \in Nat
    OBVIOUS
  <1>3. <<>> \in Seq(Elements) /\ Len(<<>>) = 0 /\ Payloads(<<>>) = 0
    BY OwnsIs
  <1>4. CASE Stops(c, h)
    BY <1>0, <1>1, <1>2, <1>3, <1>4 DEF Stops, Leaves, Intact, Defined
  <1>5. CASE Ends(c, h)
    BY <1>0, <1>1, <1>2, <1>3, <1>5, CodesAre DEF Ends, Leaves, Intact, Defined
  <1>6. ASSUME NEW grow \in BOOLEAN, NEW mem \in BOOLEAN,
               Finds(c, Outcome(c, grow, mem), h, loop)
        PROVE  Leaves(h)
    <2> DEFINE t == ReadType(c)
               d == Outcome(c, grow, mem)
    <2>0. /\ Going(c) /\ d = IF Going(t) THEN Dispatch(t, grow, mem) ELSE t
          /\ pos' = d.pos /\ off' = d.off /\ rdoc' = d.doc /\ rret' = d.code /\ eod' = FALSE
          /\ Yields(d, h, loop) \/ Fails(d, t, h)
      <3>1. d = IF Going(t) THEN Dispatch(t, grow, mem) ELSE t
        BY DEF Outcome
      <3> HIDE DEF d
      <3>2. Finds(c, d, h, loop)
        BY <1>6 DEF d
      <3> QED  BY <3>1, <3>2 DEF Finds
    <2>1. /\ t \in Scans(HeaderNames) /\ (Going(t) => t \in Scans(Members))
          /\ rtype # "FILE" /\ ~Going(t) => t.health = "overrun"
      BY <2>0, ReadTypeIs
    <2> HIDE DEF t, d
    <2>2. Going(t) => d \in Scans(Members)
      BY <2>0, <2>1, DispatchIs
    <2>3. /\ pos' \in 1 .. Len(input) + 1 /\ off' \in Nat /\ off' <= Remaining(pos')
          /\ rdoc' \in Machines /\ rret' \in UjoErrors /\ eod' \in BOOLEAN
      <3>1. CASE Going(t)
        <4>1. d \in Scans(Members)
          BY <2>2, <3>1
        <4> QED  BY <2>0, <4>1 DEF Scans, Progress
      <3>2. CASE ~Going(t)
        <4>1. d \in Scans(HeaderNames)
          BY <2>0, <2>1, <3>2
        <4> QED  BY <2>0, <4>1 DEF Scans, Progress
      <3> QED  BY <3>1, <3>2
    <2>4. CASE Yields(d, h, loop)
      <3> USE DEF Yields
      <3> DEFINE e == ElementOf(d)
      <3>1. d \in Scans(Members)
        BY <2>0, <2>2, <2>4
      <3>2. e \in Elements /\ e.type = d.type
        BY <3>1 DEF Scans, Progress, Elements, ElementOf, Tags
      <3>3. Payloads(held') = Owns(d.type) /\ Owns(d.type) \in Nat
        <4> HIDE DEF e
        <4>1. Payloads(<<e>>) = Owns(e.type)
          BY OwnsIs
        <4> QED  BY <4>1, <3>2, <2>4, OwnsIs DEF e
      <3> HIDE DEF e
      <3>4. held' = <<e>> /\ (got' = got \/ got' = Append(got, e))
        BY <2>4 DEF e
      <3>5. held' \in Seq(Elements) /\ Len(held') = 1 /\ held' # <<>>
        BY <3>2, <3>4
      <3>8. got' \in Seq(Elements)
        <4>1. got \in Seq(Elements)
          OBVIOUS
        <4>2. Append(got, e) \in Seq(Elements)
          BY <3>2, <4>1
        <4> QED  BY <3>4, <4>1, <4>2
      <3>6. /\ heap' \in [elements : Nat, payloads : Nat, buffers : Nat]
            /\ heap'.elements = h.elements + 1 /\ heap'.payloads = h.payloads + Owns(d.type)
        BY <2>4, <3>3, HeapIs
      <3>7. health' \in Defined /\ (health' = "ok" => health = "ok")
        BY <2>0, <2>4, <3>1, HealthIs
      <3> QED  BY <1>2, <2>3, <2>4, <3>3, <3>5, <3>6, <3>7, <3>8, SMTT(60)
            DEF Leaves, Intact, Defined
    <2>5. CASE Fails(d, t, h)
      <3> USE DEF Fails
      <3>1. Failure(d) \in {"error", "astray", "garbled", "overrun", "crashed"}
        <4>1. Going(t) => d \in Scans(Members)
          BY <2>2
        <4>2. ~Going(t) => d \in Scans(HeaderNames)
          BY <2>0, <2>1
        <4> QED  BY <4>1, <4>2, HealthIs
      <3>2. CASE Going(t)
        BY <1>2, <1>3, <2>3, <2>5, <3>1, <3>2 DEF Leaves, Intact, Defined
      <3>3. CASE ~Going(t)
        <4>1. rtype # "FILE" => Failure(d) \notin Defined
          BY <2>0, <2>1, <3>3 DEF Failure, Defined
        <4>2. /\ heap' \in [elements : Nat, payloads : Nat, buffers : Nat]
              /\ heap'.elements = h.elements + 1 /\ heap'.payloads = h.payloads
          BY <2>5, <3>3, HeapIs
        <4> QED  BY <1>2, <1>3, <2>3, <2>5, <3>1, <3>3, <4>1, <4>2, SMTT(60)
                 DEF Leaves, Defined
      <3> QED  BY <3>2, <3>3
    <2> QED  BY <2>0, <2>4, <2>5
  <1> QED  BY <1>4, <1>5, <1>6, GetNextCases

\* The writer is left alone while a document is read.
LEMMA WriterRests ==
    ASSUME IInv, UNCHANGED wvars
    PROVE  IInv'
  BY NextKeeps

\* A call of ujo_reader_get_next keeps the invariant.
LEMMA CallKeeps ==
    ASSUME RInv, NEW c \in Scans(HeaderNames), NEW loop \in {"idle", "parse"},
           NEW h \in [elements : Nat, payloads : Nat, buffers : Nat],
           rtype \in {"FILE", "MEMORY"}, health \in Defined,
           Intact => h.elements = 0, GetNext(c, h, loop),
           orderly' \in BOOLEAN, pressed' \in Nat, UNCHANGED <<rtype, input, handler>>, UNCHANGED wvars
    PROVE  RInv' /\ heap'.payloads - Payloads(held') = h.payloads
  <1>1. Leaves(h)
    BY GetNextLeaves DEF RInv
  <1>2. IInv'
    BY WriterRests DEF RInv
  <1>3. ReaderTypeOK'
    BY <1>1 DEF RInv, ReaderTypeOK, Leaves, Remaining
  <1>4. Payloads(held') \in Nat
    BY OwnsIs DEF Payloads
  <1>5. h.payloads \in Nat /\ heap'.payloads \in Nat
    BY <1>1 DEF Leaves
  <1> QED  BY <1>1, <1>2, <1>3, <1>4, <1>5 DEF RInv, Leaves, Intact

\* What a call begins with.
LEMMA ReadyIs ==
    ASSUME RInv, Ready
    PROVE  /\ rtype \in {"FILE", "MEMORY"} /\ health \in Defined /\ held = <<>>
           /\ pressed' \in Nat /\ Payloads(held) = 0
           /\ heap \in [elements : Nat, payloads : Nat, buffers : Nat]
           /\ Intact => heap.elements = 0
  <1>1. /\ pressed \in Nat /\ heap \in [elements : Nat, payloads : Nat, buffers : Nat]
        /\ pressed' = IF Lost THEN pressed + 1 ELSE pressed
    BY DEF RInv, ReaderTypeOK, Ready
  <1>2. rtype \in {"FILE", "MEMORY"} /\ health \in Defined /\ held = <<>>
    BY DEF Ready
  <1>3. Intact => heap.elements = 0
    BY <1>2 DEF RInv
  <1> QED  BY <1>1, <1>2, <1>3, OwnsIs

\* ujo_reader_get_first and the start of ujo_reader_parse.
LEMMA FirstKeeps ==
    ASSUME RInv, Start, NEW loop \in {"idle", "parse"}, NEW z \in HeaderNoises,
           GetNext(ujo_reader_parse_header(Scan(z)), heap, loop),
           UNCHANGED <<rtype, input, handler>>, UNCHANGED wvars
    PROVE  RInv' /\ heap'.payloads - Payloads(held') = heap.payloads - Payloads(held)
  <1> DEFINE c == ujo_reader_parse_header(Scan(z))
  <1>1. ReaderTypeOK /\ input \in Seq(Chunks)
    BY DEF RInv, ReaderTypeOK
  <1>2. Scan(z) \in Scans(HeaderNames)
    BY <1>1, ScanIs
  <1>3. c \in Scans(HeaderNames)
    BY <1>1, <1>2, HeaderIs
  <1>4. Ready /\ orderly' \in BOOLEAN
    BY <1>1 DEF Start, ReaderTypeOK
  <1>5. /\ rtype \in {"FILE", "MEMORY"} /\ health \in Defined /\ held = <<>>
        /\ pressed' \in Nat /\ Payloads(held) = 0
        /\ heap \in [elements : Nat, payloads : Nat, buffers : Nat]
        /\ Intact => heap.elements = 0
    BY <1>4, ReadyIs
  <1> HIDE DEF c
  <1>6. RInv' /\ heap'.payloads - Payloads(held') = heap.payloads
    BY <1>3, <1>4, <1>5, CallKeeps DEF c
  <1> QED  BY <1>5, <1>6

\* ujo_reader_get_next.
LEMMA NextElementKeeps ==
    ASSUME RInv, ujo_reader_get_next, UNCHANGED wvars
    PROVE  RInv' /\ heap'.payloads - Payloads(held') = heap.payloads - Payloads(held)
  <1>1. ReaderTypeOK
    BY DEF RInv
  <1>2. PICK z \in Noises : GetNext(Scan(z), heap, "idle")
    BY DEF ujo_reader_get_next
  <1>3. Scan(z) \in Scans(HeaderNames)
    BY <1>1, ScanIs
  <1>4. Ready /\ orderly' \in BOOLEAN /\ UNCHANGED <<rtype, input, handler>>
    BY <1>1 DEF ujo_reader_get_next, ReaderTypeOK
  <1>5. /\ rtype \in {"FILE", "MEMORY"} /\ health \in Defined /\ held = <<>>
        /\ pressed' \in Nat /\ Payloads(held) = 0
        /\ heap \in [elements : Nat, payloads : Nat, buffers : Nat]
        /\ Intact => heap.elements = 0
    BY <1>4, ReadyIs
  <1>6. RInv' /\ heap'.payloads - Payloads(held') = heap.payloads
    BY <1>2, <1>3, <1>4, <1>5, CallKeeps
  <1> QED  BY <1>5, <1>6

\* An element that is there is one, and is counted.
LEMMA HeldIs ==
    ASSUME RInv, held # <<>>
    PROVE  /\ Len(held) = 1 /\ held[1] \in Elements /\ held = <<held[1]>>
           /\ heap.elements \in Nat /\ heap.elements >= 1
           /\ Payloads(held) = Owns(held[1].type)
           /\ Owns(held[1].type) \in Nat /\ heap.payloads \in Nat /\ heap.buffers \in Nat
           /\ heap.payloads >= Owns(held[1].type)
  <1>1. held \in Seq(Elements) /\ Len(held) <= 1
    BY DEF RInv, ReaderTypeOK
  <1>2. Len(held) = 1
    <2>1. Len(held) \in Nat /\ Len(held) # 0
      BY <1>1, EmptySeq
    <2>2. \A n \in Nat : n # 0 /\ n <= 1 => n = 1
      OBVIOUS
    <2> QED  BY <1>1, <2>1, <2>2
  <1>3. held[1] \in Elements /\ held = <<held[1]>>
    BY <1>1, <1>2
  <1>4. heap \in [elements : Nat, payloads : Nat, buffers : Nat]
    BY DEF RInv, ReaderTypeOK
  <1>5. heap.elements \in Nat /\ heap.elements >= 1
    BY <1>2, <1>4 DEF RInv
  <1>6. Payloads(held) = Owns(held[1].type) /\ Owns(held[1].type) \in Nat
    BY OwnsIs DEF Payloads
  <1> QED  BY <1>2, <1>3, <1>4, <1>5, <1>6 DEF RInv

\* ujo_free_element.
LEMMA FreeKeeps ==
    ASSUME RInv, ujo_free_element, UNCHANGED wvars
    PROVE  RInv' /\ heap'.payloads - Payloads(held') = heap.payloads - Payloads(held)
  <1> USE DEF ujo_free_element
  <1> DEFINE x == heap.elements - 1
             y == heap.payloads - Owns(held[1].type)
  <1>1. x \in Nat /\ y \in Nat
    BY HeldIs
  <1>2. heap \in [elements : Nat, payloads : Nat, buffers : Nat]
    BY DEF RInv, ReaderTypeOK
  <1>3. heap' = [heap EXCEPT !.elements = x, !.payloads = y]
    OBVIOUS
  <1>4. heap' \in [elements : Nat, payloads : Nat, buffers : Nat] /\ heap'.elements = x /\ heap'.payloads = y
    <2> HIDE DEF x, y
    <2> QED  BY <1>1, <1>2, <1>3
  <1>5. held' = <<>> /\ Payloads(held') = 0 /\ Len(held') = 0 /\ held' \in Seq(Elements)
    BY OwnsIs
  <1>6. IInv'
    BY WriterRests DEF RInv
  <1>7. ReaderTypeOK'
    BY <1>4, <1>5 DEF RInv, ReaderTypeOK, Remaining
  <1>8. (Intact => Intact) /\ (Intact' <=> Intact)
    BY DEF Intact
  <1>9. Intact => x = 0
    <2>1. (Intact => heap.elements = Len(held)) /\ held # <<>>
      BY DEF RInv
    <2>2. Len(held) = 1
      BY <2>1, HeldIs
    <2> QED  BY <2>1, <2>2
  <1>10. heap'.payloads - Payloads(held') = heap.payloads - Payloads(held)
    BY <1>4, <1>5, HeldIs
  <1> HIDE DEF x, y
  <1>11. RInv'
    BY <1>1, <1>4, <1>5, <1>6, <1>7, <1>8, <1>9 DEF RInv
  <1> QED  BY <1>10, <1>11

\* A turn of the loop of ujo_reader_parse.
LEMMA LoopKeeps ==
    ASSUME RInv, ParseLoop, UNCHANGED wvars
    PROVE  RInv'
  <1> DEFINE x == heap.elements - 1
             h == [heap EXCEPT !.elements = x]
  <1>1. phase = "parse" /\ held # <<>> /\ health \in Defined /\ ReaderTypeOK
    BY DEF ParseLoop, RInv
  <1>2. rtype \in {"FILE", "MEMORY"}
    BY <1>1 DEF RInv
  <1>3. heap \in [elements : Nat, payloads : Nat, buffers : Nat] /\ x \in Nat
    BY <1>1, HeldIs DEF ReaderTypeOK
  <1>4. h \in [elements : Nat, payloads : Nat, buffers : Nat] /\ h.elements = x /\ h.payloads = heap.payloads
    <2> HIDE DEF x
    <2> QED  BY <1>3
  <1>5. Intact => x = 0
    <2>1. Intact => heap.elements = Len(held)
      BY DEF RInv
    <2>2. Len(held) = 1
      BY <1>1, HeldIs
    <2> QED  BY <2>1, <2>2
  <1>6. IInv'
    BY WriterRests DEF RInv
  <1> HIDE DEF h
  <1>7. Turn(h)
    BY DEF ParseLoop, h
  <1>8. ASSUME NEW z \in Noises, GetNext(Scan(z), h, "parse"), orderly' = (orderly /\ pos > 1)
        PROVE  RInv'
    <2>1. Scan(z) \in Scans(HeaderNames) /\ orderly' \in BOOLEAN
      BY <1>1, <1>8, ScanIs DEF ReaderTypeOK
    <2>2. UNCHANGED <<rtype, input, handler>> /\ pressed' \in Nat
      BY <1>1, <1>7 DEF Turn, ReaderTypeOK
    <2> HIDE DEF x
    <2> QED  BY <1>1, <1>2, <1>4, <1>5, <1>8, <2>1, <2>2, CallKeeps
  <1>9. CASE /\ handler /\ rret' = UJO_ERR_CALLBACK
             /\ heap' = h /\ held' = <<>> /\ phase' = "idle"
             /\ UNCHANGED <<pos, off, rdoc, eod, health, got, orderly>>
    <2>1. UNCHANGED <<rtype, input, pressed, handler>>
      BY <1>7 DEF Turn
    <2>2. held' = <<>> /\ Payloads(held') = 0 /\ Len(held') = 0 /\ held' \in Seq(Elements)
      BY <1>9, OwnsIs
    <2>3. ReaderTypeOK'
      BY <1>1, <1>4, <1>9, <2>1, <2>2 DEF ReaderTypeOK, Remaining
    <2>4. Intact' <=> Intact
      BY <1>9, <2>1 DEF Intact
    <2>5. heap'.elements = x /\ heap'.payloads \in Nat
      BY <1>3, <1>4, <1>9
    <2> HIDE DEF x
    <2> QED  BY <1>2, <1>3, <1>5, <1>6, <1>9, <2>1, <2>2, <2>3, <2>4, <2>5 DEF RInv
  <1> QED  BY <1>7, <1>8, <1>9 DEF Turn

\* What may be left of a file is a file of chunks.
LEMMA FilesAre ==
    ASSUME wire \in Seq(Chunks)
    PROVE  Files \subseteq Seq(Chunks)
  <1>1. ASSUME NEW f \in Prefixes(wire)
        PROVE  f \in Seq(Chunks)
    <2>1. PICK l \in 0 .. Len(wire) : f = SubSeq(wire, 1, l)
      BY <1>1 DEF Prefixes
    <2> QED  BY <2>1
  <1>2. ASSUME NEW k \in 1 .. Len(wire), NEW s \in 1 .. wire[k].size - 1
        PROVE  Append(SubSeq(wire, 1, k - 1), [wire[k] EXCEPT !.size = s, !.order = "torn"])
                 \in Seq(Chunks)
    <2>0. wire[k] \in Chunks
      BY <1>2
    <2>1. wire[k] \in Chunks /\ wire[k].size \in Nat /\ s \in Nat
      BY <2>0, SizeIs
    <2>2. [wire[k] EXCEPT !.size = s, !.order = "torn"] \in Chunks
      BY <2>1 DEF Chunks
    <2>3. SubSeq(wire, 1, k - 1) \in Seq(Chunks)
      BY <1>2
    <2> QED  BY <2>2, <2>3
  <1>3. ASSUME NEW f \in UNION { { Append(SubSeq(wire, 1, k - 1), [wire[k] EXCEPT !.size = s, !.order = "torn"]) :
                             s \in 1 .. wire[k].size - 1 } : k \in 1 .. Len(wire) }
        PROVE  f \in Seq(Chunks)
    <2>1. PICK k \in 1 .. Len(wire) : \E s \in 1 .. wire[k].size - 1 :
            f = Append(SubSeq(wire, 1, k - 1), [wire[k] EXCEPT !.size = s, !.order = "torn"])
      BY <1>3
    <2> QED  BY <2>1, <1>2
  <1>4. Files \subseteq CutShort(wire) \cup {wire}
    BY DEF Files
  <1> QED  BY <1>1, <1>3, <1>4 DEF CutShort

\* The octets of a new input.
LEMMA RestNat ==
    ASSUME NEW f \in Seq(Chunks), NEW p \in 1 .. Len(f) + 1
    PROVE  Bytes(SubSeq(f, p, Len(f))) \in Nat
  <1>1. SubSeq(f, p, Len(f)) \in Seq(Chunks)
    OBVIOUS
  <1> QED  BY <1>1, SizeIs, BytesNat

\* ujo_new_memory_reader, ujo_new_file_reader, ujo_reader_set_on_element and
\* ujo_free_reader.
LEMMA ObjectKeeps ==
    ASSUME RInv, UNCHANGED wvars,
           \/ ujo_new_memory_reader \/ OpenFile \/ ujo_free_reader
           \/ \E f \in BOOLEAN : ujo_reader_set_on_element(f)
    PROVE  RInv'
  <1>1. IInv' /\ ReaderTypeOK
    BY WriterRests DEF RInv
  <1>2. CASE ujo_new_memory_reader
    BY <1>1, <1>2 DEF ujo_new_memory_reader, RInv, ReaderTypeOK, Remaining, Intact
  <1>3. CASE OpenFile
    <2>1. PICK f \in Files : ujo_new_file_reader(f)
      BY <1>3 DEF OpenFile
    <2>2. f \in Seq(Chunks)
      BY FilesAre DEF RInv, IInv, TypeOK
    <2>3. pos = 1 /\ off = 0 /\ 1 \in 1 .. Len(f) + 1
      BY <2>1, <2>2 DEF ujo_new_file_reader, RInv
    <2>5. Bytes(SubSeq(f, 1, Len(f))) \in Nat
      BY <2>2, <2>3, RestNat
    <2>4. ReaderTypeOK'
      BY <1>1, <2>1, <2>2, <2>3, <2>5 DEF ujo_new_file_reader, ReaderTypeOK, Remaining
    <2> QED  BY <1>1, <2>1, <2>4 DEF ujo_new_file_reader, RInv, Intact
  <1>4. CASE ujo_free_reader
    <2>1. /\ heap' \in [elements : Nat, payloads : Nat, buffers : Nat]
          /\ heap'.elements = heap.elements /\ heap'.payloads = heap.payloads
      <3> DEFINE n == IF heap.buffers = 0 THEN 0 ELSE heap.buffers - 1
      <3>1. n \in Nat /\ heap \in [elements : Nat, payloads : Nat, buffers : Nat]
        BY <1>1 DEF ReaderTypeOK
      <3>2. heap' = [heap EXCEPT !.buffers = n]
        BY <1>4 DEF ujo_free_reader
      <3> HIDE DEF n
      <3> QED  BY <3>1, <3>2
    <2>2. ReaderTypeOK'
      BY <1>1, <1>4, <2>1, CodesAre DEF ujo_free_reader, ReaderTypeOK, Remaining
    <2>3. Intact' => Intact
      BY <1>4 DEF ujo_free_reader, Intact
    <2> QED  BY <1>1, <1>4, <2>1, <2>2, <2>3 DEF ujo_free_reader, RInv
  <1>5. ASSUME NEW f \in BOOLEAN, ujo_reader_set_on_element(f)
        PROVE  RInv'
    BY <1>1, <1>5 DEF ujo_reader_set_on_element, RInv, ReaderTypeOK, Remaining, Intact
  <1> QED  BY <1>2, <1>3, <1>4, <1>5

\* ujo_reader_set_buffer.
LEMMA AssignKeeps ==
    ASSUME RInv, Assign, UNCHANGED wvars
    PROVE  RInv'
  <1>1. IInv' /\ ReaderTypeOK /\ wire \in Seq(Chunks)
    BY WriterRests DEF RInv, IInv, TypeOK
  <1>2. ujo_reader_set_buffer(wire)
    BY DEF Assign
  <1>3. rdoc' \in Machines
    <2> DEFINE s == [rdoc.cur EXCEPT !.state = "ROOT"]
    <2>1. rdoc \in Machines
      BY <1>1 DEF ReaderTypeOK
    <2>2. s \in ujo_state
      BY <2>1 DEF Machines, ujo_state, ujoDocState
    <2>3. rdoc' = [rdoc EXCEPT !.items = <<>>, !.cur = s, !.lost = FALSE]
      BY <1>2, <2>1 DEF ujo_reader_set_buffer, ujo_clear_stack, Machines
    <2>4. <<>> \in Seq(ujo_state)
      OBVIOUS
    <2> HIDE DEF s
    <2> QED  BY <2>1, <2>2, <2>3, <2>4 DEF Machines
  <1>4. /\ heap' \in [elements : Nat, payloads : Nat, buffers : Nat]
        /\ heap'.elements = heap.elements /\ heap'.payloads = heap.payloads
    <2> DEFINE n == heap.buffers + 1
    <2>1. n \in Nat /\ heap \in [elements : Nat, payloads : Nat, buffers : Nat]
      BY <1>1 DEF ReaderTypeOK
    <2>2. heap' = [heap EXCEPT !.buffers = n]
      BY <1>2 DEF ujo_reader_set_buffer
    <2> HIDE DEF n
    <2> QED  BY <2>1, <2>2
  <1>5. 1 \in 1 .. Len(wire) + 1 /\ <<>> \in Seq(Elements)
    BY <1>1
  <1>8. Bytes(SubSeq(wire, 1, Len(wire))) \in Nat
    BY <1>1, <1>5, RestNat
  <1>9. /\ input' = wire /\ pos' = 1 /\ off' = 0 /\ health' = "ok" /\ pressed' = 0
        /\ rret' = UJO_SUCCESS /\ eod' = FALSE /\ got' = <<>> /\ orderly' = TRUE
        /\ UNCHANGED <<rtype, handler, held, phase>> /\ rtype = "MEMORY" /\ health \in Defined
    BY <1>2 DEF ujo_reader_set_buffer
  <1>10. off' \in 0 .. Remaining(pos)' /\ pos' \in 1 .. Len(input)' + 1
    <2>1. Remaining(pos)' = Bytes(SubSeq(wire, 1, Len(wire)))
      BY <1>9 DEF Remaining
    <2> QED  BY <1>5, <1>8, <1>9, <2>1
  <1>6. ReaderTypeOK'
    <2>1. rret' \in UjoErrors
      BY <1>9, CodesAre
    <2> QED  BY <1>1, <1>3, <1>4, <1>5, <1>9, <1>10, <2>1 DEF ReaderTypeOK, Defined
  <1>7. Intact
    BY <1>9 DEF Intact
  <1>11. rtype' = "MEMORY" /\ health' \in Defined
    BY <1>9 DEF Defined
  <1> QED  BY <1>1, <1>4, <1>6, <1>7, <1>9, <1>11 DEF RInv

\* Every step keeps the invariant.
LEMMA RNextKeeps == RInv /\ [Next]_vars => RInv'
  <1> SUFFICES ASSUME RInv, [Next]_vars PROVE RInv'
    OBVIOUS
  <1>1. CASE Write
    <2>1. IInv'
      BY <1>1, NextKeeps DEF Write, RInv
    <2> QED  BY <1>1, <2>1 DEF Write, rvars, RInv, ReaderTypeOK, Remaining, Intact
  <1>2. CASE Read
    <2>1. UNCHANGED wvars
      BY <1>2 DEF Read
    <2>2. CASE ujo_reader_get_first
      <3>1. Start /\ UNCHANGED <<rtype, input, handler>>
        BY <2>2 DEF ujo_reader_get_first
      <3>2. PICK z \in HeaderNoises : GetNext(ujo_reader_parse_header(Scan(z)), heap, "idle")
        BY <2>2 DEF ujo_reader_get_first
      <3> QED  BY <2>1, <3>1, <3>2, FirstKeeps
    <2>3. CASE ujo_reader_parse
      <3>1. Start /\ UNCHANGED <<rtype, input, handler>>
        BY <2>3 DEF ujo_reader_parse
      <3>2. PICK z \in HeaderNoises : GetNext(ujo_reader_parse_header(Scan(z)), heap, "parse")
        BY <2>3 DEF ujo_reader_parse
      <3> QED  BY <2>1, <3>1, <3>2, FirstKeeps
    <2>4. CASE ujo_reader_get_next
      BY <2>1, <2>4, NextElementKeeps
    <2>5. CASE ujo_free_element
      BY <2>1, <2>5, FreeKeeps
    <2>6. CASE ParseLoop
      BY <2>1, <2>6, LoopKeeps
    <2>7. CASE Assign
      BY <2>1, <2>7, AssignKeeps
    <2>8. CASE \/ ujo_new_memory_reader \/ OpenFile \/ ujo_free_reader
               \/ \E f \in BOOLEAN : ujo_reader_set_on_element(f)
      BY <2>1, <2>8, ObjectKeeps
    <2> QED  BY <1>2, <2>2, <2>3, <2>4, <2>5, <2>6, <2>7, <2>8 DEF Read, Reading
  <1>3. CASE UNCHANGED vars
    <2>1. UNCHANGED wvars /\ UNCHANGED rvars
      BY <1>3 DEF vars
    <2>2. IInv'
      BY <2>1, WriterRests DEF RInv
    <2> QED  BY <2>1, <2>2 DEF rvars, RInv, ReaderTypeOK, Remaining, Intact
  <1> QED  BY <1>1, <1>2, <1>3 DEF Next

\* It holds before there is a reader.
LEMMA RInitKeeps == Init => RInv
  <1> SUFFICES ASSUME Init PROVE RInv
    OBVIOUS
  <1>1. IInv
    BY InitKeeps DEF Init
  <1>2. NewMachine \in Machines
    BY DEF NewMachine, NewState, Machines, ujo_state, ujoDocState
  <1>3. <<>> \in Seq(Chunks) /\ <<>> \in Seq(Elements) /\ Len(<<>>) = 0 /\ Payloads(<<>>) = 0
    BY OwnsIs
  <1>4. heap \in [elements : Nat, payloads : Nat, buffers : Nat] /\ heap.elements = 0 /\ heap.payloads = 0
    BY DEF Init, RInit
  <1>5. ReaderTypeOK
    <2>1. input = <<>> /\ pos \in 1 .. Len(input) + 1 /\ off = 0 /\ pressed = 0
      BY <1>3 DEF Init, RInit
    <2>3. Remaining(pos) \in Nat
      BY <1>3, <2>1, RemainingIs
    <2>2. held = <<>> /\ Len(held) <= 1
      BY <1>3 DEF Init, RInit
    <2>4. off \in 0 .. Remaining(pos)
      BY <2>1, <2>3
    <2>5. rret \in UjoErrors
      BY CodesAre DEF Init, RInit
    <2> QED  BY <1>2, <1>3, <1>4, <2>1, <2>2, <2>4, <2>5
             DEF Init, RInit, ReaderTypeOK, Defined
  <1> QED  BY <1>1, <1>3, <1>4, <1>5 DEF Init, RInit, RInv, Intact

\* The reader's position never leaves the input and the counts of its heap stay
\* numbers, for every input a writer leaves, cut short anywhere, every sequence of
\* calls and every failure of memory or stack (ujo_reader.c).
THEOREM ReaderTypeCorrect == Spec => []ReaderTypeOK
  <1>1. RInv => ReaderTypeOK
    BY DEF RInv
  <1> QED  BY <1>1, RInitKeeps, RNextKeeps, PTL DEF Spec

\* No element is left behind: not by a stopped loop, not by a failed read in memory
\* that a new buffer follows (ujo_reader_get_next, parse, set_buffer).
THEOREM ElementsAreOwned == Spec => []ElementsOwned
  <1>1. RInv => ElementsOwned
    BY DEF RInv, ElementsOwned, Intact
  <1> QED  BY <1>1, RInitKeeps, RNextKeeps, PTL DEF Spec


\* Outside the parse loop the octets of the application's element are in memory
\* and those of no other, also after a read that failed or went astray (get_first,
\* get_next, ujo_free_element).
THEOREM PullOwns == Spec => PullOwnsPayloads
  <1> DEFINE A == phase = "idle" /\ phase' = "idle" =>
                    heap'.payloads - Payloads(held') = heap.payloads - Payloads(held)
  <1>1. ASSUME RInv, [Next]_vars PROVE [A]_vars
    <2>1. CASE UNCHANGED vars
      BY <2>1
    <2>2. CASE Write
      BY <2>2 DEF Write, rvars
    <2>3. CASE Read
      <3>1. UNCHANGED wvars
        BY <2>3 DEF Read
      <3>2. ASSUME ujo_reader_get_first \/ ujo_reader_parse PROVE A
        <4>1. Start /\ UNCHANGED <<rtype, input, handler>>
          BY <3>2 DEF ujo_reader_get_first, ujo_reader_parse
        <4>2. PICK z \in HeaderNoises :
                \E loop \in {"idle", "parse"} : GetNext(ujo_reader_parse_header(Scan(z)), heap, loop)
          BY <3>2 DEF ujo_reader_get_first, ujo_reader_parse
        <4> QED  BY <1>1, <3>1, <4>1, <4>2, FirstKeeps
      <3>3. ASSUME ujo_reader_get_next PROVE A
        BY <1>1, <3>1, <3>3, NextElementKeeps
      <3>4. ASSUME ujo_free_element PROVE A
        BY <1>1, <3>1, <3>4, FreeKeeps
      <3>5. ASSUME ParseLoop PROVE A
        BY <3>5 DEF ParseLoop
      <3>6. ASSUME Assign PROVE A
        <4>1. heap' = [heap EXCEPT !.buffers = @ + 1] /\ held' = held
          BY <3>6 DEF Assign, ujo_reader_set_buffer
        <4>2. heap \in [elements : Nat, payloads : Nat, buffers : Nat]
          BY <1>1 DEF RInv, ReaderTypeOK
        <4>3. heap'.payloads = heap.payloads
          BY <4>1, <4>2
        <4> QED  BY <4>1, <4>3
      <3>7. ASSUME ujo_free_reader PROVE A
        <4>1. held' = held /\ heap'.payloads = heap.payloads
          <5>1. heap \in [elements : Nat, payloads : Nat, buffers : Nat]
            BY <1>1 DEF RInv, ReaderTypeOK
          <5>2. heap' = [heap EXCEPT !.buffers = IF @ = 0 THEN 0 ELSE @ - 1] /\ held' = held
            BY <3>7 DEF ujo_free_reader
          <5> QED  BY <5>1, <5>2
        <4> QED  BY <4>1
      <3>8. ASSUME \/ ujo_new_memory_reader \/ OpenFile
                   \/ \E f \in BOOLEAN : ujo_reader_set_on_element(f)
            PROVE  A
        BY <3>8 DEF ujo_new_memory_reader, OpenFile, ujo_new_file_reader, ujo_reader_set_on_element
      <3> QED  BY <2>3, <3>2, <3>3, <3>4, <3>5, <3>6, <3>7, <3>8 DEF Read, Reading
    <2> QED  BY <1>1, <2>1, <2>2, <2>3 DEF Next
  <1> HIDE DEF A
  <1>2. Spec => [][A]_vars
    BY <1>1, RInitKeeps, RNextKeeps, PTL DEF Spec
  <1> QED  BY <1>2 DEF A, PullOwnsPayloads

-----------------------------------------------------------------------------
(* The machines of writer and reader go through the same states.  Only the  *)
(* counters differ: the reader does not count columns.                      *)

Same(m, r) ==
    /\ Len(m.items) = Len(r.items) /\ m.cur.state = r.cur.state
    /\ \A i \in 1 .. Len(m.items) : m.items[i].state = r.items[i].state

\* Both enter a container.
LEMMA SameNext ==
    ASSUME NEW m \in Machines, NEW r \in Machines, NEW s \in ujoDocState,
           NEW g \in BOOLEAN, NEW k \in BOOLEAN, Same(m, r),
           ~ujo_state_next(s, m, g).lost, ~ujo_state_next(s, r, k).lost
    PROVE  Same(ujo_state_next(s, m, g), ujo_state_next(s, r, k))
  <1> DEFINE x == ujo_state_next(s, m, g)
             y == ujo_state_next(s, r, k)
  <1>1. /\ x.cur = NewState(s) /\ x.items = Append(m.items, m.cur)
        /\ y.cur = NewState(s) /\ y.items = Append(r.items, r.cur)
    BY NextIsMachine
  <1>2. /\ m.items \in Seq(ujo_state) /\ r.items \in Seq(ujo_state)
        /\ m.cur \in ujo_state /\ r.cur \in ujo_state
    BY DEF Machines
  <1> HIDE DEF x, y
  <1>3. Len(x.items) = Len(m.items) + 1 /\ Len(y.items) = Len(r.items) + 1 /\ Len(m.items) \in Nat
    BY <1>1, <1>2
  <1>4. \A i \in 1 .. Len(m.items) : x.items[i] = m.items[i]
    BY <1>1, <1>2
  <1>5. \A i \in 1 .. Len(r.items) : y.items[i] = r.items[i]
    BY <1>1, <1>2
  <1>6. x.items[Len(m.items) + 1] = m.cur /\ y.items[Len(r.items) + 1] = r.cur
    BY <1>1, <1>2
  <1>7. Same(x, y)
    BY <1>1, <1>3, <1>4, <1>5, <1>6 DEF Same
  <1> QED  BY <1>7 DEF x, y

\* A struct of a nested path has a state.
LEMMA NestedHasState ==
    ASSUME NEW m \in Machines, Nested(m)
    PROVE  m.cur.state # "NULL"
  <1>1. Path(m)[Len(m.items) + 1] = m.cur /\ Len(Path(m)) = Len(m.items) + 1 /\ Len(m.items) \in Nat
    BY PathIs, ItemsAre
  <1>2. CASE Len(m.items) = 0
    BY <1>1, <1>2 DEF Nested, Stacked
  <1>3. CASE Len(m.items) # 0
    <2>1. Len(m.items) + 1 \in 2 .. Len(Path(m))
      BY <1>1, <1>3
    <2> QED  BY <1>1, <2>1 DEF Nested, Stacked, ContainerStates
  <1> QED  BY <1>2, <1>3

\* Both leave a container.
LEMMA SamePrev ==
    ASSUME NEW m \in Machines, NEW r \in Machines, Same(m, r), Nested(m), m.items # <<>>
    PROVE  /\ Same(ujo_state_prev(m), ujo_state_prev(r))
           /\ ujo_state_prev(m).cur.state # "NULL"
           /\ r.items # <<>>
  <1> DEFINE x == ujo_state_prev(m)
             y == ujo_state_prev(r)
             n == Len(m.items)
  <1>1. /\ m.items \in Seq(ujo_state) /\ r.items \in Seq(ujo_state)
    BY DEF Machines
  <1>2. n \in Nat \ {0} /\ Len(r.items) = n /\ r.items # <<>>
    BY <1>1 DEF Same
  <1>3. /\ x.items = SubSeq(m.items, 1, n - 1) /\ y.items = SubSeq(r.items, 1, n - 1)
        /\ x.cur = IF m.items[n].state = "ROOT" THEN [m.items[n] EXCEPT !.state = "CLOSED"]
                   ELSE m.items[n]
        /\ y.cur = IF r.items[n].state = "ROOT" THEN [r.items[n] EXCEPT !.state = "CLOSED"]
                   ELSE r.items[n]
    BY <1>2, PrevIsMachine
  <1>4. m.items[n].state = r.items[n].state /\ m.items[n] \in ujo_state /\ r.items[n] \in ujo_state
    BY <1>1, <1>2 DEF Same
  <1>5. Nested(x) /\ x \in Machines
    BY PrevNests, PrevIsMachine
  <1> HIDE DEF x, y
  <1>6. x.cur.state = y.cur.state
    BY <1>3, <1>4 DEF ujo_state
  <1>7. Len(x.items) = n - 1 /\ Len(y.items) = n - 1
    BY <1>1, <1>2, <1>3
  <1>8. \A i \in 1 .. n - 1 : x.items[i] = m.items[i] /\ y.items[i] = r.items[i]
    BY <1>1, <1>2, <1>3
  <1>9. \A i \in 1 .. n - 1 : i \in 1 .. n
    BY <1>2
  <1> HIDE DEF n
  <1>10. Same(x, y)
    BY <1>6, <1>7, <1>8, <1>9 DEF Same, n
  <1>11. x.cur.state # "NULL"
    BY <1>5, NestedHasState
  <1> QED  BY <1>2, <1>10, <1>11 DEF x, y

\* Both learn of a value, or of a closed container; the writer may have found a
\* string where the reader finds any atomic.
LEMMA SameSwitch ==
    ASSUME NEW m \in Machines, NEW r \in Machines, Same(m, r), Nested(m),
           NEW e, NEW f, e = "CONTAINER_CLOSED" <=> f = "CONTAINER_CLOSED",
           f # "STRING_FOUND", NEW g \in BOOLEAN, NEW k \in BOOLEAN,
           ~ujo_state_switch(e, m, g).lost, ~ujo_state_switch(f, r, k).lost
    PROVE  Same(ujo_state_switch(e, m, g), ujo_state_switch(f, r, k))
  <1>0. m.cur \in ujo_state /\ r.cur \in ujo_state /\ m.cur.state = r.cur.state
    BY DEF Machines, Same
  <1>1. CASE m.cur.state = "DICT_VALUE"
    <2>1. m.items # <<>>
      BY <1>1, NestedHasParent
    <2>2. ujo_state_switch(e, m, g) = ujo_state_prev(m) /\ ujo_state_switch(f, r, k) = ujo_state_prev(r)
      BY <1>0, <1>1 DEF ujo_state_switch
    <2> QED  BY <2>1, <2>2, SamePrev
  <1>2. CASE m.cur.state = "DICT_KEY" /\ e # "CONTAINER_CLOSED"
    <2>1. /\ ujo_state_switch(e, m, g) = ujo_state_next("DICT_VALUE", m, g)
          /\ ujo_state_switch(f, r, k) = ujo_state_next("DICT_VALUE", r, k)
      BY <1>0, <1>2 DEF ujo_state_switch
    <2>2. "DICT_VALUE" \in ujoDocState
      BY DEF ujoDocState
    <2> QED  BY <2>1, <2>2, SameNext
  <1>3. CASE m.cur.state = "TABLE_VALUES"
    <2>1. /\ ujo_state_switch(e, m, g) = [m EXCEPT !.cur = NextCell(@)]
          /\ ujo_state_switch(f, r, k) = [r EXCEPT !.cur = NextCell(@)]
      BY <1>0, <1>3 DEF ujo_state_switch
    <2>2. NextCell(m.cur).state = m.cur.state /\ NextCell(r.cur).state = r.cur.state
      BY <1>0, NextCellIs
    <2> QED  BY <2>1, <2>2 DEF Same, Machines
  <1>4. CASE m.cur.state = "TABLE_COLUMNS" /\ e = "STRING_FOUND"
    <2>1. /\ ujo_state_switch(e, m, g) = [m EXCEPT !.cur.columns = @ + 1]
          /\ ujo_state_switch(f, r, k) = r
      BY <1>0, <1>4 DEF ujo_state_switch
    <2>2. [m EXCEPT !.cur.columns = @ + 1].cur.state = m.cur.state
          /\ [m EXCEPT !.cur.columns = @ + 1].items = m.items
      BY <1>0 DEF Machines, ujo_state
    <2> QED  BY <2>1, <2>2 DEF Same
  <1>5. CASE /\ m.cur.state \notin {"DICT_VALUE", "TABLE_VALUES"}
             /\ ~(m.cur.state = "DICT_KEY" /\ e # "CONTAINER_CLOSED")
             /\ ~(m.cur.state = "TABLE_COLUMNS" /\ e = "STRING_FOUND")
    <2>1. ujo_state_switch(e, m, g) = m /\ ujo_state_switch(f, r, k) = r
      BY <1>0, <1>5 DEF ujo_state_switch
    <2> QED  BY <2>1
  <1> QED  BY <1>1, <1>2, <1>3, <1>4, <1>5

\* A dropped push is never made up for.
LEMMA LostStays ==
    ASSUME NEW m \in Machines, NEW g \in BOOLEAN, m.lost
    PROVE  /\ \A s \in ujoDocState : ujo_state_next(s, m, g).lost
           /\ ujo_state_prev(m).lost
           /\ \A e : ujo_state_switch(e, m, g).lost
  <1>1. \A s \in ujoDocState : ujo_state_next(s, m, g).lost
    BY NextIsMachine
  <1>2. ujo_state_prev(m).lost
    BY PrevIsMachine
  <1>3. "DICT_VALUE" \in ujoDocState
    BY DEF ujoDocState
  <1>4. [m EXCEPT !.cur.columns = @ + 1].lost /\ [m EXCEPT !.cur = NextCell(@)].lost
    BY DEF Machines
  <1>5. \A e : ujo_state_switch(e, m, g).lost
    BY <1>1, <1>2, <1>3, <1>4 DEF ujo_state_switch
  <1> QED  BY <1>1, <1>2, <1>5

\* The machine of the reader after an element of type t.
Follow(t, r, k) ==
    IF t \in AtomicTypes THEN ujo_state_switch("ATOMIC_FOUND", r, k)
    ELSE IF t = UJO_TYPE_LIST THEN ujo_state_next("LIST", r, k)
    ELSE IF t = UJO_TYPE_MAP THEN ujo_state_next("DICT_KEY", r, k)
    ELSE IF t = UJO_TYPE_TABLE THEN ujo_state_next("TABLE_COLUMNS", r, k)
    ELSE IF r.cur.state = "TABLE_COLUMNS" THEN [r EXCEPT !.cur.state = "TABLE_VALUES"]
    ELSE ujo_state_switch("CONTAINER_CLOSED", ujo_state_prev(r), k)

\* The types of the format, and the numbers they are.
LEMMA TypeNumbers ==
    /\ UJO_TERMINATOR \notin AtomicTypes /\ UJO_TYPE_LIST \notin AtomicTypes
    /\ UJO_TYPE_MAP \notin AtomicTypes /\ UJO_TYPE_TABLE \notin AtomicTypes
    /\ UJO_TYPE_NONE \in AtomicTypes /\ UJO_TYPE_DATE \in AtomicTypes
    /\ UJO_TYPE_TIME \in AtomicTypes /\ UJO_TYPE_TIMESTAMP \in AtomicTypes
    /\ SizedTypes \subseteq AtomicTypes /\ ScalarTypes \subseteq AtomicTypes
    /\ UJO_TERMINATOR \notin ContainerTypes
    /\ UJO_TYPE_LIST # UJO_TYPE_MAP /\ UJO_TYPE_LIST # UJO_TYPE_TABLE
    /\ UJO_TYPE_MAP # UJO_TYPE_TABLE
    /\ UJO_MAGIC \notin AtomicTypes \cup ContainerTypes \cup {UJO_TERMINATOR}
    /\ AtomicTypes \cup ContainerTypes \cup {UJO_TERMINATOR} \subseteq Tags
    /\ UJO_MAGIC = 95
  BY DEF AtomicTypes, ContainerTypes, SizedTypes, ScalarTypes, UJO_TERMINATOR, UJO_MAGIC,
         UJO_TYPE_FLOAT64, UJO_TYPE_TIMESTAMP, UJO_TYPE_LIST, UJO_TYPE_MAP, UJO_TYPE_TABLE,
         UJO_TYPE_NONE, UJO_TYPE_DATE, UJO_TYPE_TIME, UJO_TYPE_STRING, UJO_TYPE_BIN, Tags

\* The type of an element that is not a null: of a value, or without one.
LEMMA CodedType ==
    ASSUME Nulls = {}, NEW e, NEW ws, Coded(e, ws)
    PROVE  /\ e.type \in AtomicTypes \cup ContainerTypes \cup {UJO_TERMINATOR}
           /\ Valued(e) => e.type \in AtomicTypes
           /\ e.type \notin AtomicTypes => CodedTag(e, ws)
  <1>1. \A t, d : Element(t, d).type = t /\ Element(t, d).data = d
    BY DEF Element
  <1>2. CASE CodedTag(e, ws)
    <2>1. PICK t \in TagTypes : e = Element(t, {})
      BY <1>2 DEF CodedTag
    <2>2. e.type = t /\ e.data = {}
      BY <1>1, <2>1
    <2> QED  BY <1>2, <2>2, TypeNumbers DEF TagTypes, Valued
  <1>3. CASE CodedScalar(e, ws)
    BY <1>1, <1>3, TypeNumbers DEF CodedScalar
  <1>4. CASE CodedDate(e, ws)
    BY <1>1, <1>4, TypeNumbers DEF CodedDate
  <1>5. CASE CodedTime(e, ws)
    BY <1>1, <1>5, TypeNumbers DEF CodedTime
  <1>6. CASE CodedTimestamp(e, ws)
    BY <1>1, <1>6, TypeNumbers DEF CodedTimestamp
  <1>7. CASE CodedSized(e, ws)
    BY <1>1, <1>7, TypeNumbers DEF CodedSized
  <1>8. ~CodedNull(e, ws)
    BY DEF CodedNull
  <1> QED  BY <1>2, <1>3, <1>4, <1>5, <1>6, <1>7, <1>8 DEF Coded

\* An element that takes the writer from m to x takes the reader along.
LEMMA MovesSame ==
    ASSUME Nulls = {}, NEW e, NEW ws, Coded(e, ws),
           NEW m \in Machines, NEW x \in Machines, NEW r \in Machines, NEW k \in BOOLEAN,
           Moves(e, m, x), Same(m, r), Nested(m), ~x.lost, ~Follow(e.type, r, k).lost
    PROVE  Same(x, Follow(e.type, r, k))
  <1>0. m.cur.state = r.cur.state
    BY DEF Same
  <1>1. CASE MovesValue(e, m, x)
    <2>1. e.type \in AtomicTypes
      BY <1>1, CodedType DEF MovesValue
    <2>2. Follow(e.type, r, k) = ujo_state_switch("ATOMIC_FOUND", r, k)
      BY <2>1 DEF Follow
    <2>3. PICK g \in BOOLEAN : x = ujo_state_switch(Event(e), m, g)
      BY <1>1 DEF MovesValue
    <2>4. Event(e) # "CONTAINER_CLOSED"
      BY DEF Event
    <2> QED  BY <2>1, <2>2, <2>3, <2>4, SameSwitch, TypeNumbers
  <1>2. CASE MovesIn(e, m, x)
    <2>1. PICK p \in Enters, g \in BOOLEAN : e = Element(p[1], {}) /\ x = ujo_state_next(p[2], m, g)
      BY <1>2 DEF MovesIn
    <2>2. e.type = p[1]
      BY <2>1 DEF Element
    <2>3. p[2] \in ujoDocState /\ Follow(e.type, r, k) = ujo_state_next(p[2], r, k)
      BY <2>2, TypeNumbers DEF Enters, Follow, ujoDocState
    <2> QED  BY <2>1, <2>3, SameNext
  <1>3. CASE MovesOut(e, m, x)
    <2>1. PICK g \in BOOLEAN : x = ujo_state_switch("CONTAINER_CLOSED", ujo_state_prev(m), g)
      BY <1>3 DEF MovesOut
    <2>2. e.type = UJO_TERMINATOR /\ m.items # <<>> /\ r.cur.state # "TABLE_COLUMNS"
      BY <1>0, <1>3 DEF MovesOut, Terminator, Element
    <2>3. Follow(e.type, r, k) = ujo_state_switch("CONTAINER_CLOSED", ujo_state_prev(r), k)
      BY <2>2, TypeNumbers DEF Follow, ContainerTypes
    <2>4. /\ Same(ujo_state_prev(m), ujo_state_prev(r))
          /\ ujo_state_prev(m).cur.state # "NULL"
      BY <2>2, SamePrev
    <2>5. /\ ujo_state_prev(m) \in Machines /\ ujo_state_prev(r) \in Machines
          /\ Nested(ujo_state_prev(m))
      BY <2>2, PrevIsMachine, PrevNests
    <2> QED  BY <2>1, <2>3, <2>4, <2>5, SameSwitch
  <1>4. CASE MovesToRows(e, m, x)
    <2>1. e.type = UJO_TERMINATOR /\ r.cur.state = "TABLE_COLUMNS"
      BY <1>0, <1>4 DEF MovesToRows, Terminator, Element
    <2>2. Follow(e.type, r, k) = [r EXCEPT !.cur.state = "TABLE_VALUES"]
      BY <2>1, TypeNumbers DEF Follow, ContainerTypes
    <2>3. x = [m EXCEPT !.cur.state = "TABLE_VALUES"]
      BY <1>4 DEF MovesToRows
    <2>4. /\ x.cur.state = "TABLE_VALUES" /\ x.items = m.items
          /\ [r EXCEPT !.cur.state = "TABLE_VALUES"].cur.state = "TABLE_VALUES"
          /\ [r EXCEPT !.cur.state = "TABLE_VALUES"].items = r.items
      BY <2>3 DEF Machines, ujo_state
    <2> QED  BY <2>1, <2>2, <2>4 DEF Same
  <1> QED  BY <1>1, <1>2, <1>3, <1>4 DEF Moves

\* A terminator that the writer wrote to leave a container takes the reader out
\* of one.
LEMMA MovesOutOf ==
    ASSUME Nulls = {}, NEW e, NEW ws, Coded(e, ws), e.type = UJO_TERMINATOR,
           NEW m \in Machines, NEW x, NEW r \in Machines, Moves(e, m, x),
           Same(m, r), Nested(m), r.cur.state # "TABLE_COLUMNS"
    PROVE  ujo_state_prev(r).cur.state # "NULL"
  <1>0. m.cur.state = r.cur.state
    BY DEF Same
  <1>1. ~MovesValue(e, m, x)
    BY CodedType, TypeNumbers DEF MovesValue
  <1>2. ~MovesIn(e, m, x)
    BY TypeNumbers DEF MovesIn, Enters, Element, ContainerTypes
  <1>3. ~MovesToRows(e, m, x)
    BY <1>0 DEF MovesToRows
  <1>4. m.items # <<>>
    BY <1>1, <1>2, <1>3 DEF Moves, MovesOut
  <1> QED  BY <1>4, SamePrev DEF Same

\* Nothing is added to a closed document.
LEMMA ClosedTakesNothing ==
    ASSUME NEW e, NEW m, NEW x, Moves(e, m, x)
    PROVE  m.cur.state # "CLOSED"
  BY DEF Moves, MovesValue, MovesIn, MovesOut, MovesToRows, ujo_state_allow_string,
         ujo_state_allow_atomic, ujo_state_allow_container

\* A push that the writer dropped shows in every later state of its machine.
LEMMA MovesLost ==
    ASSUME NEW e, NEW m \in Machines, NEW x, Moves(e, m, x), m.lost
    PROVE  x.lost
  <1>1. CASE MovesValue(e, m, x)
    BY <1>1, LostStays DEF MovesValue
  <1>2. CASE MovesIn(e, m, x)
    <2>1. PICK p \in Enters, g \in BOOLEAN : x = ujo_state_next(p[2], m, g)
      BY <1>2 DEF MovesIn
    <2>2. p[2] \in ujoDocState
      BY DEF Enters, ujoDocState
    <2> QED  BY <2>1, <2>2, LostStays
  <1>3. CASE MovesOut(e, m, x)
    <2>1. PICK g \in BOOLEAN : x = ujo_state_switch("CONTAINER_CLOSED", ujo_state_prev(m), g)
      BY <1>3 DEF MovesOut
    <2>2. ujo_state_prev(m) \in Machines /\ ujo_state_prev(m).lost
      BY PrevIsMachine
    <2> QED  BY <2>1, <2>2, LostStays
  <1>4. CASE MovesToRows(e, m, x)
    BY <1>4 DEF MovesToRows, Machines
  <1> QED  BY <1>1, <1>2, <1>3, <1>4 DEF Moves

-----------------------------------------------------------------------------
(* What the writer has written: where each element begins, and the machine  *)
(* before it.                                                               *)

\* The encoding of e is on w from after position p up to q.
Spans(w, e, p, q) ==
    \E ws \in Seq(Chunks) :
        /\ Coded(e, ws) /\ q = p + Len(ws)
        /\ \A j \in 1 .. Len(ws) : w[p + j] = ws[j]

\* The elements es are on w after the header, up to the borders b, and have led
\* the machine through ms to d.
Script(b, ms, w, es, d) ==
    /\ b \in [0 .. Len(es) -> Nat] /\ ms \in [0 .. Len(es) -> Machines]
    /\ b[0] = 3 /\ b[Len(es)] = Len(w)
    /\ ms[0] = NewMachine /\ ms[Len(es)] = d
    /\ \A i \in 0 .. Len(es) : 3 <= b[i] /\ b[i] <= Len(w) /\ Nested(ms[i]) /\ ~ms[i].lost
    /\ \A i \in 1 .. Len(es) : Spans(w, es[i], b[i - 1], b[i]) /\ Moves(es[i], ms[i - 1], ms[i])
    /\ \A j \in 1 .. 3 : w[j] = Header[j]

\* One element more.
LEMMA ScriptExtends ==
    ASSUME NEW b, NEW ms, NEW w \in Seq(Chunks), NEW es \in Seq(Elements), NEW d \in Machines,
           Script(b, ms, w, es, d),
           NEW e, NEW ws, Coded(e, ws), NEW x \in Machines, Moves(e, d, x), ~x.lost, Nested(x)
    PROVE  \E c, ns : Script(c, ns, w \o ws, Append(es, e), x)
  <1> DEFINE n == Len(es)
             v == w \o ws
             fs == Append(es, e)
             c == [i \in 0 .. n + 1 |-> IF i <= n THEN b[i] ELSE Len(w) + Len(ws)]
             ns == [i \in 0 .. n + 1 |-> IF i <= n THEN ms[i] ELSE x]
  <1>1. ws \in Seq(Chunks) /\ e \in Elements
    BY CodedFits DEF Fits
  <1>2. /\ n \in Nat /\ Len(fs) = n + 1 /\ fs[n + 1] = e
        /\ \A i \in 1 .. n : fs[i] = es[i]
    BY <1>1
  <1>3. /\ Len(v) = Len(w) + Len(ws) /\ Len(w) \in Nat /\ Len(ws) \in Nat
        /\ \A j \in 1 .. Len(w) : v[j] = w[j]
        /\ \A j \in 1 .. Len(ws) : v[Len(w) + j] = ws[j]
    BY <1>1
  <1>4. /\ b \in [0 .. n -> Nat] /\ ms \in [0 .. n -> Machines]
        /\ b[0] = 3 /\ b[n] = Len(w) /\ ms[0] = NewMachine /\ ms[n] = d
        /\ \A i \in 0 .. n : 3 <= b[i] /\ b[i] <= Len(w) /\ Nested(ms[i]) /\ ~ms[i].lost
        /\ \A i \in 1 .. n : Spans(w, es[i], b[i - 1], b[i]) /\ Moves(es[i], ms[i - 1], ms[i])
        /\ \A j \in 1 .. 3 : w[j] = Header[j]
    BY DEF Script
  <1> HIDE DEF v, fs
  <1>5. /\ \A i \in 0 .. n : c[i] = b[i] /\ ns[i] = ms[i] /\ b[i] \in Nat
        /\ c[n + 1] = Len(w) + Len(ws) /\ ns[n + 1] = x
    <2> HIDE DEF n
    <2>1. n + 1 \in 0 .. n + 1 /\ ~(n + 1 <= n)
      BY <1>2
    <2>2. \A i \in 0 .. n : i \in 0 .. n + 1 /\ i <= n
      BY <1>2
    <2>3. \A i \in 0 .. n : b[i] \in Nat
      BY <1>4
    <2>4. \A i \in 0 .. n : c[i] = b[i]
      BY <2>2
    <2>5. \A i \in 0 .. n : ns[i] = ms[i]
      BY <2>2
    <2>6. c[n + 1] = Len(w) + Len(ws) /\ ns[n + 1] = x
      BY <2>1
    <2> QED  BY <2>3, <2>4, <2>5, <2>6
  <1>6. c \in [0 .. n + 1 -> Nat] /\ ns \in [0 .. n + 1 -> Machines]
    BY <1>2, <1>3, <1>4
  <1> HIDE DEF c, ns
  <1>7. ASSUME NEW i \in 0 .. n + 1
        PROVE  3 <= c[i] /\ c[i] <= Len(v) /\ Nested(ns[i]) /\ ~ns[i].lost
    <2>1. CASE i = n + 1
      <3>1. n \in 0 .. n
        BY <1>2
      <3>2. 3 <= Len(w)
        BY <1>4, <3>1
      <3> QED  BY <1>3, <1>5, <2>1, <3>2
    <2>2. CASE i # n + 1
      <3>1. i \in 0 .. n
        BY <1>2, <2>2
      <3>2. 3 <= b[i] /\ b[i] <= Len(w) /\ b[i] \in Nat
        BY <1>4, <3>1, <1>5
      <3>3. 3 <= c[i] /\ c[i] <= Len(v)
        BY <1>3, <1>5, <3>1, <3>2
      <3> QED  BY <1>4, <1>5, <3>1, <3>3
    <2> QED  BY <2>1, <2>2
  <1>8. ASSUME NEW i \in 1 .. n
        PROVE  Spans(v, es[i], b[i - 1], b[i])
    <2>1. PICK us \in Seq(Chunks) : /\ Coded(es[i], us) /\ b[i] = b[i - 1] + Len(us)
                                    /\ \A j \in 1 .. Len(us) : w[b[i - 1] + j] = us[j]
      BY <1>4 DEF Spans
    <2>2. i \in 0 .. n /\ i - 1 \in 0 .. n
      BY <1>2
    <2>3. b[i] \in Nat /\ b[i - 1] \in Nat /\ b[i] <= Len(w) /\ Len(us) \in Nat
      BY <1>4, <1>5, <2>2
    <2>4. \A j \in 1 .. Len(us) : b[i - 1] + j \in 1 .. Len(w)
      BY <1>3, <2>1, <2>3, SMTT(60)
    <2>5. \A j \in 1 .. Len(us) : v[b[i - 1] + j] = us[j]
      BY <1>3, <2>1, <2>4
    <2> QED  BY <2>1, <2>5 DEF Spans
  <1>9. Spans(v, e, Len(w), Len(w) + Len(ws))
    BY <1>1, <1>3 DEF Spans
  <1>10. ASSUME NEW i \in 1 .. n + 1
         PROVE  Spans(v, fs[i], c[i - 1], c[i]) /\ Moves(fs[i], ns[i - 1], ns[i])
    <2>1. CASE i = n + 1
      <3>1. i - 1 = n /\ n \in 0 .. n
        BY <1>2, <2>1
      <3>2. c[i - 1] = Len(w) /\ c[i] = Len(w) + Len(ws) /\ ns[i - 1] = d /\ ns[i] = x /\ fs[i] = e
        BY <1>2, <1>4, <1>5, <2>1, <3>1
      <3> QED  BY <1>9, <3>2
    <2>2. CASE i # n + 1
      <3>1. i \in 1 .. n /\ i \in 0 .. n /\ i - 1 \in 0 .. n
        BY <1>2, <2>2
      <3> QED  BY <1>2, <1>4, <1>5, <1>8, <3>1
    <2> QED  BY <2>1, <2>2
  <1>11. \A j \in 1 .. 3 : v[j] = Header[j]
    <2>1. 3 <= Len(w)
      <3>1. 0 \in 0 .. n
        BY <1>2
      <3> QED  BY <1>4, <3>1
    <2> QED  BY <1>3, <1>4, <2>1, SMTT(60)
  <1>12. 0 \in 0 .. n
    BY <1>2
  <1>13. c[0] = 3 /\ c[n + 1] = Len(v) /\ ns[0] = NewMachine /\ ns[n + 1] = x
    BY <1>3, <1>4, <1>5, <1>12
  <1> HIDE DEF n
  <1>14. Script(c, ns, v, fs, x)
    BY <1>2, <1>6, <1>7, <1>10, <1>11, <1>13 DEF Script
  <1> QED  BY <1>14 DEF v, fs

\* The writer has a script as long as it has dropped no push.
Scripted == ~reported /\ ~doc.lost => \E b, ms : Script(b, ms, wire, acked, doc)

\* Every call follows it, where puts do not fail.
LEMMA CalledScripted ==
    ASSUME IInv, IInv', Scripted, Called, "put" \notin Faults
    PROVE  Scripted'
  <1> SUFFICES ASSUME ~reported', ~doc'.lost
               PROVE  \E b, ms : Script(b, ms, wire', acked', doc')
    BY DEF Scripted
  <1>1. /\ wire \in Seq(Chunks) /\ acked \in Seq(Elements) /\ doc \in Machines /\ Kept(doc)
        /\ doc' \in Machines /\ Kept(doc')
    BY DEF IInv, TypeOK
  <1>2. Nested(doc')
    BY <1>1 DEF Kept
  <1>3. ASSUME NEW e, NEW ws, Accepts(e, ws)
        PROVE  \E b, ms : Script(b, ms, wire', acked', doc')
    <2>1. /\ Coded(e, ws) /\ Moves(e, doc, doc')
          /\ wire' = wire \o ws /\ acked' = Append(acked, e) /\ reported' = reported
      BY <1>3 DEF Accepts
    <2>2. ~doc.lost /\ ~reported
      BY <1>1, <2>1, MovesLost
    <2>3. PICK b, ms : Script(b, ms, wire, acked, doc)
      BY <2>2 DEF Scripted
    <2>4. \E c, ns : Script(c, ns, wire \o ws, Append(acked, e), doc')
      BY <1>1, <1>2, <2>1, <2>3, ScriptExtends
    <2> QED  BY <2>1, <2>4
  <1>4. CASE Rests
    <2>1. UNCHANGED <<wire, acked, reported>>
      BY <1>4 DEF Rests
    <2>2. CASE doc' = doc
      BY <2>1, <2>2 DEF Scripted
    <2>3. CASE /\ doc.items = <<>> /\ doc.cur.state \in ContainerStates
               /\ doc' = ujo_state_prev(doc)
      <3>1. ~doc.lost
        BY <1>1, <2>3, PrevIsMachine
      <3>2. Nested(doc) /\ doc.cur.state \notin {"ROOT", "CLOSED"}
        BY <1>1, <2>3, <3>1 DEF Kept, ContainerStates
      <3> QED  BY <1>1, <2>3, <3>2, NestedHasParent
    <2> QED  BY <1>4, <2>2, <2>3 DEF Rests
  <1> QED  BY <1>3, <1>4 DEF Called, Reports, Overlooks

\* An empty document.
LEMMA InitScripted ==
    ASSUME WInit
    PROVE  Scripted
  <1> DEFINE b == [i \in 0 .. 0 |-> 3]
             ms == [i \in 0 .. 0 |-> NewMachine]
  <1>1. IInv
    BY InitKeeps
  <1>2. NewMachine \in Machines /\ Nested(NewMachine) /\ ~NewMachine.lost
    <2>1. doc = NewMachine /\ Kept(doc) /\ doc \in Machines
      BY <1>1 DEF WInit, IInv, TypeOK
    <2>2. ~NewMachine.lost
      BY DEF NewMachine
    <2> QED  BY <2>1, <2>2 DEF Kept
  <1>3. Len(Header) = 3 /\ wire = Header /\ acked = <<>> /\ doc = NewMachine
    BY DEF WInit, Header
  <1>4. /\ b \in [0 .. 0 -> Nat] /\ ms \in [0 .. 0 -> Machines]
        /\ b[0] = 3 /\ ms[0] = NewMachine
    BY <1>2
  <1> HIDE DEF b, ms
  <1>5. Len(acked) = 0
    BY <1>3
  <1>6. /\ \A i \in 0 .. 0 : i = 0
        /\ \A i \in 1 .. 0 : FALSE
    OBVIOUS
  <1>7. Len(wire) = 3 /\ \A j \in 1 .. 3 : wire[j] = Header[j]
    BY <1>3
  <1>8. b[0] <= Len(wire) /\ b[0] = Len(wire)
    BY <1>4, <1>7
  <1>9. Script(b, ms, wire, acked, doc)
    <2>1. \A i \in 0 .. Len(acked) : 3 <= b[i] /\ b[i] <= Len(wire) /\ Nested(ms[i]) /\ ~ms[i].lost
      BY <1>2, <1>4, <1>5, <1>6, <1>8
    <2>2. \A i \in 1 .. Len(acked) :
            Spans(wire, acked[i], b[i - 1], b[i]) /\ Moves(acked[i], ms[i - 1], ms[i])
      BY <1>5, <1>6
    <2>3. /\ b \in [0 .. Len(acked) -> Nat] /\ ms \in [0 .. Len(acked) -> Machines]
          /\ b[0] = 3 /\ b[Len(acked)] = Len(wire)
          /\ ms[0] = NewMachine /\ ms[Len(acked)] = doc
      BY <1>3, <1>4, <1>5, <1>8
    <2> QED  BY <1>7, <2>1, <2>2, <2>3 DEF Script
  <1> QED  BY <1>9 DEF Scripted

-----------------------------------------------------------------------------
(* What the reader is given of it, and what its reads find there.           *)

\* A reader of a file has what is left of the document: all of its last chunk,
\* or a part.
Left(in) ==
    /\ Len(in) <= Len(wire)
    /\ \A i \in 1 .. Len(in) :
         \/ in[i] = wire[i]
         \/ /\ i = Len(in) /\ in[i].val = wire[i].val
            /\ 1 <= in[i].size /\ in[i].size < wire[i].size

Given == Left(input) /\ (rtype = "FILE" \/ input = wire)

\* A file that lost a part of a chunk, as the chunks before it and that part.
LEMMA TornForms ==
    ASSUME NEW w, NEW f \in UNION { { Append(SubSeq(w, 1, k - 1), [w[k] EXCEPT !.size = s, !.order = "torn"]) :
                             s \in 1 .. w[k].size - 1 } : k \in 1 .. Len(w) }
    PROVE  \E k \in 1 .. Len(w) : \E s \in 1 .. w[k].size - 1 :
            f = Append(SubSeq(w, 1, k - 1), [w[k] EXCEPT !.size = s, !.order = "torn"])
  BY ZenonT(60)

\* Whatever a crash leaves of the file (CutShort).
LEMMA FilesLeft ==
    ASSUME wire \in Seq(Chunks), NEW f \in Files
    PROVE  Left(f)
  <1>1. CASE f = wire
    BY <1>1 DEF Left
  <1>2. CASE f \in Prefixes(wire)
    <2>1. PICK l \in 0 .. Len(wire) : f = SubSeq(wire, 1, l)
      BY <1>2 DEF Prefixes
    <2>2. Len(f) = l /\ \A i \in 1 .. l : f[i] = wire[i]
      BY <2>1
    <2> QED  BY <2>2 DEF Left
  <1>3. ASSUME NEW g, NEW k \in 1 .. Len(wire), NEW s \in 1 .. wire[k].size - 1,
               g = Append(SubSeq(wire, 1, k - 1), [wire[k] EXCEPT !.size = s, !.order = "torn"])
        PROVE  Left(g)
    <2> DEFINE t == [wire[k] EXCEPT !.size = s, !.order = "torn"]
               us == SubSeq(wire, 1, k - 1)
    <2>1. wire[k] \in Chunks
      BY <1>3
    <2>2. wire[k].size \in Nat
      BY <2>1, SizeIs
    <2>3. t.val = wire[k].val /\ t.size = s /\ 1 <= s /\ s < wire[k].size
      BY <1>3, <2>1, <2>2 DEF Chunks
    <2>4. us \in Seq(Chunks) /\ Len(us) = k - 1 /\ \A i \in 1 .. k - 1 : us[i] = wire[i]
      BY <1>3
    <2>5. g = Append(us, t)
      BY <1>3
    <2> HIDE DEF t, us
    <2>6. Len(g) = k /\ g[k] = t /\ \A i \in 1 .. k - 1 : g[i] = wire[i]
      BY <1>3, <2>4, <2>5
    <2>7. ASSUME NEW i \in 1 .. k
          PROVE  \/ g[i] = wire[i]
                 \/ /\ i = k /\ g[i].val = wire[i].val
                    /\ 1 <= g[i].size /\ g[i].size < wire[i].size
      <3>1. i \in 1 .. k - 1 \/ i = k
        BY <1>3
      <3> QED  BY <2>3, <2>6, <3>1
    <2> QED  BY <1>3, <2>6, <2>7 DEF Left
  <1>4. ASSUME NEW g \in UNION { { Append(SubSeq(wire, 1, k - 1), [wire[k] EXCEPT !.size = s, !.order = "torn"]) :
                             s \in 1 .. wire[k].size - 1 } : k \in 1 .. Len(wire) }
        PROVE  Left(g)
    <2>1. PICK k \in 1 .. Len(wire) : \E s \in 1 .. wire[k].size - 1 :
            g = Append(SubSeq(wire, 1, k - 1), [wire[k] EXCEPT !.size = s, !.order = "torn"])
      BY <1>4, TornForms, ZenonT(60)
    <2>2. PICK s \in 1 .. wire[k].size - 1 :
            g = Append(SubSeq(wire, 1, k - 1), [wire[k] EXCEPT !.size = s, !.order = "torn"])
      BY <2>1
    <2> QED  BY <2>2, <1>3, ZenonT(60)
  <1>5. f \in CutShort(wire) \cup {wire}
    BY DEF Files
  <1> QED  BY <1>1, <1>2, <1>4, <1>5 DEF CutShort

\* The last chunk is what remains at its place.
LEMMA RemainingLast ==
    ASSUME input \in Seq(Chunks), Len(input) > 0
    PROVE  Remaining(Len(input)) = input[Len(input)].size
  <1> DEFINE n == Len(input)
             s == SubSeq(input, n, n)
  <1>1. n \in 1 .. Len(input) /\ n \in Nat
    OBVIOUS
  <1>2. input[n] \in Chunks
    BY <1>1
  <1>3. s \in Seq(Chunks) /\ Len(s) = 1 /\ s[1] = input[n]
    BY <1>1
  <1>4. s = <<input[n]>>
    <2> HIDE DEF s, n
    <2> QED  BY <1>2, <1>3
  <1> QED  BY <1>2, <1>4, SizeIs, BytesOne DEF Remaining

\* A call that stops: with an error of its own, or at the end of a file.
Broken(d) ==
    /\ d.health = "ok" /\ d.code # UJO_SUCCESS
    /\ d.code = UJO_ERR_FILE => rtype = "FILE" /\ d.pos = Len(input) + 1 /\ d.off = 0

LEMMA BrokenStops == \A d : Broken(d) => ~Going(d) /\ ~Steady(d)
  BY DEF Broken, Going, Steady

\* Fields that are on the wire in their sizes are read from it, or the file
\* ends within them (_ujo_reader_get_file_data, _ujo_reader_get_memory_data).
LEMMA GetWire ==
    ASSUME input \in Seq(Chunks), wire \in Seq(Chunks), Given,
           NEW N, NEW c \in Scans(N), Steady(c), NEW fields, Len(fields) \in Nat,
           c.pos + Len(fields) - 1 <= Len(wire),
           \A i \in 1 .. Len(fields) : /\ fields[i].size \in Nat /\ fields[i].size >= 1
                                       /\ wire[c.pos + i - 1].size = fields[i].size
    PROVE  \/ /\ Fitting(c, fields)
              /\ \A i \in 1 .. Len(fields) : input[c.pos + i - 1] = wire[c.pos + i - 1]
           \/ ~Fitting(c, fields) /\ Broken(Get(c, fields))
  <1> DEFINE at(i) == c.pos + i - 1
             fits(i) == at(i) <= Len(input) /\ input[at(i)].size = fields[i].size
             bad == { i \in 1 .. Len(fields) : ~fits(i) }
             rest == SubSeq(input, c.pos, Len(input))
  <1>1. /\ c.pos \in 1 .. Len(input) + 1 /\ Len(input) \in Nat /\ Len(wire) \in Nat
        /\ c.pos \in Nat /\ c.pos >= 1
    BY DEF Scans, Progress
  <1>0. /\ Len(rest) = Len(input) - c.pos + 1 /\ Len(rest) \in Nat
        /\ \A i \in 1 .. Len(rest) : rest[i] = input[at(i)] /\ at(i) \in 1 .. Len(input)
    BY <1>1, SMTT(60)
  <1>4. \A i \in 1 .. Len(input) : input[i].size \in Nat
    BY ChunkAt
  <1> HIDE DEF rest
  <1>2. CASE bad = {}
    <2>0. \A i \in 1 .. Len(fields) : fits(i)
      BY <1>2
    <2>1. Fitting(c, fields)
      BY <2>0 DEF Fitting
    <2>2. ASSUME NEW i \in 1 .. Len(fields)
          PROVE  input[at(i)] = wire[at(i)]
      <3>0. fits(i) /\ input[at(i)].size = wire[at(i)].size
        BY <2>0
      <3>a. c.pos + i - 1 <= Len(input) /\ c.pos \in Nat /\ c.pos >= 1 /\ i \in Nat /\ i >= 1
        <4>1. c.pos + i - 1 <= Len(input)
          BY <3>0
        <4>2. c.pos \in Nat /\ c.pos >= 1
          BY <1>1
        <4> QED  BY <4>1, <4>2
      <3>1. at(i) \in 1 .. Len(input) /\ input[at(i)].size = wire[at(i)].size
        <4>1. at(i) \in 1 .. Len(input)
          BY <1>1, <3>a
        <4> HIDE DEF at
        <4> QED  BY <3>0, <4>1
      <3>2. wire[at(i)].size \in Nat
        OBVIOUS
      <3> HIDE DEF at
      <3> QED  BY <3>1, <3>2 DEF Given, Left
    <2> QED  BY <2>1, <2>2
  <1>3. CASE bad # {}
    <2>0. bad \subseteq Nat
      OBVIOUS
    <2>1. PICK b \in bad : \A j \in bad : b <= j
      <3> HIDE DEF bad
      <3> QED  BY <1>3, <2>0, LeastMember
    <2>2. /\ b \in 1 .. Len(fields) /\ b \in Nat /\ ~fits(b)
          /\ \A i \in 1 .. Len(fields) : i < b => fits(i)
      BY <2>1
    <2> HIDE DEF bad
    <2>3. at(b) \in 1 .. Len(input) + 1
      <3>1. CASE b = 1
        BY <1>1, <3>1
      <3>2. CASE b # 1
        <4>1. b - 1 \in 1 .. Len(fields) /\ b - 1 < b
          BY <2>2, <3>2
        <4>2. fits(b - 1)
          BY <2>2, <4>1
        <4>3. c.pos + (b - 1) - 1 <= Len(input) /\ c.pos \in Nat /\ c.pos >= 1
          <5>1. c.pos + (b - 1) - 1 <= Len(input)
            BY <4>2
          <5>2. c.pos \in Nat /\ c.pos >= 1
            BY <1>1
          <5> QED  BY <5>1, <5>2
        <4> QED  BY <1>1, <2>2, <4>1, <4>3, SMTT(60)
      <3> QED  BY <3>1, <3>2
    <2>4. /\ fields[b].size \in Nat /\ fields[b].size >= 1 /\ wire[at(b)].size = fields[b].size
      BY <2>2
    <2>5. Bytes(rest) < Bytes(fields) /\ input # wire
      <3>0. \A i \in 1 .. Len(fields) : i < b => input[at(i)].size = fields[i].size
        BY <2>2
      <3>1. CASE at(b) = Len(input) + 1
        <4>2. at(b) <= Len(wire)
          BY <1>1, <2>2, SMTT(60)
        <4>3. Len(input) # Len(wire)
          BY <1>1, <3>1, <4>2
        <4>4. Len(rest) = b - 1 /\ Len(rest) < Len(fields)
          BY <1>0, <1>1, <2>2, <3>1
        <4>5. \A i \in 1 .. Len(rest) : i \in 1 .. Len(fields) /\ i < b
          BY <2>2, <4>4
        <4>6. \A i \in 1 .. Len(rest) : rest[i].size \in Nat /\ rest[i].size <= fields[i].size
          <5> HIDE DEF at
          <5>1. \A i \in 1 .. Len(rest) : rest[i].size \in Nat /\ rest[i].size = fields[i].size
            BY <1>0, <1>4, <3>0, <4>5
          <5> QED  BY <5>1
        <4>7. Bytes(rest) < Bytes(fields)
          <5>1. \A i \in 1 .. Len(fields) : fields[i].size \in Nat /\ fields[i].size >= 1
            OBVIOUS
          <5>2. /\ Len(rest) \in Nat /\ Len(rest) <= Len(fields)
                /\ \A i \in 1 .. Len(rest) : rest[i].size \in Nat
                /\ \A i \in 1 .. Len(rest) : rest[i].size <= fields[i].size
            BY <1>0, <4>4, <4>6
          <5> HIDE DEF at, fits
          <5> QED  BY <4>4, <5>1, <5>2, BytesLess
        <4> QED  BY <4>3, <4>7
      <3>2. CASE at(b) # Len(input) + 1
        <4>1. at(b) \in 1 .. Len(input)
          BY <1>1, <2>3, <3>2
        <4>2. input[at(b)].size # wire[at(b)].size
          BY <2>2, <2>4, <4>1
        <4>3. at(b) = Len(input) /\ input[at(b)].size < wire[at(b)].size
          <5> HIDE DEF at
          <5> QED  BY <4>1, <4>2 DEF Given, Left
        <4>4. Len(rest) = b /\ Len(rest) <= Len(fields) /\ Len(rest) > 0
          BY <1>0, <1>1, <2>2, <4>3
        <4>5. \A i \in 1 .. Len(rest) : i \in 1 .. Len(fields) /\ (i < b \/ i = b)
          BY <2>2, <4>4
        <4>6. rest[b].size < fields[b].size
          BY <1>0, <2>2, <2>4, <4>3, <4>4
        <4>7. \A i \in 1 .. Len(rest) : rest[i].size \in Nat /\ rest[i].size <= fields[i].size
          <5> HIDE DEF at
          <5> SUFFICES ASSUME NEW i \in 1 .. Len(rest)
                       PROVE  rest[i].size \in Nat /\ rest[i].size <= fields[i].size
            OBVIOUS
          <5>1. rest[i].size \in Nat /\ fields[i].size \in Nat
            BY <1>0, <1>4, <4>5
          <5>2. i < b => rest[i].size = fields[i].size
            BY <1>0, <3>0, <4>5
          <5> QED  BY <4>5, <4>6, <5>1, <5>2
        <4>8. Bytes(rest) < Bytes(fields)
          <5> HIDE DEF at, fits
          <5> QED  BY <1>0, <4>4, <4>6, <4>7, BytesLess
        <4> QED  BY <4>2, <4>8
      <3> QED  BY <3>1, <3>2
    <2>6. rtype = "FILE"
      BY <2>5 DEF Given
    <2>9. ~Fitting(c, fields)
      BY <2>2 DEF Fitting
    <2>7. Get(c, fields) = [c EXCEPT !.code = UJO_ERR_FILE, !.pos = Len(input) + 1, !.off = 0]
      <3>1. c.off = 0
        BY DEF Steady, InStep
      <3>2. Bytes(rest) \in Nat /\ Bytes(fields) \in Nat /\ Remaining(c.pos) = Bytes(rest)
        <4>1. Remaining(c.pos) = Bytes(rest)
          BY DEF Remaining, rest
        <4> HIDE DEF fits, at
        <4> QED  BY <1>1, <4>1, RemainingIs, FieldsBytes
      <3>3. ~(c.off + Bytes(fields) <= Remaining(c.pos))
        BY <2>5, <3>1, <3>2
      <3>4. Going(c)
        BY SteadyGoes
      <3> HIDE DEF fits, at
      <3> QED  BY <2>6, <2>9, <3>3, <3>4 DEF Get
    <2>8. Broken(Get(c, fields))
      BY <2>6, <2>7
         DEF Broken, Scans, Progress, Steady, InStep, UJO_ERR_FILE, UJO_SUCCESS
    <2> QED  BY <2>8, <2>9
  <1> QED  BY <1>2, <1>3

\* The chunks ws are on the wire after position p.
OnWire(ws, p) ==
    p + Len(ws) <= Len(wire) /\ \A j \in 1 .. Len(ws) : wire[p + j] = ws[j]

\* The members that the chunks of ws after the first o are read into.
Told(ws, o, fields) ==
    { <<fields[i].name, Decode(ws[o + i], fields[i])>> : i \in 1 .. Len(fields) }

\* The fields have the sizes of those chunks, and names of N.
Measured(fields, N, ws, o) ==
    \A i \in 1 .. Len(fields) : /\ fields[i].name \in N
                                /\ fields[i].size \in Nat /\ fields[i].size >= 1
                                /\ ws[o + i].size = fields[i].size

\* A handler reads the chunks of an encoding from the o-th on.
LEMMA GetReads ==
    ASSUME input \in Seq(Chunks), wire \in Seq(Chunks), Given,
           NEW N, NEW c \in Scans(N), Steady(c), NEW fields, Len(fields) \in Nat,
           NEW ws, Len(ws) \in Nat, NEW p \in Nat, OnWire(ws, p),
           NEW o \in Nat, c.pos = p + o + 1, o + Len(fields) <= Len(ws),
           Measured(fields, N, ws, o)
    PROVE  LET d == Get(c, fields)
           IN  /\ d \in Scans(N) /\ d.doc = c.doc /\ d.type = c.type
               /\ \/ /\ Steady(d) /\ d.pos = c.pos + Len(fields)
                     /\ d.data = c.data \cup Told(ws, o, fields)
                  \/ Broken(d)
  <1> DEFINE d == Get(c, fields)
  <1>1. d \in Scans(N) /\ d.doc = c.doc /\ d.type = c.type
    <2>1. Readable(fields, N)
      BY DEF Measured, Readable
    <2> QED  BY <2>1, GetIs
  <1>2. \A i \in 1 .. Len(fields) : /\ o + i \in 1 .. Len(ws)
                                    /\ c.pos + i - 1 = p + (o + i)
    OBVIOUS
  <1>3. \A i \in 1 .. Len(fields) : wire[c.pos + i - 1] = ws[o + i]
    BY <1>2 DEF OnWire
  <1>4. c.pos + Len(fields) - 1 <= Len(wire)
    <2>1. Len(wire) \in Nat /\ p + Len(ws) <= Len(wire)
      BY DEF OnWire
    <2> QED  BY <2>1
  <1>5. CASE /\ Fitting(c, fields)
             /\ \A i \in 1 .. Len(fields) : input[c.pos + i - 1] = wire[c.pos + i - 1]
    <2>1. Decoded(c, fields) = Told(ws, o, fields)
      <3>1. \A i \in 1 .. Len(fields) : input[c.pos + i - 1] = ws[o + i]
        BY <1>3, <1>5
      <3> QED  BY <3>1 DEF Decoded, Told
    <2>2. /\ d = [c EXCEPT !.pos = @ + Len(fields), !.data = @ \cup Decoded(c, fields)]
          /\ Steady(d) /\ d.data = c.data \cup Decoded(c, fields)
      BY <1>5, GetGoes
    <2>3. d.pos = c.pos + Len(fields)
      <3> HIDE DEF d
      <3> QED  BY <2>2 DEF Scans, Progress
    <2> QED  BY <1>1, <2>1, <2>2, <2>3
  <1>6. CASE Broken(d)
    BY <1>1, <1>6
  <1>7. \A i \in 1 .. Len(fields) : /\ fields[i].size \in Nat /\ fields[i].size >= 1
                                    /\ wire[c.pos + i - 1].size = fields[i].size
    BY <1>3 DEF Measured
  <1> HIDE DEF d
  <1> QED  BY <1>4, <1>5, <1>6, <1>7, GetWire DEF d

\* The handler of an element leaves its value and stands behind it, or breaks off.
Parsed(d, c, data, q) ==
    /\ d.doc = c.doc /\ d.type = c.type
    /\ \/ Steady(d) /\ d.data = data /\ d.pos = q
       \/ Broken(d)

\* The tag of an element has been read, at p.
Tagged(c, ws, p) ==
    /\ input \in Seq(Chunks) /\ wire \in Seq(Chunks) /\ Given
    /\ c \in Scans(Members) /\ Steady(c) /\ c.data = {}
    /\ p \in Nat /\ OnWire(ws, p) /\ c.pos = p + 2

\* A handler that reads as many fields as chunks follow the tag.
LEMMA HandlerReads ==
    ASSUME NEW c, NEW p, NEW ws, Len(ws) \in Nat, NEW fields, Len(fields) \in Nat,
           Tagged(c, ws, p), 1 + Len(fields) = Len(ws), Measured(fields, Members, ws, 1)
    PROVE  Parsed(Get(c, fields), c, Told(ws, 1, fields), p + Len(ws) + 1)
  <1> DEFINE d == Get(c, fields)
  <1>1. /\ input \in Seq(Chunks) /\ wire \in Seq(Chunks) /\ Given
        /\ c \in Scans(Members) /\ Steady(c) /\ c.data = {}
        /\ p \in Nat /\ OnWire(ws, p) /\ c.pos = p + 1 + 1
    BY DEF Tagged
  <1>2. 1 + Len(fields) <= Len(ws) /\ c.pos + Len(fields) = p + Len(ws) + 1
    BY <1>1, SMTT(60)
  <1>3. /\ d.doc = c.doc /\ d.type = c.type
        /\ \/ /\ Steady(d) /\ d.pos = c.pos + Len(fields)
              /\ d.data = c.data \cup Told(ws, 1, fields)
           \/ Broken(d)
    BY <1>1, <1>2, GetReads, ZenonT(60)
  <1> HIDE DEF d
  <1>4. Parsed(d, c, Told(ws, 1, fields), p + Len(ws) + 1)
    BY <1>1, <1>2, <1>3 DEF Parsed
  <1> QED  BY <1>4 DEF d

\* One value of k octets.
LEMMA ReadsValue ==
    ASSUME NEW c, NEW p, NEW t, NEW x \in Nat, NEW k \in Nat, k >= 1,
           Tagged(c, <<t, Little(x, k)>>, p)
    PROVE  Parsed(Get(c, <<Field("value", k)>>), c, {<<"value", x>>}, p + 3)
  <1> DEFINE ws == <<t, Little(x, k)>>
             fields == <<Field("value", k)>>
  <1>1. /\ Len(ws) = 2 /\ ws[2] = Little(x, k) /\ Len(fields) = 1
        /\ fields[1] = Field("value", k)
    OBVIOUS
  <1>2. /\ Field("value", k).name \in Members /\ Field("value", k).size = k
        /\ Little(x, k).size = k /\ Decode(Little(x, k), Field("value", k)) = x
        /\ Field("value", k).name = "value"
    BY DEF Field, Members, Little, Decode
  <1>3. \A i \in 1 .. 1 : i = 1
    OBVIOUS
  <1>4. Tagged(c, ws, p) /\ p \in Nat
    BY DEF Tagged
  <1> HIDE DEF ws, fields
  <1>5. Told(ws, 1, fields) = {<<"value", x>>}
    BY <1>1, <1>2, <1>3 DEF Told
  <1>6. Measured(fields, Members, ws, 1)
    BY <1>1, <1>2, <1>3 DEF Measured
  <1>7. Parsed(Get(c, fields), c, Told(ws, 1, fields), p + Len(ws) + 1)
    <2>1. Len(ws) \in Nat /\ Len(fields) \in Nat /\ 1 + Len(fields) = Len(ws)
      BY <1>1
    <2> QED  BY <1>4, <1>6, <2>1, HandlerReads
  <1>8. p + Len(ws) + 1 = p + 3
    BY <1>1, <1>4
  <1> QED  BY <1>5, <1>7, <1>8 DEF fields

\* Fields and chunks of the sizes of a date and of a time.
LEMMA SmallFields ==
    ASSUME NEW f \in Members, NEW x \in Nat
    PROVE  /\ Field(f, 1).name = f /\ Field(f, 1).size = 1
           /\ Field(f, 2).name = f /\ Field(f, 2).size = 2
           /\ Byte(x).size = 1 /\ Little(x, 2).size = 2
           /\ Decode(Byte(x), Field(f, 1)) = x
           /\ Decode(Little(x, 2), Field(f, 2)) = x
  BY DEF Field, Byte, Little, Decode

\* A date (ujo_reader_parse_date).
LEMMA ReadsDate ==
    ASSUME NEW c, NEW p, NEW t, NEW y \in Nat, NEW m \in Nat, NEW d \in Nat,
           Tagged(c, <<t, Little(y, 2), Byte(m), Byte(d)>>, p)
    PROVE  Parsed(ujo_reader_parse_date(c), c,
                  {<<"year", y>>, <<"month", m>>, <<"day", d>>}, p + 5)
  <1> DEFINE ws == <<t, Little(y, 2), Byte(m), Byte(d)>>
             fields == <<Field("year", 2), Field("month", 1), Field("day", 1)>>
  <1>1. /\ Len(ws) = 4 /\ ws[2] = Little(y, 2) /\ ws[3] = Byte(m) /\ ws[4] = Byte(d)
        /\ Len(fields) = 3 /\ fields[1] = Field("year", 2) /\ fields[2] = Field("month", 1)
        /\ fields[3] = Field("day", 1)
    OBVIOUS
  <1>2. "year" \in Members /\ "month" \in Members /\ "day" \in Members
    BY DEF Members
  <1>3. \A i : i \in 1 .. 3 <=> i = 1 \/ i = 2 \/ i = 3
    OBVIOUS
  <1>4. Tagged(c, ws, p) /\ p \in Nat
    BY DEF Tagged
  <1> HIDE DEF ws, fields
  <1>5. Told(ws, 1, fields) =
          {<<"year", y>>, <<"month", m>>, <<"day", d>>}
    <2>1. /\ <<fields[1].name, Decode(ws[2], fields[1])>> = <<"year", y>>
          /\ <<fields[2].name, Decode(ws[3], fields[2])>> = <<"month", m>>
          /\ <<fields[3].name, Decode(ws[4], fields[3])>> = <<"day", d>>
      BY <1>1, <1>2, SmallFields
    <2>2. 1 + 1 = 2 /\ 1 + 2 = 3 /\ 1 + 3 = 4
      OBVIOUS
    <2> QED  BY <1>1, <1>3, <2>1, <2>2 DEF Told
  <1>6. Measured(fields, Members, ws, 1)
    BY <1>1, <1>2, <1>3, SmallFields DEF Measured
  <1>7. Parsed(Get(c, fields), c, Told(ws, 1, fields), p + Len(ws) + 1)
    <2>1. Len(ws) \in Nat /\ Len(fields) \in Nat /\ 1 + Len(fields) = Len(ws)
      BY <1>1
    <2> QED  BY <1>4, <1>6, <2>1, HandlerReads
  <1>8. p + Len(ws) + 1 = p + 5
    BY <1>1, <1>4
  <1> QED  BY <1>5, <1>7, <1>8 DEF fields, ujo_reader_parse_date

\* A time (ujo_reader_parse_time).
LEMMA ReadsTime ==
    ASSUME NEW c, NEW p, NEW t, NEW h \in Nat, NEW m \in Nat, NEW s \in Nat,
           Tagged(c, <<t, Byte(h), Byte(m), Byte(s)>>, p)
    PROVE  Parsed(ujo_reader_parse_time(c), c,
                  {<<"hour", h>>, <<"minute", m>>, <<"second", s>>}, p + 5)
  <1> DEFINE ws == <<t, Byte(h), Byte(m), Byte(s)>>
             fields == <<Field("hour", 1), Field("minute", 1), Field("second", 1)>>
  <1>1. /\ Len(ws) = 4 /\ ws[2] = Byte(h) /\ ws[3] = Byte(m) /\ ws[4] = Byte(s)
        /\ Len(fields) = 3 /\ fields[1] = Field("hour", 1) /\ fields[2] = Field("minute", 1)
        /\ fields[3] = Field("second", 1)
    OBVIOUS
  <1>2. "hour" \in Members /\ "minute" \in Members /\ "second" \in Members
    BY DEF Members
  <1>3. \A i : i \in 1 .. 3 <=> i = 1 \/ i = 2 \/ i = 3
    OBVIOUS
  <1>4. Tagged(c, ws, p) /\ p \in Nat
    BY DEF Tagged
  <1> HIDE DEF ws, fields
  <1>5. Told(ws, 1, fields) =
          {<<"hour", h>>, <<"minute", m>>, <<"second", s>>}
    <2>1. /\ <<fields[1].name, Decode(ws[2], fields[1])>> = <<"hour", h>>
          /\ <<fields[2].name, Decode(ws[3], fields[2])>> = <<"minute", m>>
          /\ <<fields[3].name, Decode(ws[4], fields[3])>> = <<"second", s>>
      BY <1>1, <1>2, SmallFields
    <2>2. 1 + 1 = 2 /\ 1 + 2 = 3 /\ 1 + 3 = 4
      OBVIOUS
    <2> QED  BY <1>1, <1>3, <2>1, <2>2 DEF Told
  <1>6. Measured(fields, Members, ws, 1)
    BY <1>1, <1>2, <1>3, SmallFields DEF Measured
  <1>7. Parsed(Get(c, fields), c, Told(ws, 1, fields), p + Len(ws) + 1)
    <2>1. Len(ws) \in Nat /\ Len(fields) \in Nat /\ 1 + Len(fields) = Len(ws)
      BY <1>1
    <2> QED  BY <1>4, <1>6, <2>1, HandlerReads
  <1>8. p + Len(ws) + 1 = p + 5
    BY <1>1, <1>4
  <1> QED  BY <1>5, <1>7, <1>8 DEF fields, ujo_reader_parse_time

\* A timestamp (ujo_reader_parse_timestamp).
LEMMA ReadsTimestamp ==
    ASSUME NEW c, NEW p, NEW t, NEW y \in Nat, NEW mo \in Nat, NEW d \in Nat,
           NEW h \in Nat, NEW m \in Nat, NEW s \in Nat, NEW ml \in Nat,
           Tagged(c, <<t, Little(y, 2), Byte(mo), Byte(d), Byte(h), Byte(m), Byte(s),
                       Little(ml, 2)>>, p)
    PROVE  Parsed(ujo_reader_parse_timestamp(c), c,
                  {<<"year", y>>, <<"month", mo>>, <<"day", d>>, <<"hour", h>>,
                   <<"minute", m>>, <<"second", s>>, <<"millisecond", ml>>}, p + 9)
  <1> DEFINE ws == <<t, Little(y, 2), Byte(mo), Byte(d), Byte(h), Byte(m), Byte(s),
                     Little(ml, 2)>>
             fields == <<Field("year", 2), Field("month", 1), Field("day", 1),
                         Field("hour", 1), Field("minute", 1), Field("second", 1),
                         Field("millisecond", 2)>>
  <1>1. /\ Len(ws) = 8 /\ ws[2] = Little(y, 2) /\ ws[3] = Byte(mo) /\ ws[4] = Byte(d)
        /\ ws[5] = Byte(h) /\ ws[6] = Byte(m) /\ ws[7] = Byte(s) /\ ws[8] = Little(ml, 2)
        /\ Len(fields) = 7 /\ fields[1] = Field("year", 2) /\ fields[2] = Field("month", 1)
        /\ fields[3] = Field("day", 1) /\ fields[4] = Field("hour", 1)
        /\ fields[5] = Field("minute", 1) /\ fields[6] = Field("second", 1)
        /\ fields[7] = Field("millisecond", 2)
    OBVIOUS
  <1>2. /\ "year" \in Members /\ "month" \in Members /\ "day" \in Members
        /\ "hour" \in Members /\ "minute" \in Members /\ "second" \in Members
        /\ "millisecond" \in Members
    BY DEF Members
  <1>3. \A i : i \in 1 .. 7 <=> \/ i = 1 \/ i = 2 \/ i = 3 \/ i = 4 \/ i = 5 \/ i = 6 \/ i = 7
    OBVIOUS
  <1>4. Tagged(c, ws, p) /\ p \in Nat
    BY DEF Tagged
  <1> HIDE DEF ws, fields
  <1>5. Told(ws, 1, fields) =
          {<<"year", y>>, <<"month", mo>>, <<"day", d>>, <<"hour", h>>,
           <<"minute", m>>, <<"second", s>>, <<"millisecond", ml>>}
    <2>1. /\ <<fields[1].name, Decode(ws[2], fields[1])>> = <<"year", y>>
          /\ <<fields[2].name, Decode(ws[3], fields[2])>> = <<"month", mo>>
          /\ <<fields[3].name, Decode(ws[4], fields[3])>> = <<"day", d>>
          /\ <<fields[4].name, Decode(ws[5], fields[4])>> = <<"hour", h>>
          /\ <<fields[5].name, Decode(ws[6], fields[5])>> = <<"minute", m>>
          /\ <<fields[6].name, Decode(ws[7], fields[6])>> = <<"second", s>>
          /\ <<fields[7].name, Decode(ws[8], fields[7])>> = <<"millisecond", ml>>
      BY <1>1, <1>2, SmallFields
    <2>2. /\ 1 + 1 = 2 /\ 1 + 2 = 3 /\ 1 + 3 = 4 /\ 1 + 4 = 5 /\ 1 + 5 = 6 /\ 1 + 6 = 7
          /\ 1 + 7 = 8
      OBVIOUS
    <2> QED  BY <1>1, <1>3, <2>1, <2>2 DEF Told
  <1>6. Measured(fields, Members, ws, 1)
    BY <1>1, <1>2, <1>3, SmallFields DEF Measured
  <1>7. Parsed(Get(c, fields), c, Told(ws, 1, fields), p + Len(ws) + 1)
    <2>1. Len(ws) \in Nat /\ Len(fields) \in Nat /\ 1 + Len(fields) = Len(ws)
      BY <1>1
    <2> QED  BY <1>4, <1>6, <2>1, HandlerReads
  <1>8. p + Len(ws) + 1 = p + 9
    BY <1>1, <1>4
  <1> QED  BY <1>5, <1>7, <1>8 DEF fields, ujo_reader_parse_timestamp

\* The subtype and the number of units of a string or binary.
LEMMA ReadsSizes ==
    ASSUME Host = RHost, NEW c, NEW p, NEW ws, Len(ws) \in Nat, Len(ws) >= 3,
           NEW sub \in Nat, NEW n \in Nat, ws[2] = Byte(sub), ws[3] = Native(n, 4),
           Tagged(c, ws, p)
    PROVE  LET d == Sizes(c)
           IN  /\ d \in Scans(Members) /\ d.doc = c.doc /\ d.type = c.type
               /\ \/ /\ Steady(d) /\ d.pos = p + 4
                     /\ d.data = {<<"type", sub>>, <<"n", n>>}
                     /\ Member(d, "type") = sub /\ Member(d, "n") = n
                  \/ Broken(d)
  <1> DEFINE fields == <<Field("type", 1), Raw("n", 4, 4)>>
             d == Get(c, fields)
  <1>1. Len(fields) = 2 /\ fields[1] = Field("type", 1) /\ fields[2] = Raw("n", 4, 4)
    OBVIOUS
  <1>2. /\ Field("type", 1).name = "type" /\ Field("type", 1).size = 1
        /\ Raw("n", 4, 4).name = "n" /\ Raw("n", 4, 4).size = 4
        /\ Byte(sub).size = 1 /\ Native(n, 4).size = 4
        /\ Decode(Byte(sub), Field("type", 1)) = sub
        /\ Decode(Native(n, 4), Raw("n", 4, 4)) = n
    BY DEF Field, Raw, Byte, Little, Native, Decode
  <1>3. "type" \in Members /\ "n" \in Members
    BY DEF Members
  <1>4. \A i : i \in 1 .. 2 <=> i = 1 \/ i = 2
    OBVIOUS
  <1>5. /\ input \in Seq(Chunks) /\ wire \in Seq(Chunks) /\ Given
        /\ c \in Scans(Members) /\ Steady(c) /\ c.data = {}
        /\ p \in Nat /\ OnWire(ws, p) /\ c.pos = p + 1 + 1
    BY DEF Tagged
  <1>6. Sizes(c) = d
    BY DEF Sizes
  <1> HIDE DEF fields
  <1>7. Told(ws, 1, fields) = {<<"type", sub>>, <<"n", n>>}
    <2>1. /\ <<fields[1].name, Decode(ws[2], fields[1])>> = <<"type", sub>>
          /\ <<fields[2].name, Decode(ws[3], fields[2])>> = <<"n", n>>
      BY <1>1, <1>2
    <2>2. 1 + 1 = 2 /\ 1 + 2 = 3
      OBVIOUS
    <2> QED  BY <1>1, <1>4, <2>1, <2>2 DEF Told
  <1>8. Measured(fields, Members, ws, 1)
    BY <1>1, <1>2, <1>3, <1>4 DEF Measured
  <1>9. Len(fields) \in Nat /\ 1 + Len(fields) <= Len(ws) /\ c.pos + Len(fields) = p + 4
    BY <1>1, <1>5
  <1>10. /\ d \in Scans(Members) /\ d.doc = c.doc /\ d.type = c.type
         /\ \/ /\ Steady(d) /\ d.pos = c.pos + Len(fields)
               /\ d.data = c.data \cup Told(ws, 1, fields)
            \/ Broken(d)
    BY <1>5, <1>8, <1>9, GetReads, ZenonT(60)
  <1> HIDE DEF d
  <1>11. CASE Broken(d)
    BY <1>6, <1>10, <1>11
  <1>12. CASE ~Broken(d)
    <2>1. Steady(d) /\ d.pos = p + 4 /\ d.data = {<<"type", sub>>, <<"n", n>>}
      BY <1>5, <1>7, <1>9, <1>10, <1>12
    <2>2. <<"type", sub>> \in d.data /\ \A m \in d.data : m[1] = "type" => m = <<"type", sub>>
      BY <2>1
    <2>3. <<"n", n>> \in d.data /\ \A m \in d.data : m[1] = "n" => m = <<"n", n>>
      BY <2>1
    <2>4. Member(d, "type") = sub /\ Member(d, "n") = n
      BY <2>2, <2>3, MemberIs
    <2> QED  BY <1>6, <1>10, <2>1, <2>4
  <1> QED  BY <1>11, <1>12

\* A block of n units of u octets, as the writer puts it.
Filled(block, n, u) ==
    block.size = n * u /\ (n = 0 => block.val = 0) /\ (block.order = Host \/ u = 1)

\* It is read as it was put.
LEMMA ReadsPayload ==
    ASSUME Host = RHost, input \in Seq(Chunks), wire \in Seq(Chunks), Given,
           NEW c \in Scans(Members), Steady(c), NEW ws, Len(ws) \in Nat,
           NEW p \in Nat, OnWire(ws, p), c.pos = p + 4,
           NEW n \in Nat, NEW u \in {1, 2, 4}, NEW block \in Chunks,
           Filled(block, n, u), n = 0 => Len(ws) = 3, n # 0 => Len(ws) = 4 /\ ws[4] = block,
           NEW mem \in BOOLEAN
    PROVE  Parsed(Payload(c, mem, n, u), c, c.data \cup {<<"octets", block.val>>},
                  p + Len(ws) + 1)
  <1>1. CASE ~mem
    <2>1. Payload(c, mem, n, u) = [c EXCEPT !.code = UJO_ERR_ALLOCATION]
      BY <1>1, SteadyGoes DEF Payload, Fail
    <2> QED  BY <2>1 DEF Parsed, Broken, Scans, Progress, Steady, InStep, UJO_SUCCESS, UJO_ERR_ALLOCATION, UJO_ERR_FILE
  <1>2. CASE mem /\ n = 0
    <2>1. Payload(c, mem, n, u) = [c EXCEPT !.data = @ \cup {<<"octets", 0>>}]
      BY <1>2 DEF Payload
    <2>2. p + Len(ws) + 1 = c.pos
      <3>1. Len(ws) = 3
        BY <1>2
      <3>2. p + 3 + 1 = c.pos
        OBVIOUS
      <3> QED  BY <3>1, <3>2
    <2>3. block.val = 0
      BY <1>2 DEF Filled
    <2> QED  BY <2>1, <2>2, <2>3 DEF Parsed, Scans, Progress, Steady, InStep
  <1>3. CASE mem /\ n # 0
    <2> DEFINE f == Raw("octets", n * u, u)
               fields == <<f>>
               d == Get(c, fields)
    <2>1. Payload(c, mem, n, u) = d
      BY <1>3 DEF Payload
    <2>2. n * u \in Nat /\ n * u >= 1
      <3>1. CASE u = 1
        BY <1>3, <3>1
      <3>2. CASE u = 2
        BY <1>3, <3>2
      <3>3. CASE u = 4
        BY <1>3, <3>3
      <3> QED  BY <3>1, <3>2, <3>3
    <2>3. /\ f.name = "octets" /\ f.size = n * u /\ f.unit = u /\ f.order = RHost
          /\ "octets" \in Members
      BY DEF Raw, Members
    <2>4. Len(fields) = 1 /\ fields[1] = f
      OBVIOUS
    <2>5. Decode(block, f) = block.val
      BY <2>3 DEF Decode, Filled
    <2>6. \A i : i \in 1 .. 1 <=> i = 1
      OBVIOUS
    <2>7. 3 + 1 = 4
      OBVIOUS
    <2> HIDE DEF f, fields
    <2>8. Told(ws, 3, fields) = {<<"octets", block.val>>}
      BY <1>3, <2>3, <2>4, <2>5, <2>6, <2>7 DEF Told
    <2>9. Measured(fields, Members, ws, 3)
      BY <1>3, <2>2, <2>3, <2>4, <2>6, <2>7 DEF Measured, Filled
    <2>10. /\ Len(fields) \in Nat /\ 3 + Len(fields) <= Len(ws)
           /\ c.pos = p + 3 + 1 /\ c.pos + Len(fields) = p + Len(ws) + 1
      <3>1. Len(ws) = 4
        BY <1>3
      <3>2. c.pos = p + 3 + 1 /\ c.pos + 1 = p + 4 + 1
        OBVIOUS
      <3> QED  BY <2>4, <3>1, <3>2
    <2>11. /\ d \in Scans(Members) /\ d.doc = c.doc /\ d.type = c.type
           /\ \/ /\ Steady(d) /\ d.pos = c.pos + Len(fields)
                 /\ d.data = c.data \cup Told(ws, 3, fields)
              \/ Broken(d)
      BY <2>9, <2>10, GetReads
    <2> HIDE DEF d
    <2> QED  BY <2>1, <2>8, <2>10, <2>11 DEF Parsed
  <1> QED  BY <1>1, <1>2, <1>3

\* The chunks of a string or binary.
Laid(ws, t, sub, n, block) ==
    /\ Len(ws) \in Nat /\ Len(ws) >= 3
    /\ ws[1] = Byte(t) /\ ws[2] = Byte(sub) /\ ws[3] = Native(n, 4)
    /\ n = 0 => Len(ws) = 3
    /\ n # 0 => Len(ws) = 4 /\ ws[4] = block

\* What is put for a string or binary that can be counted.
LEMMA SizedPuts ==
    ASSUME NEW t, NEW sub \in Nat, NEW n \in Nat, n < Mod32,
           NEW block \in Chunks, block.size = 0 <=> n = 0,
           NEW ws, ws = Sized(t, sub, n, block)
    PROVE  Laid(ws, t, sub, n, block)
  <1>1. n % Mod32 = n
    <2>1. Mod32 \in Nat \ {0}
      BY WriterAssumption
    <2> QED  BY <2>1
  <1>2. CASE n = 0
    <2>1. block.size = 0
      BY <1>2
    <2>2. ws = <<Byte(t), Byte(sub), Native(n, 4)>>
      BY <1>1, <2>1 DEF Sized, Block
    <2> QED  BY <1>2, <2>2 DEF Laid
  <1>3. CASE n # 0
    <2>1. block.size # 0
      BY <1>3
    <2>2. ws = <<Byte(t), Byte(sub), Native(n, 4)>> \o <<block>>
      BY <1>1, <2>1 DEF Sized, Block
    <2>3. \A a, b, c : LET w == <<a, b, c>> \o <<block>>
                      IN  Len(w) = 4 /\ w[1] = a /\ w[2] = b /\ w[3] = c /\ w[4] = block
      OBVIOUS
    <2>4. Len(ws) = 4 /\ ws[1] = Byte(t) /\ ws[2] = Byte(sub) /\ ws[3] = Native(n, 4) /\ ws[4] = block
      BY <2>2, <2>3
    <2> QED  BY <1>3, <2>4 DEF Laid
  <1> QED  BY <1>2, <1>3

\* The scan has moved from c to b, and the rest of the handler from there.
LEMMA ParsedOn ==
    ASSUME NEW b, NEW c, NEW d, NEW data, NEW q, Parsed(d, b, data, q),
           b.doc = c.doc, b.type = c.type
    PROVE  Parsed(d, c, data, q)
  BY DEF Parsed

\* Strings and binaries (ujo_reader_parse_string, ujo_reader_parse_binary).
LEMMA ReadsSized ==
    ASSUME Host = RHost, NEW c, NEW p, NEW t \in SizedTypes, NEW sub \in Nat, NEW n \in Nat,
           n < Mod32, NEW block \in Chunks, t = UJO_TYPE_STRING => sub \in 0 .. 3,
           Filled(block, n, Unit(t, sub)), Tagged(c, Sized(t, sub, n, block), p),
           NEW mem \in BOOLEAN
    PROVE  LET ws == Sized(t, sub, n, block)
               data == Stored(sub, n, block.val)
           IN  /\ t = UJO_TYPE_STRING =>
                    Parsed(ujo_reader_parse_string(c, mem), c, data, p + Len(ws) + 1)
               /\ t # UJO_TYPE_STRING =>
                    Parsed(ujo_reader_parse_binary(c, mem), c, data, p + Len(ws) + 1)
  <1> DEFINE ws == Sized(t, sub, n, block)
             data == Stored(sub, n, block.val)
             u == Unit(t, sub)
             b == Sizes(c)
             q == p + Len(ws) + 1
  <1>1. u \in {1, 2, 4}
    BY DEF Unit, UnitSize
  <1>2. /\ Len(ws) \in Nat /\ Len(ws) >= 3
        /\ ws[1] = Byte(t) /\ ws[2] = Byte(sub) /\ ws[3] = Native(n, 4)
        /\ n = 0 => Len(ws) = 3
        /\ n # 0 => Len(ws) = 4 /\ ws[4] = block
    <2>1. block.size = 0 <=> n = 0
      <3>1. u = 1 \/ u = 2 \/ u = 4
        BY <1>1
      <3> HIDE DEF u
      <3>2. n * u = 0 <=> n = 0
        BY <3>1
      <3> QED  BY <3>2 DEF Filled, u
    <2>2. ws = Sized(t, sub, n, block)
      OBVIOUS
    <2> HIDE DEF u, ws, data, b, q
    <2>3. Laid(ws, t, sub, n, block)
      BY <2>1, <2>2, SizedPuts
    <2> QED  BY <2>3 DEF Laid
  <1>3. Tagged(c, ws, p) /\ Filled(block, n, u)
    OBVIOUS
  <1> HIDE DEF ws, u
  <1>4. /\ input \in Seq(Chunks) /\ wire \in Seq(Chunks) /\ Given
        /\ p \in Nat /\ OnWire(ws, p)
    BY <1>3 DEF Tagged
  <1>5. /\ b \in Scans(Members) /\ b.doc = c.doc /\ b.type = c.type
        /\ \/ /\ Steady(b) /\ b.pos = p + 4
              /\ b.data = {<<"type", sub>>, <<"n", n>>}
              /\ Member(b, "type") = sub /\ Member(b, "n") = n
           \/ Broken(b)
    BY <1>2, <1>3, ReadsSizes
  <1> HIDE DEF b
  <1>6. CASE Broken(b)
    <2>1. ~Going(b) /\ Parsed(b, c, data, q)
      BY <1>5, <1>6, BrokenStops DEF Parsed
    <2>2. ujo_reader_parse_string(c, mem) = b /\ ujo_reader_parse_binary(c, mem) = b
      BY <2>1 DEF ujo_reader_parse_string, ujo_reader_parse_binary, b
    <2> QED  BY <2>1, <2>2 DEF ws
  <1>7. CASE ~Broken(b)
    <2>1. /\ Steady(b) /\ b.pos = p + 4 /\ b.data = {<<"type", sub>>, <<"n", n>>}
          /\ Member(b, "type") = sub /\ Member(b, "n") = n /\ Going(b)
      BY <1>5, <1>7, SteadyGoes
    <2>2. b.data \cup {<<"octets", block.val>>} = data
      BY <2>1 DEF Stored
    <2> HIDE DEF q, data
    <2>3. Parsed(Payload(b, mem, n, u), b, b.data \cup {<<"octets", block.val>>}, q)
      BY <1>1, <1>2, <1>3, <1>4, <1>5, <2>1, ReadsPayload DEF q
    <2>4. Parsed(Payload(b, mem, n, u), c, data, q)
      BY <1>5, <2>2, <2>3, ParsedOn
    <2>5. CASE t = UJO_TYPE_STRING
      <3>1. u = UnitSize(sub) /\ (sub = 0 \/ sub = 1 \/ sub = 2 \/ sub = 3)
        BY <2>5 DEF u, Unit
      <3>2. ujo_reader_parse_string(c, mem) = Payload(b, mem, n, u)
        <4>1. CASE sub \in {0, 1}
          <5>1. u = 1
            BY <3>1, <4>1 DEF UnitSize, UJO_SUB_STRING_U16, UJO_SUB_STRING_U32
          <5> QED  BY <2>1, <4>1, <5>1 DEF ujo_reader_parse_string, b, UJO_SUB_STRING_C,
                      UJO_SUB_STRING_U8, UJO_SUB_STRING_U16, UJO_SUB_STRING_U32
        <4>2. CASE sub = 2
          <5>1. u = 2
            BY <3>1, <4>2 DEF UnitSize, UJO_SUB_STRING_U16, UJO_SUB_STRING_U32
          <5> QED  BY <2>1, <4>2, <5>1 DEF ujo_reader_parse_string, b, UJO_SUB_STRING_C,
                      UJO_SUB_STRING_U8, UJO_SUB_STRING_U16, UJO_SUB_STRING_U32
        <4>3. CASE sub = 3
          <5>1. u = 4
            BY <3>1, <4>3 DEF UnitSize, UJO_SUB_STRING_U16, UJO_SUB_STRING_U32
          <5> QED  BY <2>1, <4>3, <5>1 DEF ujo_reader_parse_string, b, UJO_SUB_STRING_C,
                      UJO_SUB_STRING_U8, UJO_SUB_STRING_U16, UJO_SUB_STRING_U32
        <4> QED  BY <3>1, <4>1, <4>2, <4>3
      <3> QED  BY <2>4, <2>5, <3>2 DEF q, data, ws
    <2>6. CASE t # UJO_TYPE_STRING
      <3>1. u = 1
        BY <2>6 DEF u, Unit
      <3>2. ujo_reader_parse_binary(c, mem) = Payload(b, mem, n, u)
        BY <2>1, <3>1 DEF ujo_reader_parse_binary, b
      <3> QED  BY <2>4, <2>6, <3>2 DEF q, data, ws
    <2> QED  BY <2>5, <2>6
  <1> QED  BY <1>6, <1>7

\* The handlers of numbers read one value, of the width of the type.
LEMMA ParseScalar ==
    ASSUME NEW c, NEW mem, c.type \in ScalarTypes
    PROVE  Parse(c, mem) = Get(c, <<Field("value", FixedSize(c.type) - 1)>>)
  <1> DEFINE get(k) == Get(c, <<Field("value", k)>>)
  <1> USE DEF UJO_TERMINATOR, UJO_TYPE_NONE, UJO_TYPE_LIST, UJO_TYPE_MAP, UJO_TYPE_TABLE,
         UJO_TYPE_FLOAT64, UJO_TYPE_FLOAT32, UJO_TYPE_FLOAT16, UJO_TYPE_STRING,
         UJO_TYPE_INT64, UJO_TYPE_INT32, UJO_TYPE_INT16, UJO_TYPE_INT8,
         UJO_TYPE_UINT64, UJO_TYPE_UINT32, UJO_TYPE_UINT16, UJO_TYPE_UINT8,
         UJO_TYPE_BOOL, UJO_TYPE_BIN, UJO_TYPE_UX_TIME, UJO_TYPE_DATE, UJO_TYPE_TIME,
         UJO_TYPE_TIMESTAMP
  <1>1. c.type \in {8, 12, 13} \/ c.type \in {3, 7, 11} \/ c.type \in {2, 6, 10}
        \/ c.type \in {1, 5, 9, 16}
    BY DEF ScalarTypes, SizedTypes, AtomicTypes
  <1> USE DEF Parse, FixedSize, ContainerTypes
  <1>2. CASE c.type \in {8, 12, 13}
    <2>1. FixedSize(c.type) = 2
      BY <1>2
    <2>2. Parse(c, mem) = get(1)
      BY <1>2 DEF ujo_reader_parse_int8, ujo_reader_parse_uint8, ujo_reader_parse_bool
    <2> HIDE DEF Parse, FixedSize
    <2> QED  BY <2>1, <2>2
  <1>3. CASE c.type \in {3, 7, 11}
    <2>1. FixedSize(c.type) = 3
      BY <1>3
    <2>2. Parse(c, mem) = get(2)
      BY <1>3 DEF ujo_reader_parse_int16, ujo_reader_parse_uint16, ujo_reader_parse_float16
    <2> HIDE DEF Parse, FixedSize
    <2> QED  BY <2>1, <2>2
  <1>4. CASE c.type \in {2, 6, 10}
    <2>1. FixedSize(c.type) = 5
      BY <1>4
    <2>2. Parse(c, mem) = get(4)
      BY <1>4 DEF ujo_reader_parse_int32, ujo_reader_parse_uint32, ujo_reader_parse_float32
    <2> HIDE DEF Parse, FixedSize
    <2> QED  BY <2>1, <2>2
  <1>5. CASE c.type \in {1, 5, 9, 16}
    <2>1. FixedSize(c.type) = 9
      BY <1>5
    <2>2. Parse(c, mem) = get(8)
      BY <1>5 DEF ujo_reader_parse_int64, ujo_reader_parse_uint64, ujo_reader_parse_float64,
                  ujo_reader_parse_uxtime
    <2> HIDE DEF Parse, FixedSize
    <2> QED  BY <2>1, <2>2
  <1> QED  BY <1>1, <1>2, <1>3, <1>4, <1>5

\* The other handlers.
LEMMA ParseOthers ==
    ASSUME NEW c, NEW mem
    PROVE  /\ c.type = UJO_TYPE_NONE => Parse(c, mem) = c
           /\ c.type = UJO_TYPE_DATE => Parse(c, mem) = ujo_reader_parse_date(c)
           /\ c.type = UJO_TYPE_TIME => Parse(c, mem) = ujo_reader_parse_time(c)
           /\ c.type = UJO_TYPE_TIMESTAMP => Parse(c, mem) = ujo_reader_parse_timestamp(c)
           /\ c.type = UJO_TYPE_STRING => Parse(c, mem) = ujo_reader_parse_string(c, mem)
           /\ c.type = UJO_TYPE_BIN => Parse(c, mem) = ujo_reader_parse_binary(c, mem)
  <1> USE DEF Parse, UJO_TYPE_NONE,
         UJO_TYPE_FLOAT64, UJO_TYPE_FLOAT32, UJO_TYPE_FLOAT16, UJO_TYPE_STRING,
         UJO_TYPE_INT64, UJO_TYPE_INT32, UJO_TYPE_INT16, UJO_TYPE_INT8,
         UJO_TYPE_UINT64, UJO_TYPE_UINT32, UJO_TYPE_UINT16, UJO_TYPE_UINT8,
         UJO_TYPE_BOOL, UJO_TYPE_BIN, UJO_TYPE_UX_TIME, UJO_TYPE_DATE, UJO_TYPE_TIME,
         UJO_TYPE_TIMESTAMP
  <1>1. c.type = UJO_TYPE_NONE => Parse(c, mem) = c
    BY DEF ujo_reader_parse_none
  <1>2. c.type = UJO_TYPE_DATE => Parse(c, mem) = ujo_reader_parse_date(c)
    OBVIOUS
  <1>3. c.type = UJO_TYPE_TIME => Parse(c, mem) = ujo_reader_parse_time(c)
    OBVIOUS
  <1>4. c.type = UJO_TYPE_TIMESTAMP => Parse(c, mem) = ujo_reader_parse_timestamp(c)
    OBVIOUS
  <1>5. c.type = UJO_TYPE_STRING => Parse(c, mem) = ujo_reader_parse_string(c, mem)
    OBVIOUS
  <1>6. c.type = UJO_TYPE_BIN => Parse(c, mem) = ujo_reader_parse_binary(c, mem)
    OBVIOUS
  <1> QED  BY <1>1, <1>2, <1>3, <1>4, <1>5, <1>6

\* The value of an element as it was written, if its length can be counted.
LEMMA ParseReads ==
    ASSUME Host = RHost, Nulls = {}, NEW e, NEW ws, Coded(e, ws), Counts(e),
           e.type \in AtomicTypes, NEW c, NEW p, Tagged(c, ws, p), c.type = e.type,
           NEW mem \in BOOLEAN
    PROVE  Parsed(Parse(c, mem), c, e.data, p + Len(ws) + 1)
  <1>0. \A t, d : Element(t, d).type = t /\ Element(t, d).data = d
    BY DEF Element
  <1>p. p \in Nat
    BY DEF Tagged
  <1>1. CASE CodedTag(e, ws)
    <2>1. PICK t \in TagTypes : e = Element(t, {}) /\ ws = <<Byte(t)>>
      BY <1>1 DEF CodedTag
    <2>2. e.type = t /\ e.data = {} /\ Len(ws) = 1
      BY <1>0, <2>1
    <2>3. t = UJO_TYPE_NONE
      BY <2>1, <2>2, TypeNumbers DEF TagTypes, ContainerTypes
    <2>4. Parse(c, mem) = c
      BY <2>2, <2>3, ParseOthers
    <2>5. c.pos = p + Len(ws) + 1 /\ Steady(c) /\ c.data = e.data
      BY <1>p, <2>2 DEF Tagged
    <2> QED  BY <2>4, <2>5 DEF Parsed
  <1>2. CASE CodedScalar(e, ws)
    <2>1. PICK t \in ScalarTypes, x \in Nat :
            e = Element(t, {<<"value", x>>}) /\ ws = <<Byte(t), Little(x, FixedSize(t) - 1)>>
      BY <1>2 DEF CodedScalar
    <2> DEFINE k == FixedSize(t) - 1
    <2>2. k \in Nat /\ k >= 1
      <3>1. k \in {1, 2, 4, 8}
        BY WidthIs
      <3> HIDE DEF k
      <3> QED  BY <3>1
    <2>3. e.type = t /\ e.data = {<<"value", x>>} /\ Len(ws) = 2
      BY <1>0, <2>1
    <2>4. Parse(c, mem) = Get(c, <<Field("value", k)>>)
      BY <2>3, ParseScalar
    <2>5. ws = <<Byte(t), Little(x, k)>>
      BY <2>1
    <2> HIDE DEF k
    <2>6. Parsed(Get(c, <<Field("value", k)>>), c, {<<"value", x>>}, p + 3)
      BY <2>2, <2>5, ReadsValue
    <2>7. p + Len(ws) + 1 = p + 3
      BY <1>p, <2>3
    <2> QED  BY <2>3, <2>4, <2>6, <2>7
  <1>3. CASE CodedDate(e, ws)
    <2>1. PICK d \in Dates :
             /\ e = Element(UJO_TYPE_DATE,
                            {<<"year", d.year>>, <<"month", d.month>>, <<"day", d.day>>})
             /\ ws = <<Byte(UJO_TYPE_DATE), Little(d.year, 2), Byte(d.month), Byte(d.day)>>
      BY <1>3 DEF CodedDate
    <2>2. d.year \in Nat /\ d.month \in Nat /\ d.day \in Nat
      BY DEF Dates
    <2>3. /\ e.type = UJO_TYPE_DATE
          /\ e.data = {<<"year", d.year>>, <<"month", d.month>>, <<"day", d.day>>}
      BY <1>0, <2>1
    <2>4. Len(ws) = 4
      BY <2>1
    <2>5. p + Len(ws) + 1 = p + 5
      BY <1>p, <2>4
    <2>6. Parse(c, mem) = ujo_reader_parse_date(c)
      BY <2>3, ParseOthers
    <2>7. Tagged(c, <<Byte(UJO_TYPE_DATE), Little(d.year, 2), Byte(d.month), Byte(d.day)>>, p)
      BY <2>1
    <2>8. Parsed(ujo_reader_parse_date(c), c,
                 {<<"year", d.year>>, <<"month", d.month>>, <<"day", d.day>>}, p + 5)
      BY <2>2, <2>7, ReadsDate
    <2> QED  BY <2>3, <2>5, <2>6, <2>8
  <1>4. CASE CodedTime(e, ws)
    <2>1. PICK d \in Times :
             /\ e = Element(UJO_TYPE_TIME,
                            {<<"hour", d.hour>>, <<"minute", d.minute>>, <<"second", d.second>>})
             /\ ws = <<Byte(UJO_TYPE_TIME), Byte(d.hour), Byte(d.minute), Byte(d.second)>>
      BY <1>4 DEF CodedTime
    <2>2. d.hour \in Nat /\ d.minute \in Nat /\ d.second \in Nat
      BY DEF Times
    <2>3. /\ e.type = UJO_TYPE_TIME
          /\ e.data = {<<"hour", d.hour>>, <<"minute", d.minute>>, <<"second", d.second>>}
      BY <1>0, <2>1
    <2>4. Len(ws) = 4
      BY <2>1
    <2>5. p + Len(ws) + 1 = p + 5
      BY <1>p, <2>4
    <2>6. Parse(c, mem) = ujo_reader_parse_time(c)
      BY <2>3, ParseOthers
    <2>7. Tagged(c, <<Byte(UJO_TYPE_TIME), Byte(d.hour), Byte(d.minute), Byte(d.second)>>, p)
      BY <2>1
    <2>8. Parsed(ujo_reader_parse_time(c), c,
                 {<<"hour", d.hour>>, <<"minute", d.minute>>, <<"second", d.second>>}, p + 5)
      BY <2>2, <2>7, ReadsTime
    <2> QED  BY <2>3, <2>5, <2>6, <2>8
  <1>5. CASE CodedTimestamp(e, ws)
    <2>1. PICK d \in Timestamps :
             /\ e = Element(UJO_TYPE_TIMESTAMP,
                      {<<"year", d.year>>, <<"month", d.month>>, <<"day", d.day>>,
                       <<"hour", d.hour>>, <<"minute", d.minute>>, <<"second", d.second>>,
                       <<"millisecond", d.millisecond>>})
             /\ ws = <<Byte(UJO_TYPE_TIMESTAMP), Little(d.year, 2), Byte(d.month), Byte(d.day),
                       Byte(d.hour), Byte(d.minute), Byte(d.second), Little(d.millisecond, 2)>>
      BY <1>5 DEF CodedTimestamp
    <2>2. /\ d.year \in Nat /\ d.month \in Nat /\ d.day \in Nat /\ d.hour \in Nat
          /\ d.minute \in Nat /\ d.second \in Nat /\ d.millisecond \in Nat
      BY DEF Timestamps
    <2>3. /\ e.type = UJO_TYPE_TIMESTAMP
          /\ e.data = {<<"year", d.year>>, <<"month", d.month>>, <<"day", d.day>>,
                       <<"hour", d.hour>>, <<"minute", d.minute>>, <<"second", d.second>>,
                       <<"millisecond", d.millisecond>>}
      BY <1>0, <2>1
    <2>4. Len(ws) = 8
      BY <2>1
    <2>5. p + Len(ws) + 1 = p + 9
      BY <1>p, <2>4
    <2>6. Parse(c, mem) = ujo_reader_parse_timestamp(c)
      BY <2>3, ParseOthers
    <2>7. Tagged(c, <<Byte(UJO_TYPE_TIMESTAMP), Little(d.year, 2), Byte(d.month), Byte(d.day),
                       Byte(d.hour), Byte(d.minute), Byte(d.second), Little(d.millisecond, 2)>>, p)
      BY <2>1
    <2>8. Parsed(ujo_reader_parse_timestamp(c), c,
                 {<<"year", d.year>>, <<"month", d.month>>, <<"day", d.day>>,
                   <<"hour", d.hour>>, <<"minute", d.minute>>, <<"second", d.second>>,
                   <<"millisecond", d.millisecond>>}, p + 9)
      BY <2>2, <2>7, ReadsTimestamp
    <2> QED  BY <2>3, <2>5, <2>6, <2>8
  <1>6. CASE CodedSized(e, ws)
    <2>1. PICK t \in SizedTypes, sub \in Nat, n \in Nat, block \in Chunks :
             /\ t = UJO_TYPE_STRING => sub \in 0 .. 3
             /\ n < Mod32 => block.size = n * Unit(t, sub)
             /\ n = 0 => block.val = 0
             /\ block.order = Host \/ Unit(t, sub) = 1
             /\ e = Element(t, Stored(sub, n, block.val))
             /\ ws = Sized(t, sub, n, block)
      BY <1>6 DEF CodedSized
    <2>2. e.type = t /\ e.data = Stored(sub, n, block.val)
      BY <1>0, <2>1
    <2>3. n < Mod32
      <3>1. <<"n", n>> \in e.data
        BY <2>2 DEF Stored
      <3> QED  BY <3>1 DEF Counts
    <2>4. Filled(block, n, Unit(t, sub))
      BY <2>1, <2>3 DEF Filled
    <2>5. CASE t = UJO_TYPE_STRING
      <3>1. Parse(c, mem) = ujo_reader_parse_string(c, mem)
        BY <2>2, <2>5, ParseOthers
      <3>2. Parsed(ujo_reader_parse_string(c, mem), c, Stored(sub, n, block.val), p + Len(ws) + 1)
        BY <2>1, <2>3, <2>4, <2>5, ReadsSized
      <3> QED  BY <2>2, <3>1, <3>2
    <2>6. CASE t # UJO_TYPE_STRING
      <3>1. t = UJO_TYPE_BIN
        BY <2>6 DEF SizedTypes
      <3>2. Parse(c, mem) = ujo_reader_parse_binary(c, mem)
        BY <2>2, <3>1, ParseOthers
      <3>3. Parsed(ujo_reader_parse_binary(c, mem), c, Stored(sub, n, block.val), p + Len(ws) + 1)
        BY <2>1, <2>3, <2>4, <2>6, ReadsSized
      <3> QED  BY <2>2, <3>2, <3>3
    <2> QED  BY <2>5, <2>6
  <1>7. ~CodedNull(e, ws)
    BY DEF CodedNull
  <1> QED  BY <1>1, <1>2, <1>3, <1>4, <1>5, <1>6, <1>7 DEF Coded

\* Every encoding begins with the type of the element.
LEMMA CodedTagged ==
    ASSUME Nulls = {}, NEW e, NEW ws, Coded(e, ws)
    PROVE  ws \in Seq(Chunks) /\ Len(ws) >= 1 /\ ws[1] = Byte(e.type)
  <1>0. \A t, d : Element(t, d).type = t
    BY DEF Element
  <1>s. ws \in Seq(Chunks)
    BY CodedFits DEF Fits
  <1>1. CASE CodedTag(e, ws)
    BY <1>0, <1>s, <1>1 DEF CodedTag
  <1>2. CASE CodedScalar(e, ws)
    BY <1>0, <1>s, <1>2 DEF CodedScalar
  <1>3. CASE CodedDate(e, ws)
    BY <1>0, <1>s, <1>3 DEF CodedDate
  <1>4. CASE CodedTime(e, ws)
    BY <1>0, <1>s, <1>4 DEF CodedTime
  <1>5. CASE CodedTimestamp(e, ws)
    BY <1>0, <1>s, <1>5 DEF CodedTimestamp
  <1>6. CASE CodedSized(e, ws)
    <2>1. PICK t \in SizedTypes, sub \in Nat, n \in Nat, block \in Chunks :
             e = Element(t, Stored(sub, n, block.val)) /\ ws = Sized(t, sub, n, block)
      BY <1>6 DEF CodedSized
    <2>2. \A a, b, c : /\ (<<a, b, c>> \o <<>>)[1] = a /\ Len(<<a, b, c>> \o <<>>) = 3
                      /\ (<<a, b, c>> \o <<block>>)[1] = a /\ Len(<<a, b, c>> \o <<block>>) = 4
      OBVIOUS
    <2>3. ws[1] = Byte(t) /\ Len(ws) \in {3, 4}
      BY <2>1, <2>2 DEF Block, Sized
    <2>4. e.type = t
      BY <1>0, <2>1
    <2> QED  BY <1>s, <2>3, <2>4
  <1>7. ~CodedNull(e, ws)
    BY DEF CodedNull
  <1> QED  BY <1>1, <1>2, <1>3, <1>4, <1>5, <1>6, <1>7 DEF Coded

\* A type is one octet.
LEMMA OctetIs == \A k \in Tags : k % 256 = k
  BY DEF Tags

\* The type is read, or the file ends before it.
LEMMA ReadsTag ==
    ASSUME input \in Seq(Chunks), wire \in Seq(Chunks), Given,
           NEW c \in Scans(HeaderNames), Steady(c), NEW ws \in Seq(Chunks), Len(ws) >= 1,
           NEW k \in Tags, ws[1] = Byte(k),
           NEW p \in Nat, p # 0, OnWire(ws, p), c.pos = p + 1
    PROVE  LET t == ReadType(c)
           IN  /\ t.doc = c.doc
               /\ \/ Tagged(t, ws, p) /\ t.type = k
                  \/ Broken(t)
  <1> DEFINE b == [c EXCEPT !.data = {}]
             fields == <<Field("tag", 1)>>
             g == Get(b, fields)
             t == ReadType(c)
  <1>1. b \in Scans(HeaderNames) /\ Steady(b) /\ b.pos = p + 1 /\ b.data = {} /\ b.doc = c.doc
    BY DEF Scans, Progress, Steady, InStep
  <1>2. t = IF Going(g) THEN [g EXCEPT !.type = Member(g, "tag") % 256, !.data = {}] ELSE g
    <2>1. c.pos # 1
      OBVIOUS
    <2>2. g = Get([c EXCEPT !.data = {}], <<Field("tag", 1)>>)
      OBVIOUS
    <2> HIDE DEF g
    <2> QED  BY <2>1, <2>2 DEF ReadType
  <1>3. Len(fields) = 1 /\ fields[1] = Field("tag", 1)
    OBVIOUS
  <1>4. /\ Field("tag", 1).name = "tag" /\ Field("tag", 1).size = 1
        /\ Byte(k).size = 1 /\ Decode(Byte(k), Field("tag", 1)) = k /\ "tag" \in HeaderNames
    BY DEF Field, Byte, Little, Decode, HeaderNames
  <1>5. \A i : i \in 1 .. 1 <=> i = 1
    OBVIOUS
  <1> HIDE DEF b, fields, t
  <1>6. Told(ws, 0, fields) = {<<"tag", k>>} /\ Measured(fields, HeaderNames, ws, 0)
    <2>1. 0 + 1 = 1
      OBVIOUS
    <2> QED  BY <1>3, <1>4, <1>5, <2>1 DEF Told, Measured
  <1>7. Len(fields) \in Nat /\ 0 + Len(fields) <= Len(ws) /\ b.pos = p + 0 + 1 /\ b.pos + Len(fields) = p + 2
    BY <1>1, <1>3
  <1>8. /\ g \in Scans(HeaderNames) /\ g.doc = c.doc
        /\ \/ /\ Steady(g) /\ g.pos = p + 2
              /\ g.data = {<<"tag", k>>}
           \/ Broken(g)
    <2>1. Len(ws) \in Nat
      OBVIOUS
    <2>2. /\ g \in Scans(HeaderNames) /\ g.doc = b.doc
          /\ \/ /\ Steady(g) /\ g.pos = b.pos + Len(fields)
                /\ g.data = b.data \cup Told(ws, 0, fields)
             \/ Broken(g)
      <3> DEFINE o == 0
      <3>1. /\ o \in Nat /\ b.pos = p + o + 1 /\ o + Len(fields) <= Len(ws)
            /\ Measured(fields, HeaderNames, ws, o)
        BY <1>6, <1>7
      <3> HIDE DEF o
      <3>2. /\ g \in Scans(HeaderNames) /\ g.doc = b.doc
            /\ \/ /\ Steady(g) /\ g.pos = b.pos + Len(fields)
                  /\ g.data = b.data \cup Told(ws, o, fields)
               \/ Broken(g)
        BY <1>1, <1>7, <2>1, <3>1, GetReads, ZenonT(60)
      <3> QED  BY <3>2 DEF o
    <2> HIDE DEF g
    <2> QED  BY <1>1, <1>6, <1>7, <2>2
  <1> HIDE DEF g
  <1>9. CASE Broken(g)
    <2>1. t = g
      BY <1>2, <1>9, BrokenStops
    <2> QED  BY <1>8, <1>9, <2>1 DEF t
  <1>10. CASE ~Broken(g)
    <2>1. Steady(g) /\ g.pos = p + 2 /\ g.data = {<<"tag", k>>}
      BY <1>8, <1>10
    <2>2. Member(g, "tag") = k
      BY <2>1, MemberIs
    <2>3. k % 256 = k
      BY OctetIs
    <2>4. t = [g EXCEPT !.type = k, !.data = {}]
      BY <1>2, <2>1, <2>2, <2>3, SteadyGoes
    <2>5. /\ t \in Scans(Members) /\ Steady(t) /\ t.data = {} /\ t.pos = p + 2
          /\ t.type = k /\ t.doc = c.doc
      BY <1>8, <2>1, <2>4 DEF Scans, Progress, Steady, InStep
    <2>6. Tagged(t, ws, p)
      BY <2>5 DEF Tagged
    <2> QED  BY <2>5, <2>6 DEF t
  <1> QED  BY <1>9, <1>10

\* The switch, type by type.
LEMMA DispatchForms ==
    ASSUME NEW c, NEW grow, NEW mem
    PROVE  LET d == Dispatch(c, grow, mem)
           IN  /\ c.type = UJO_TYPE_LIST => d = ujo_reader_open_list(c, grow)
               /\ c.type = UJO_TYPE_MAP => d = ujo_reader_open_map(c, grow)
               /\ c.type = UJO_TYPE_TABLE => d = ujo_reader_open_table(c, grow)
               /\ c.type = UJO_TERMINATOR =>
                    d = IF c.doc.cur.state = "TABLE_COLUMNS"
                        THEN [c EXCEPT !.doc.cur.state = "TABLE_VALUES"]
                        ELSE ujo_reader_close_container(c, grow)
               /\ c.type \in AtomicTypes => d = Found(Parse(c, mem), grow)
               /\ c.type \notin AtomicTypes \cup ContainerTypes \cup {UJO_TERMINATOR} =>
                    d = Fail(c, UJO_ERR_INVALID_DATA)
  <1> DEFINE rows == [c EXCEPT !.doc.cur.state = "TABLE_VALUES"]
             shut == ujo_reader_close_container(c, grow)
             ended == IF c.doc.cur.state = "TABLE_COLUMNS" THEN rows ELSE shut
  <1> HIDE DEF rows, shut
  <1> QED  BY DEF Dispatch, rows, UJO_TYPE_LIST, UJO_TYPE_MAP, UJO_TYPE_TABLE, UJO_TERMINATOR,
           AtomicTypes, ContainerTypes, UJO_TYPE_FLOAT64, UJO_TYPE_TIMESTAMP

\* The reader takes the element in, and its machine follows the writer's; or it
\* breaks off and its machine is where it was (the switch of ujo_reader_get_next).
LEMMA DispatchFollows ==
    ASSUME Host = RHost, Nulls = {}, NEW e, NEW ws, Coded(e, ws), Counts(e),
           NEW c, NEW p, Tagged(c, ws, p), c.type = e.type,
           NEW m \in Machines, NEW x \in Machines, Moves(e, m, x), Same(m, c.doc), Nested(m),
           ~x.lost, NEW grow \in BOOLEAN, NEW mem \in BOOLEAN,
           ~Dispatch(c, grow, mem).doc.lost
    PROVE  LET d == Dispatch(c, grow, mem)
           IN  \/ /\ Steady(d) /\ d.type = e.type /\ d.data = e.data
                  /\ d.pos = p + Len(ws) + 1 /\ Same(x, d.doc)
               \/ Broken(d) /\ d.doc = c.doc
  <1> DEFINE d == Dispatch(c, grow, mem)
             f == Follow(e.type, c.doc, grow)
             q == p + Len(ws) + 1
  <1>1. c \in Scans(Members) /\ Steady(c) /\ c.data = {} /\ c.pos = p + 2 /\ p \in Nat
    BY DEF Tagged
  <1>2. c.doc \in Machines
    BY <1>1 DEF Scans, Progress
  <1>3. ~f.lost => Same(x, f)
    BY <1>2, MovesSame
  <1>4. CASE e.type \in AtomicTypes
    <2> DEFINE r == Parse(c, mem)
    <2>1. Parsed(r, c, e.data, q)
      BY <1>4, ParseReads
    <2>2. d = Found(r, grow)
      BY <1>4, DispatchForms
    <2>3. r \in Scans(Members)
      BY <1>1, <1>4, ParseIs DEF Tagged
    <2> HIDE DEF r, q
    <2>4. CASE Broken(r)
      <3>1. d = r
        BY <2>2, <2>4, BrokenStops DEF Found
      <3> QED  BY <2>1, <2>4, <3>1 DEF Parsed
    <2>5. CASE ~Broken(r)
      <3>1. Steady(r) /\ r.data = e.data /\ r.pos = q /\ r.type = e.type /\ r.doc = c.doc
        BY <2>1, <2>5 DEF Parsed
      <3>2. f = ujo_state_switch("ATOMIC_FOUND", c.doc, grow)
        BY <1>4 DEF Follow
      <3> HIDE DEF f
      <3>3. d = [r EXCEPT !.doc = f]
        BY <2>2, <3>1, <3>2, SteadyGoes DEF Found
      <3>4. Steady(d) /\ d.data = e.data /\ d.pos = q /\ d.type = e.type /\ d.doc = f
        <4> HIDE DEF d
        <4> QED  BY <2>3, <3>1, <3>3 DEF Scans, Progress, Steady, InStep
      <3>5. ~f.lost
        BY <3>4
      <3>6. Same(x, d.doc)
        <4> HIDE DEF d
        <4> QED  BY <1>3, <3>4, <3>5
      <3> QED  BY <3>4, <3>6 DEF q
    <2> QED  BY <2>4, <2>5
  <1>5. CASE e.type \notin AtomicTypes
    <2>1. CodedTag(e, ws) /\ e.type \in ContainerTypes \cup {UJO_TERMINATOR}
      BY <1>5, CodedType
    <2>2. e.data = {} /\ Len(ws) = 1
      BY <2>1 DEF CodedTag, Element
    <2>3. c.pos = q
      BY <1>1, <2>2
    <2>4. d = [c EXCEPT !.doc = f]
      <3>1. CASE e.type = UJO_TYPE_LIST
        BY <1>5, <3>1, DispatchForms DEF Follow, ujo_reader_open_list
      <3>2. CASE e.type = UJO_TYPE_MAP
        BY <1>5, <3>2, TypeNumbers, DispatchForms DEF Follow, ujo_reader_open_map
      <3>3. CASE e.type = UJO_TYPE_TABLE
        BY <1>5, <3>3, TypeNumbers, DispatchForms DEF Follow, ujo_reader_open_table
      <3>4. CASE e.type = UJO_TERMINATOR
        <4>1. /\ UJO_TERMINATOR # UJO_TYPE_LIST /\ UJO_TERMINATOR # UJO_TYPE_MAP
              /\ UJO_TERMINATOR # UJO_TYPE_TABLE
          BY DEF UJO_TERMINATOR, UJO_TYPE_LIST, UJO_TYPE_MAP, UJO_TYPE_TABLE
        <4>2. CASE c.doc.cur.state = "TABLE_COLUMNS"
          <5>1. f = [c.doc EXCEPT !.cur.state = "TABLE_VALUES"]
            BY <1>5, <3>4, <4>1, <4>2 DEF Follow
          <5>2. d = [c EXCEPT !.doc.cur.state = "TABLE_VALUES"]
            BY <3>4, <4>2, DispatchForms
          <5>3. [c EXCEPT !.doc.cur.state = "TABLE_VALUES"] =
                [c EXCEPT !.doc = [c.doc EXCEPT !.cur.state = "TABLE_VALUES"]]
            BY <1>1 DEF Scans, Progress
          <5> QED  BY <5>1, <5>2, <5>3
        <4>3. CASE c.doc.cur.state # "TABLE_COLUMNS"
          <5>1. f = ujo_state_switch("CONTAINER_CLOSED", ujo_state_prev(c.doc), grow)
            BY <1>5, <3>4, <4>1, <4>3 DEF Follow
          <5>2. d = ujo_reader_close_container(c, grow)
            BY <3>4, <4>3, DispatchForms
          <5> HIDE DEF f, d
          <5>3. ujo_state_prev(c.doc).cur.state # "NULL"
            BY <1>2, <3>4, <4>3, MovesOutOf
          <5> QED  BY <5>1, <5>2, <5>3 DEF ujo_reader_close_container
        <4> QED  BY <4>2, <4>3
      <3> QED  BY <2>1, <3>1, <3>2, <3>3, <3>4 DEF ContainerTypes
    <2> HIDE DEF f, q
    <2>5. Steady(d) /\ d.type = e.type /\ d.data = e.data /\ d.pos = q /\ d.doc = f
      <3> HIDE DEF d
      <3> QED  BY <1>1, <2>2, <2>3, <2>4 DEF Scans, Progress, Steady, InStep
    <2>6. Same(x, d.doc)
      BY <1>3, <2>5
    <2> QED  BY <2>5, <2>6 DEF q
  <1> QED  BY <1>4, <1>5

-----------------------------------------------------------------------------
(* A call of ujo_reader_get_next at the border of two elements.             *)

\* The reader has what is left of a document with the borders b and machines ms.
Lined(b, ms) ==
    /\ input \in Seq(Chunks) /\ wire \in Seq(Chunks) /\ acked \in Seq(Elements)
    /\ Given /\ Countable /\ Script(b, ms, wire, acked, doc)

\* What is behind the k-th border.
LEMMA Behind ==
    ASSUME Nulls = {}, NEW b, NEW ms, Lined(b, ms), NEW k \in 0 .. Len(acked), k < Len(acked)
    PROVE  \E ws \in Seq(Chunks) :
             /\ Coded(acked[k + 1], ws) /\ Counts(acked[k + 1]) /\ acked[k + 1] \in Elements
             /\ Len(ws) >= 1 /\ ws[1] = Byte(acked[k + 1].type)
             /\ acked[k + 1].type \in AtomicTypes \cup ContainerTypes \cup {UJO_TERMINATOR}
             /\ acked[k + 1].type \in Tags
             /\ b[k] \in Nat /\ b[k] >= 3 /\ b[k + 1] = b[k] + Len(ws) /\ OnWire(ws, b[k])
             /\ ms[k] \in Machines /\ ms[k + 1] \in Machines /\ Nested(ms[k]) /\ ~ms[k + 1].lost
             /\ Moves(acked[k + 1], ms[k], ms[k + 1])
  <1>1. Script(b, ms, wire, acked, doc) /\ Len(acked) \in Nat /\ acked \in Seq(Elements)
    BY DEF Lined
  <1>2. k + 1 \in 1 .. Len(acked) /\ k + 1 \in 0 .. Len(acked) /\ (k + 1) - 1 = k
    BY <1>1
  <1>3. Spans(wire, acked[k + 1], b[k], b[k + 1]) /\ Moves(acked[k + 1], ms[k], ms[k + 1])
    <2>1. /\ Spans(wire, acked[k + 1], b[(k + 1) - 1], b[k + 1])
          /\ Moves(acked[k + 1], ms[(k + 1) - 1], ms[k + 1])
      BY <1>1, <1>2 DEF Script
    <2> QED  BY <1>2, <2>1
  <1>4. PICK ws \in Seq(Chunks) : /\ Coded(acked[k + 1], ws) /\ b[k + 1] = b[k] + Len(ws)
                                  /\ \A j \in 1 .. Len(ws) : wire[b[k] + j] = ws[j]
    BY <1>3 DEF Spans
  <1>5. /\ b[k] \in Nat /\ b[k] >= 3 /\ b[k + 1] \in Nat /\ b[k + 1] <= Len(wire)
        /\ ms[k] \in Machines /\ ms[k + 1] \in Machines /\ Nested(ms[k]) /\ ~ms[k + 1].lost
    BY <1>1, <1>2 DEF Script
  <1>6. OnWire(ws, b[k])
    BY <1>4, <1>5 DEF OnWire
  <1>7. acked[k + 1] \in Elements
    BY <1>1, <1>2
  <1>8. Counts(acked[k + 1])
    BY <1>2 DEF Lined, Countable, Counts
  <1>9. Len(ws) >= 1 /\ ws[1] = Byte(acked[k + 1].type)
    BY <1>4, CodedTagged
  <1>10. /\ acked[k + 1].type \in AtomicTypes \cup ContainerTypes \cup {UJO_TERMINATOR}
         /\ acked[k + 1].type \in Tags
    BY <1>4, <1>7, CodedType DEF Elements, Tags
  <1> QED  BY <1>3, <1>4, <1>5, <1>6, <1>7, <1>8, <1>9, <1>10

\* The element behind the border is found, or the file ends within it.
LEMMA BorderRead ==
    ASSUME Host = RHost, Nulls = {}, NEW b, NEW ms, Lined(b, ms),
           NEW k \in 0 .. Len(acked), k < Len(acked),
           NEW c \in Scans(HeaderNames), Steady(c), c.pos = b[k] + 1, Same(ms[k], c.doc),
           NEW grow \in BOOLEAN, NEW mem \in BOOLEAN, ~Outcome(c, grow, mem).doc.lost
    PROVE  LET d == Outcome(c, grow, mem)
           IN  \/ /\ Steady(d) /\ ElementOf(d) = acked[k + 1]
                  /\ d.pos = b[k + 1] + 1 /\ Same(ms[k + 1], d.doc)
               \/ Broken(d) /\ d.doc = c.doc
  <1> DEFINE e == acked[k + 1]
             p == b[k]
             m == ms[k]
             x == ms[k + 1]
             t == ReadType(c)
             d == Outcome(c, grow, mem)
  <1>1. PICK ws \in Seq(Chunks) :
             /\ Coded(e, ws) /\ Counts(e) /\ e \in Elements
             /\ Len(ws) >= 1 /\ ws[1] = Byte(e.type) /\ e.type \in Tags
             /\ p \in Nat /\ p >= 3 /\ b[k + 1] = p + Len(ws) /\ OnWire(ws, p)
             /\ m \in Machines /\ x \in Machines /\ Nested(m) /\ ~x.lost /\ Moves(e, m, x)
    BY Behind
  <1>2. input \in Seq(Chunks) /\ wire \in Seq(Chunks) /\ Given
    BY DEF Lined
  <1>3. c.pos = p + 1 /\ Same(m, c.doc) /\ p # 0
    BY <1>1
  <1> HIDE DEF e, p, m, x
  <1>4. t.doc = c.doc /\ ((Tagged(t, ws, p) /\ t.type = e.type) \/ Broken(t))
    BY <1>1, <1>2, <1>3, ReadsTag
  <1>5. CASE Broken(t)
    <2>1. d = t
      BY <1>5, BrokenStops DEF Outcome
    <2> QED  BY <1>4, <1>5, <2>1
  <1>6. CASE Tagged(t, ws, p) /\ t.type = e.type
    <2>1. d = Dispatch(t, grow, mem)
      BY <1>6, SteadyGoes DEF Outcome, Tagged
    <2> HIDE DEF t
    <2>2. \/ /\ Steady(d) /\ d.type = e.type /\ d.data = e.data
             /\ d.pos = p + Len(ws) + 1 /\ Same(x, d.doc)
          \/ Broken(d) /\ d.doc = t.doc
      BY <1>1, <1>3, <1>4, <1>6, <2>1, DispatchFollows
    <2> HIDE DEF d
    <2>3. d.type = e.type /\ d.data = e.data => ElementOf(d) = e
      BY <1>1 DEF ElementOf, Elements
    <2>4. p + Len(ws) + 1 = b[k + 1] + 1
      BY <1>1
    <2> QED  BY <1>4, <2>2, <2>3, <2>4 DEF d, e, x
  <1> QED  BY <1>4, <1>5, <1>6

-----------------------------------------------------------------------------
(* The start of a document, and calls elsewhere than at a border.           *)

\* The codes of a failed read are not those of success, nor of one another.
LEMMA CodesDiffer ==
    /\ UJO_ERR_INVALID_DATA # UJO_SUCCESS /\ UJO_ERR_INVALID_DATA # UJO_ERR_FILE
    /\ UJO_ERR_FILE # UJO_SUCCESS /\ UJO_ERR_CALLBACK # UJO_ERR_FILE
    /\ UJO_ERR_FILE \in UjoErrors
  BY DEF UJO_ERR_INVALID_DATA, UJO_SUCCESS, UJO_ERR_FILE, UJO_ERR_CALLBACK, UjoErrors

\* One member of a header, or a tag.
LEMMA ReadsField ==
    ASSUME input \in Seq(Chunks), wire \in Seq(Chunks), Given,
           NEW c \in Scans(HeaderNames), Steady(c), NEW n \in HeaderNames,
           NEW x \in Nat, NEW k \in Nat, k >= 1,
           NEW ws, Len(ws) \in Nat, NEW p \in Nat, OnWire(ws, p),
           NEW o \in Nat, c.pos = p + o + 1, o + 1 <= Len(ws), ws[o + 1] = Little(x, k)
    PROVE  LET d == Get(c, <<Field(n, k)>>)
           IN  /\ d \in Scans(HeaderNames) /\ d.doc = c.doc
               /\ \/ Steady(d) /\ d.pos = c.pos + 1 /\ d.data = c.data \cup {<<n, x>>}
                  \/ Broken(d)
  <1> DEFINE fields == <<Field(n, k)>>
             d == Get(c, fields)
  <1>1. Len(fields) = 1 /\ fields[1] = Field(n, k) /\ Len(fields) \in Nat
    OBVIOUS
  <1>2. /\ Field(n, k).name = n /\ Field(n, k).size = k
        /\ Little(x, k).size = k /\ Decode(Little(x, k), Field(n, k)) = x
    BY DEF Field, Little, Decode
  <1>3. \A i : i \in 1 .. 1 <=> i = 1
    OBVIOUS
  <1> HIDE DEF fields
  <1>4. Told(ws, o, fields) = {<<n, x>>} /\ Measured(fields, HeaderNames, ws, o)
    BY <1>1, <1>2, <1>3 DEF Told, Measured
  <1>5. o + Len(fields) <= Len(ws)
    BY <1>1
  <1>6. /\ d \in Scans(HeaderNames) /\ d.doc = c.doc
        /\ \/ /\ Steady(d) /\ d.pos = c.pos + Len(fields)
              /\ d.data = c.data \cup Told(ws, o, fields)
           \/ Broken(d)
    BY <1>1, <1>4, <1>5, GetReads, ZenonT(60)
  <1> HIDE DEF d
  <1> QED  BY <1>1, <1>4, <1>6 DEF d, fields

\* A field that is not there, with too few octets left.
LEMMA ReadsShort ==
    ASSUME input \in Seq(Chunks), NEW c \in Scans(HeaderNames), Steady(c),
           NEW n \in HeaderNames, NEW k \in Nat, Remaining(c.pos) < k,
           c.pos <= Len(input) => input[c.pos].size # k
    PROVE  LET d == Get(c, <<Field(n, k)>>)
           IN  /\ d.doc = c.doc /\ ~Going(d)
               /\ rtype = "FILE" => Broken(d) /\ d.pos = Len(input) + 1
               /\ rtype # "FILE" => d.health = "overrun" /\ d.pos = c.pos
  <1> DEFINE f == Field(n, k)
             fields == <<f>>
             d == Get(c, fields)
             short == [c EXCEPT !.code = UJO_ERR_FILE, !.pos = Len(input) + 1, !.off = 0]
             over == [c EXCEPT !.health = "overrun"]
  <1>1. Len(fields) = 1 /\ fields[1] = f /\ f.size = k
    BY DEF Field
  <1>2. c.pos \in 1 .. Len(input) + 1 /\ c.off = 0 /\ Going(c)
    BY SteadyGoes DEF Scans, Progress, Steady, InStep
  <1>3. Remaining(c.pos) \in Nat
    BY <1>2, RemainingIs
  <1>4. Bytes(fields) = k
    <2> DEFINE F == {f}
    <2>1. f \in F /\ \A x \in F : x.size \in Nat
      BY <1>1
    <2> HIDE DEF f, F
    <2>2. Bytes(<<f>>) = f.size
      BY <2>1, BytesOne
    <2> QED  BY <1>1, <2>2
  <1> HIDE DEF fields, f
  <1>5. ~Fitting(c, fields)
    <2>1. 1 \in 1 .. Len(fields) /\ c.pos + 1 - 1 = c.pos
      BY <1>1, <1>2
    <2>2. Fitting(c, fields) => c.pos <= Len(input) /\ input[c.pos].size = k
      BY <1>1, <2>1 DEF Fitting
    <2> QED  BY <2>2
  <1>6. ~(c.off + Bytes(fields) <= Remaining(c.pos))
    BY <1>2, <1>3, <1>4
  <1>7. d = IF rtype = "FILE" THEN short ELSE over
    BY <1>2, <1>5, <1>6 DEF Get
  <1>8. /\ short.code = UJO_ERR_FILE /\ short.pos = Len(input) + 1 /\ short.off = 0
        /\ short.doc = c.doc /\ short.health = "ok"
        /\ over.health = "overrun" /\ over.doc = c.doc /\ over.pos = c.pos
    BY DEF Scans, Progress, Steady, InStep
  <1> HIDE DEF d, short, over
  <1>9. CASE rtype = "FILE"
    BY <1>7, <1>8, <1>9, CodesDiffer DEF Going, Broken, d, fields, f
  <1>10. CASE rtype # "FILE"
    BY <1>7, <1>8, <1>10 DEF Going, d, fields, f
  <1> QED  BY <1>9, <1>10

\* What is left from the first chunk on holds that.
LEMMA FirstCounts ==
    ASSUME input \in Seq(Chunks), input # <<>>
    PROVE  Remaining(1) \in Nat /\ input[1].size \in Nat /\ Remaining(1) >= input[1].size
  <1> DEFINE sizes == [i \in 1 .. Len(input) |-> input[i].size]
  <1>1. Len(input) \in Nat /\ 1 \in 1 .. Len(input) /\ \A i \in 1 .. Len(input) : input[i].size \in Nat
    BY ChunkAt
  <1>2. sizes \in Seq(Nat) /\ Len(sizes) = Len(input) /\ sizes[1] = input[1].size
    BY <1>1
  <1>3. SubSeq(input, 1, Len(input)) = input
    OBVIOUS
  <1>4. Remaining(1) = Sum(sizes)
    BY <1>3 DEF Remaining, Bytes
  <1> HIDE DEF sizes
  <1>5. PICK f : Partial(f, sizes)
    BY <1>2, PartialExists
  <1>6. Sum(sizes) = f[Len(sizes)]
    BY <1>2, <1>5, SumIs
  <1>7. 1 \in 0 .. Len(sizes) /\ 1 \in 1 .. Len(sizes) /\ 1 - 1 = 0
    BY <1>1, <1>2
  <1>8. f[1] <= f[Len(sizes)] /\ f[1] \in Nat /\ f[Len(sizes)] \in Nat
    BY <1>2, <1>5, <1>7, PartialRises
  <1>9. f[1] = f[0] + sizes[1] /\ f[0] = 0
    BY <1>5, <1>7 DEF Partial
  <1> QED  BY <1>1, <1>2, <1>4, <1>6, <1>8, <1>9

\* Once a read has failed the rest of the header is not read.
LEMMA HeaderStops ==
    ASSUME NEW c, ~Going(Check(ReadMagic(c), "magic", UJO_MAGIC))
    PROVE  ujo_reader_parse_header(c) = Check(ReadMagic(c), "magic", UJO_MAGIC)
  BY DEF ujo_reader_parse_header, Get, Check

\* Nothing but the start of a document passes for one: the octet at a border is
\* another, and at the end there is none (ujo_reader_parse_header).
LEMMA HeaderAstray ==
    ASSUME input \in Seq(Chunks), NEW c \in Scans(HeaderNames), Steady(c),
           \/ c.pos = Len(input) + 1
           \/ /\ c.pos <= Len(input) /\ input[c.pos].size = 1
              /\ input[c.pos].val % 256 # UJO_MAGIC
    PROVE  LET d == ujo_reader_parse_header(c)
           IN  /\ ~Going(d) /\ d.doc = c.doc
               /\ Broken(d) \/ (rtype # "FILE" /\ d.health = "overrun")
               /\ c.pos = Len(input) + 1 => d.pos = Len(input) + 1
  <1> DEFINE r == ReadMagic(c)
             d == ujo_reader_parse_header(c)
  <1>0. c.pos \in 1 .. Len(input) + 1 /\ InStep(c)
    BY DEF Scans, Progress, Steady
  <1>1. CASE Remaining(c.pos) >= 4
    <2>1. c.pos # Len(input) + 1
      BY <1>0, <1>1, RemainingIs
    <2>2. r = [c EXCEPT !.off = 4, !.data = {<<"magic", input[c.pos].val % 256>>}]
      <3>1. ~(Remaining(c.pos) < 4) /\ input[c.pos].size # 4
        BY <1>0, <1>1, <2>1, RemainingIs
      <3> QED  BY <1>0, <3>1 DEF ReadMagic
    <2> HIDE DEF r
    <2>3. /\ Going(r) /\ r.data = {<<"magic", input[c.pos].val % 256>>} /\ r.doc = c.doc
          /\ r.health = "ok" /\ \A x : [r EXCEPT !.code = x].code = x
          /\ \A x : [r EXCEPT !.code = x].health = "ok" /\ [r EXCEPT !.code = x].doc = c.doc
      BY <2>2 DEF Scans, Progress, Going, Steady, InStep
    <2>4. Member(r, "magic") = input[c.pos].val % 256
      <3> DEFINE v == input[c.pos].val % 256
      <3> HIDE DEF v
      <3>1. r.data = {<<"magic", v>>}
        BY <2>3 DEF v
      <3>2. Member(r, "magic") = v
        BY <3>1, MemberIs
      <3> QED  BY <3>2 DEF v
    <2>5. Check(r, "magic", UJO_MAGIC) = [r EXCEPT !.code = UJO_ERR_INVALID_DATA]
      BY <2>1, <2>3, <2>4 DEF Check, Fail
    <2> DEFINE s == Check(r, "magic", UJO_MAGIC)
    <2>6. s.code = UJO_ERR_INVALID_DATA /\ s.health = "ok" /\ s.doc = c.doc
      BY <2>3, <2>5
    <2>7. ~Going(s) /\ Broken(s)
      BY <2>6, CodesDiffer DEF Going, Broken
    <2>8. d = s
      BY <2>7, HeaderStops DEF r
    <2> QED  BY <2>1, <2>6, <2>7, <2>8
  <1>2. CASE ~(Remaining(c.pos) >= 4)
    <2>1. Remaining(c.pos) < 4
      BY <1>0, <1>2, RemainingIs
    <2>2. r = Get(c, <<Field("magic", 4)>>)
      BY <2>1 DEF ReadMagic
    <2>3. /\ r.doc = c.doc /\ ~Going(r)
          /\ rtype = "FILE" => Broken(r) /\ r.pos = Len(input) + 1
          /\ rtype # "FILE" => r.health = "overrun" /\ r.pos = c.pos
      <3>1. "magic" \in HeaderNames /\ 4 \in Nat
        BY DEF HeaderNames
      <3>2. c.pos <= Len(input) => input[c.pos].size # 4
        BY <1>0
      <3> HIDE DEF r
      <3> QED  BY <2>1, <2>2, <3>1, <3>2, ReadsShort
    <2> HIDE DEF r
    <2>4. Check(r, "magic", UJO_MAGIC) = r
      BY <2>3 DEF Check
    <2>5. d = r
      BY <2>3, <2>4, HeaderStops DEF r
    <2> HIDE DEF d
    <2> QED  BY <2>3, <2>5 DEF d
  <1> QED  BY <1>1, <1>2

\* At the end of a file there is no element.
LEMMA EndRead ==
    ASSUME input \in Seq(Chunks), rtype = "FILE", NEW c \in Scans(HeaderNames), Steady(c),
           c.pos = Len(input) + 1, NEW grow, NEW mem
    PROVE  LET d == Outcome(c, grow, mem)
           IN  Broken(d) /\ d.doc = c.doc
  <1> DEFINE b == [c EXCEPT !.data = {}]
             g == Get(b, <<Field("tag", 1)>>)
  <1>1. b \in Scans(HeaderNames) /\ Steady(b) /\ b.pos = Len(input) + 1 /\ b.doc = c.doc
    BY DEF Scans, Progress, Steady, InStep
  <1>2. ~(c.pos = 1 /\ Remaining(1) > 0)
    <2>1. Len(input) + 1 \in 1 .. Len(input) + 1
      OBVIOUS
    <2>2. c.pos = 1 => Remaining(1) = 0
      BY <2>1, RemainingIs
    <2> QED  BY <2>2
  <1>3. Remaining(b.pos) < 1 /\ ~(b.pos <= Len(input)) /\ "tag" \in HeaderNames
    <2>1. Len(input) + 1 \in 1 .. Len(input) + 1
      OBVIOUS
    <2> QED  BY <1>1, <2>1, RemainingIs DEF HeaderNames
  <1>4. g.doc = c.doc /\ ~Going(g) /\ Broken(g)
    <2> HIDE DEF b
    <2> QED  BY <1>1, <1>3, ReadsShort
  <1>5. ReadType(c) = g
    <2>1. ReadType(c) = IF Going(g) THEN [g EXCEPT !.type = Member(g, "tag") % 256, !.data = {}] ELSE g
      <3> HIDE DEF g
      <3> QED  BY <1>2 DEF ReadType, g
    <2> HIDE DEF g
    <2> QED  BY <1>4, <2>1
  <1> QED  BY <1>4, <1>5 DEF Outcome

\* The magic code is no type (get_next before get_first).
LEMMA StartRead ==
    ASSUME input \in Seq(Chunks), input # <<>>, input[1].val = UJO_MAGIC, input[1].size >= 1,
           NEW c \in Scans(HeaderNames), Steady(c), c.pos = 1, NEW grow, NEW mem
    PROVE  LET d == Outcome(c, grow, mem)
           IN  Broken(d) /\ d.doc = c.doc
  <1> DEFINE tag == {<<"tag", UJO_MAGIC>>}
             g == [c EXCEPT !.off = 1, !.data = tag]
             y == [g EXCEPT !.type = UJO_MAGIC, !.data = {}]
             w == [y EXCEPT !.code = UJO_ERR_INVALID_DATA]
  <1>0. Remaining(1) > 0
    BY FirstCounts
  <1>1. c.code = UJO_SUCCESS /\ c.health = "ok" /\ c.off = 0 /\ InStep(c)
    BY DEF Steady, InStep
  <1> HIDE DEF tag
  <1>2. /\ g.code = UJO_SUCCESS /\ g.health = "ok" /\ g.data = tag
        /\ y.code = UJO_SUCCESS /\ y.health = "ok" /\ y.doc = c.doc /\ y.type = UJO_MAGIC
        /\ w.code = UJO_ERR_INVALID_DATA /\ w.health = "ok" /\ w.doc = c.doc
    BY <1>1 DEF Scans, Progress
  <1>3. ReadType(c) = IF Going(g) THEN [g EXCEPT !.type = Member(g, "tag") % 256, !.data = {}] ELSE g
    <2>1. g = [c EXCEPT !.off = 1, !.data = {<<"tag", input[1].val>>}]
      BY DEF tag
    <2> HIDE DEF g
    <2> QED  BY <1>0, <1>1, <2>1 DEF ReadType
  <1> HIDE DEF g
  <1>4. Member(g, "tag") = UJO_MAGIC
    <2>1. <<"tag", UJO_MAGIC>> \in g.data /\ \A m \in g.data : m = <<"tag", UJO_MAGIC>>
      BY <1>2 DEF tag
    <2> QED  BY <2>1, MemberIs
  <1>5. UJO_MAGIC % 256 = UJO_MAGIC
    BY DEF UJO_MAGIC
  <1>6. Going(g)
    BY <1>2 DEF Going
  <1>7. ReadType(c) = y
    BY <1>3, <1>4, <1>5, <1>6
  <1> HIDE DEF y
  <1>8. Going(y)
    BY <1>2 DEF Going
  <1>9. Dispatch(y, grow, mem) = Fail(y, UJO_ERR_INVALID_DATA)
    BY <1>2, TypeNumbers, DispatchForms
  <1>10. Outcome(c, grow, mem) = w
    BY <1>7, <1>8, <1>9 DEF Outcome, Fail
  <1> HIDE DEF w
  <1> QED  BY <1>2, <1>10, CodesDiffer DEF Broken

\* A scan that has stopped reads and compares nothing.
LEMMA StoppedStays ==
    ASSUME NEW c, ~Going(c)
    PROVE  /\ \A fields : Get(c, fields) = c
           /\ \A f, v : Check(c, f, v) = c
  BY DEF Get, Check

\* The header of the document is read, or the file ends within it.
LEMMA HeaderReads ==
    ASSUME input \in Seq(Chunks), wire \in Seq(Chunks), Given, input # <<>>,
           Len(wire) >= 3, \A j \in 1 .. 3 : wire[j] = Header[j],
           NEW c \in Scans(HeaderNames), Steady(c), c.pos = 1, c.data = {}
    PROVE  LET d == ujo_reader_parse_header(c)
           IN  d.doc = c.doc /\ ((Steady(d) /\ d.pos = 4) \/ Broken(d))
  <1> DEFINE m0 == ReadMagic(c)
             m1 == Check(m0, "magic", UJO_MAGIC)
             v0 == Get(m1, <<Field("version", 2)>>)
             v1 == Check(v0, "version", UJO_DATA_VERSION)
             d == Get(v1, <<Field("compression", 1)>>)
             ws == Header
             p == 0
  <1>1. d = ujo_reader_parse_header(c)
    BY DEF ujo_reader_parse_header
  <1>2. /\ Len(ws) = 3 /\ Len(ws) \in Nat /\ ws[1] = Little(UJO_MAGIC, 4)
        /\ ws[2] = Little(UJO_DATA_VERSION, 2) /\ ws[3] = Little(UJO_COMPRESS_NONE, 1)
    BY DEF Header, Byte
  <1>3. p \in Nat /\ OnWire(ws, p)
    <2>1. \A j \in 1 .. 3 : 0 + j = j
      OBVIOUS
    <2> QED  BY <1>2, <2>1 DEF OnWire
  <1>4. /\ UJO_MAGIC \in Nat /\ UJO_DATA_VERSION \in Nat /\ UJO_COMPRESS_NONE \in Nat
        /\ UJO_MAGIC % 256 = UJO_MAGIC
    BY DEF UJO_MAGIC, UJO_DATA_VERSION, UJO_COMPRESS_NONE
  <1>5. "magic" \in HeaderNames /\ "version" \in HeaderNames /\ "compression" \in HeaderNames
    BY DEF HeaderNames
  <1>6. Len(input) >= 1 /\ Len(input) \in Nat
    OBVIOUS
  <1> HIDE DEF ws
  <1>7. /\ m0 \in Scans(HeaderNames) /\ m0.doc = c.doc
        /\ ((Steady(m0) /\ m0.pos = 2 /\ m0.data = {<<"magic", UJO_MAGIC>>}) \/ Broken(m0))
    <2>1. CASE Remaining(c.pos) >= 4
      <3>1. input[1].val = UJO_MAGIC /\ input[1].size = 4
        <4>1. 1 \in 1 .. Len(input) /\ input[1].val = wire[1].val
          BY <1>6 DEF Given, Left
        <4>2. wire[1] = Little(UJO_MAGIC, 4)
          BY DEF Header
        <4>3. wire[1].val = UJO_MAGIC /\ wire[1].size = 4
          BY <4>2 DEF Little
        <4>4. input[1] = wire[1] \/ (1 = Len(input) /\ input[1].size < 4)
          BY <4>1, <4>3 DEF Given, Left
        <4>5. ASSUME 1 = Len(input), input[1].size < 4 PROVE FALSE
          <5>1. Remaining(Len(input)) = input[Len(input)].size
            BY <4>5, RemainingLast
          <5>2. Remaining(1) = input[1].size
            BY <4>5, <5>1
          <5>3. Remaining(1) >= 4
            BY <2>1
          <5>4. input[1].size \in Nat
            BY FirstCounts
          <5> QED  BY <4>5, <5>2, <5>3, <5>4
        <4>6. input[1] = wire[1]
          BY <4>4, <4>5
        <4> QED  BY <4>3, <4>6
      <3>2. m0 = [c EXCEPT !.pos = @ + 1, !.data = {<<"magic", input[c.pos].val % 256>>}]
        <4>1. ~(Remaining(c.pos) < 4) /\ InStep(c)
          BY <2>1, FirstCounts DEF Steady
        <4> QED  BY <3>1, <4>1 DEF ReadMagic
      <3>3. m0 = [c EXCEPT !.pos = 2, !.data = {<<"magic", UJO_MAGIC>>}]
        <4>1. c.pos + 1 = 2 /\ input[c.pos].val % 256 = UJO_MAGIC
          BY <1>4, <3>1
        <4> HIDE DEF m0
        <4> QED  BY <3>2, <4>1
      <3>4. {<<"magic", UJO_MAGIC>>} \in SUBSET (HeaderNames \X Nat) /\ 2 \in 1 .. Len(input) + 1
        BY <1>4, <1>5, <1>6
      <3> HIDE DEF m0
      <3>5. Remaining(2) \in Nat /\ c.off = 0
        BY <3>4, RemainingIs DEF Steady, InStep
      <3>6. /\ m0 \in Progress(HeaderNames) /\ m0.doc = c.doc /\ Steady(m0) /\ m0.pos = 2
            /\ m0.data = {<<"magic", UJO_MAGIC>>} /\ m0.off = 0
        BY <3>3, <3>4, <3>5 DEF Scans, Progress, Steady, InStep
      <3> QED  BY <3>5, <3>6 DEF Scans
    <2>2. CASE ~(Remaining(c.pos) >= 4)
      <3> DEFINE o == 0
                 k == 4
      <3>1. m0 = Get(c, <<Field("magic", k)>>)
        <4>1. Remaining(c.pos) < 4
          BY <2>2, FirstCounts
        <4> QED  BY <4>1 DEF ReadMagic
      <3>2. /\ o \in Nat /\ k \in Nat /\ k >= 1 /\ c.pos = p + o + 1 /\ o + 1 <= Len(ws)
            /\ ws[o + 1] = Little(UJO_MAGIC, k) /\ c.pos + 1 = 2
        BY <1>2
      <3> HIDE DEF o, k, m0, p
      <3>3. /\ m0 \in Scans(HeaderNames) /\ m0.doc = c.doc
            /\ \/ Steady(m0) /\ m0.pos = c.pos + 1 /\ m0.data = c.data \cup {<<"magic", UJO_MAGIC>>}
               \/ Broken(m0)
        <4>1. LET g == Get(c, <<Field("magic", k)>>)
              IN  /\ g \in Scans(HeaderNames) /\ g.doc = c.doc
                  /\ \/ Steady(g) /\ g.pos = c.pos + 1 /\ g.data = c.data \cup {<<"magic", UJO_MAGIC>>}
                     \/ Broken(g)
          BY <1>2, <1>3, <1>4, <1>5, <3>2, ReadsField
        <4> QED  BY <3>1, <4>1
      <3> QED  BY <3>2, <3>3
    <2> QED  BY <2>1, <2>2
  <1>8. CASE Broken(m0)
    <2> HIDE DEF m0
    <2>1. ~Going(m0)
      BY <1>8, BrokenStops
    <2>2. m1 = m0 /\ v0 = m0 /\ v1 = m0 /\ d = m0
      BY <2>1, StoppedStays
    <2> HIDE DEF m1, v0, v1, d
    <2> QED  BY <1>1, <1>7, <1>8, <2>2
  <1>9. CASE ~Broken(m0)
    <2> HIDE DEF m0
    <2>1. Steady(m0) /\ m0.pos = 2 /\ m0.data = {<<"magic", UJO_MAGIC>>}
      BY <1>7, <1>9
    <2>2. m1 = m0
      <3>1. Member(m0, "magic") = UJO_MAGIC
        <4>1. <<"magic", UJO_MAGIC>> \in m0.data /\ \A m \in m0.data : m = <<"magic", UJO_MAGIC>>
          BY <2>1
        <4> QED  BY <4>1, MemberIs
      <3> QED  BY <3>1 DEF Check
    <2>3. /\ v0 \in Scans(HeaderNames) /\ v0.doc = c.doc
          /\ \/ /\ Steady(v0) /\ v0.pos = 3
                /\ v0.data = {<<"magic", UJO_MAGIC>>, <<"version", UJO_DATA_VERSION>>}
             \/ Broken(v0)
      <3> DEFINE o == 1
                 k == 2
      <3>1. v0 = Get(m0, <<Field("version", k)>>)
        BY <2>2
      <3>2. /\ o \in Nat /\ k \in Nat /\ k >= 1 /\ m0.pos = p + o + 1 /\ o + 1 <= Len(ws)
            /\ ws[o + 1] = Little(UJO_DATA_VERSION, k) /\ m0.pos + 1 = 3
        BY <1>2, <2>1
      <3> HIDE DEF o, k, v0, p, m1
      <3>3. /\ v0 \in Scans(HeaderNames) /\ v0.doc = m0.doc
            /\ \/ /\ Steady(v0) /\ v0.pos = m0.pos + 1
                  /\ v0.data = m0.data \cup {<<"version", UJO_DATA_VERSION>>}
               \/ Broken(v0)
        <4>1. LET g == Get(m0, <<Field("version", k)>>)
              IN  /\ g \in Scans(HeaderNames) /\ g.doc = m0.doc
                  /\ \/ /\ Steady(g) /\ g.pos = m0.pos + 1
                        /\ g.data = m0.data \cup {<<"version", UJO_DATA_VERSION>>}
                     \/ Broken(g)
          BY <1>2, <1>3, <1>4, <1>5, <1>7, <2>1, <3>2, ReadsField, ZenonT(60)
        <4> QED  BY <3>1, <4>1
      <3> QED  BY <1>7, <2>1, <3>2, <3>3
    <2> HIDE DEF v0, m1
    <2>4. CASE Broken(v0)
      <3>1. ~Going(v0)
        BY <2>4, BrokenStops
      <3>2. v1 = v0 /\ d = v0
        BY <3>1, StoppedStays
      <3> HIDE DEF v1, d
      <3> QED  BY <1>1, <2>3, <2>4, <3>2
    <2>5. CASE ~Broken(v0)
      <3>1. /\ Steady(v0) /\ v0.pos = 3
            /\ v0.data = {<<"magic", UJO_MAGIC>>, <<"version", UJO_DATA_VERSION>>}
        BY <2>3, <2>5
      <3>2. v1 = v0
        <4>1. \A m \in v0.data : m[1] = "version" => m = <<"version", UJO_DATA_VERSION>>
          BY <3>1
        <4>2. Member(v0, "version") = UJO_DATA_VERSION
          BY <3>1, <4>1, MemberIs, ZenonT(60)
        <4> QED  BY <4>2 DEF Check
      <3> DEFINE o == 2
                 k == 1
      <3>3. d = Get(v0, <<Field("compression", k)>>)
        BY <3>2
      <3>4. /\ o \in Nat /\ k \in Nat /\ k >= 1 /\ v0.pos = p + o + 1 /\ o + 1 <= Len(ws)
            /\ ws[o + 1] = Little(UJO_COMPRESS_NONE, k) /\ v0.pos + 1 = 4
        BY <1>2, <3>1
      <3> HIDE DEF o, k, d, p, v1
      <3>5. /\ d.doc = v0.doc
            /\ (Steady(d) /\ d.pos = v0.pos + 1) \/ Broken(d)
        <4>1. LET g == Get(v0, <<Field("compression", k)>>)
              IN  /\ g \in Scans(HeaderNames) /\ g.doc = v0.doc
                  /\ \/ /\ Steady(g) /\ g.pos = v0.pos + 1
                        /\ g.data = v0.data \cup {<<"compression", UJO_COMPRESS_NONE>>}
                     \/ Broken(g)
          BY <1>2, <1>3, <1>4, <1>5, <2>3, <3>1, <3>4, ReadsField, ZenonT(60)
        <4> QED  BY <3>3, <4>1
      <3> QED  BY <1>1, <2>3, <3>4, <3>5
    <2> QED  BY <2>4, <2>5
  <1> QED  BY <1>8, <1>9

-----------------------------------------------------------------------------
(* The reader in the document: what it has found is what was written, and   *)
(* its machine is where the writer's was.                                   *)

Reads(b, ms) ==
    /\ Len(got) <= Len(acked) /\ \A i \in 1 .. Len(got) : got[i] = acked[i]
    /\ Same(ms[Len(got)], rdoc)
    /\ health \in {"ok", "error", "astray", "overrun"}
    /\ health = "ok" =>
          off = 0 /\ (pos = b[Len(got)] + 1 \/ (pos = 1 /\ got = <<>> /\ ~eod))
    /\ health = "error" => rtype # "MEMORY" /\ pos = Len(input) + 1 /\ off = 0
    /\ orderly => health # "overrun"
    /\ ~orderly => health # "ok" /\ held = <<>>
    /\ health = "astray" => held = <<>>
    /\ phase = "parse" => health = "ok"
    /\ eod => Len(got) = Len(acked) /\ pos = Len(input) + 1

\* The call that found nothing leaves the reader where it was in the document.
LEMMA BrokenReads ==
    ASSUME NEW b, NEW ms, Reads(b, ms), NEW d, rdoc' = rdoc,
           UNCHANGED <<rtype, input, got, acked>>, orderly' \in BOOLEAN,
           pos' = d.pos, off' = d.off, health' = Failure(d),
           held' = <<>>, phase' = "idle", ~Going(d),
           Broken(d) \/ (d.health = "overrun" /\ ~orderly'),
           eod' => eod /\ d.pos = Len(input) + 1
    PROVE  Reads(b, ms)'
  <1>1. CASE Broken(d)
    <2>1. health' = IF d.code = UJO_ERR_FILE THEN "error" ELSE "astray"
      BY <1>1 DEF Broken, Failure
    <2>2. health' = "error" => rtype # "MEMORY" /\ d.pos = Len(input) + 1 /\ d.off = 0
      BY <1>1, <2>1 DEF Broken
    <2> QED  BY <2>1, <2>2 DEF Reads
  <1>2. CASE d.health = "overrun" /\ ~orderly'
    <2>1. health' = "overrun"
      BY <1>2 DEF Failure
    <2> QED  BY <1>2, <2>1 DEF Reads
  <1> QED  BY <1>1, <1>2

\* The call that found an element leaves it behind the next border.
LEMMA YieldReads ==
    ASSUME NEW b, NEW ms, Reads(b, ms), got \in Seq(Elements), acked \in Seq(Elements),
           Len(got) < Len(acked), health = "ok", orderly', UNCHANGED <<rtype, input, acked, health>>,
           got' = Append(got, acked[Len(got) + 1]), pos' = b[Len(got) + 1] + 1,
           off' = 0, Same(ms[Len(got) + 1], rdoc'), ~eod'
    PROVE  Reads(b, ms)'
  <1> DEFINE k == Len(got)
             e == acked[k + 1]
  <1>1. k \in Nat /\ Len(acked) \in Nat /\ e \in Elements
    OBVIOUS
  <1>2. Len(got') = k + 1 /\ got'[k + 1] = e /\ \A i \in 1 .. k : got'[i] = got[i]
    BY <1>1
  <1>3. \A i \in 1 .. k + 1 : i \in 1 .. k \/ i = k + 1
    BY <1>1
  <1>4. Len(got') <= Len(acked') /\ \A i \in 1 .. Len(got') : got'[i] = acked'[i]
    <2> HIDE DEF k
    <2>1. k + 1 <= Len(acked)
      BY <1>1 DEF k
    <2>2. \A i \in 1 .. k : got[i] = acked[i]
      BY DEF Reads, k
    <2> QED  BY <1>2, <1>3, <2>1, <2>2
  <1>5. Same(ms[Len(got')], rdoc') /\ pos' = b[Len(got')] + 1
    BY <1>2
  <1> QED  BY <1>4, <1>5 DEF Reads

\* The document is over once its machine is closed, and not before.
LEMMA ClosedAtEnd ==
    ASSUME NEW b, NEW ms, Lined(b, ms), NEW k \in 0 .. Len(acked), NEW r, Same(ms[k], r)
    PROVE  /\ r.cur.state = "CLOSED" => k = Len(acked) /\ k # 0
           /\ k = Len(acked) => b[k] = Len(wire) /\ r.cur.state = doc.cur.state
  <1>1. Script(b, ms, wire, acked, doc) /\ Len(acked) \in Nat
    BY DEF Lined
  <1>2. ms[k].cur.state = r.cur.state
    BY DEF Same
  <1>3. ASSUME k < Len(acked) PROVE ms[k].cur.state # "CLOSED"
    <2>1. k + 1 \in 1 .. Len(acked) /\ (k + 1) - 1 = k
      BY <1>1, <1>3
    <2>2. Moves(acked[k + 1], ms[(k + 1) - 1], ms[k + 1])
      BY <1>1, <2>1 DEF Script
    <2> QED  BY <2>1, <2>2, ClosedTakesNothing
  <1>4. ms[0] = NewMachine /\ NewMachine.cur.state # "CLOSED"
    BY <1>1 DEF Script, NewMachine, NewState
  <1>5. k = Len(acked) => b[k] = Len(wire) /\ ms[k] = doc
    BY <1>1 DEF Script
  <1>6. k < Len(acked) \/ k = Len(acked)
    BY <1>1
  <1> QED  BY <1>2, <1>3, <1>4, <1>5, <1>6

\* A reader whose machine has lost a state does not find it again.
LEMMA OutcomeLost ==
    ASSUME input \in Seq(Chunks), NEW c \in Scans(HeaderNames), c.doc.lost,
           NEW grow \in BOOLEAN, NEW mem \in BOOLEAN
    PROVE  Outcome(c, grow, mem).doc.lost
  <1> DEFINE t == ReadType(c)
             d == Dispatch(t, grow, mem)
  <1>1. t.doc = c.doc /\ (Going(t) => t \in Scans(Members))
    BY ReadTypeIs
  <1>2. CASE ~Going(t)
    BY <1>1, <1>2 DEF Outcome
  <1>3. CASE Going(t)
    <2>1. Outcome(c, grow, mem) = d
      BY <1>3 DEF Outcome
    <2>2. t \in Scans(Members) /\ t.doc \in Machines /\ t.doc.lost
      BY <1>1, <1>3 DEF Scans, Progress
    <2> HIDE DEF t
    <2> DEFINE shift(m) == [t EXCEPT !.doc = m]
    <2>3. \A m : shift(m).doc = m
      BY <2>2 DEF Scans, Progress
    <2>4. \A s \in ujoDocState : shift(ujo_state_next(s, t.doc, grow)).doc.lost
      BY <2>2, <2>3, LostStays
    <2>5. "LIST" \in ujoDocState /\ "DICT_KEY" \in ujoDocState /\ "TABLE_COLUMNS" \in ujoDocState
      BY DEF ujoDocState
    <2>6. t.type \in ContainerTypes => d.doc.lost
      <3>1. /\ t.type = UJO_TYPE_LIST => d = shift(ujo_state_next("LIST", t.doc, grow))
            /\ t.type = UJO_TYPE_MAP => d = shift(ujo_state_next("DICT_KEY", t.doc, grow))
            /\ t.type = UJO_TYPE_TABLE => d = shift(ujo_state_next("TABLE_COLUMNS", t.doc, grow))
        BY DispatchForms DEF ujo_reader_open_list, ujo_reader_open_map, ujo_reader_open_table
      <3> HIDE DEF d, shift
      <3> QED  BY <2>4, <2>5, <3>1 DEF ContainerTypes
    <2>7. [t EXCEPT !.doc.cur.state = "TABLE_VALUES"].doc.lost
      BY <2>2 DEF Scans, Progress, Machines, ujo_state
    <2>8. ujo_reader_close_container(t, grow).doc.lost
      <3> DEFINE left == ujo_state_prev(t.doc)
      <3>1. left \in Machines /\ left.lost
        BY <2>2, LostStays, PrevIsMachine
      <3>2. ujo_state_switch("CONTAINER_CLOSED", left, grow).lost
        BY <3>1, LostStays
      <3>3. [t EXCEPT !.doc = left, !.health = "crashed"].doc = left
        BY <2>2 DEF Scans, Progress
      <3>4. shift(ujo_state_switch("CONTAINER_CLOSED", left, grow)).doc.lost
        BY <2>3, <3>2
      <3> QED  BY <3>1, <3>3, <3>4 DEF ujo_reader_close_container
    <2>9. t.type = UJO_TERMINATOR => d.doc.lost
      BY <2>7, <2>8, DispatchForms
    <2>10. t.type \in AtomicTypes => d.doc.lost
      <3> DEFINE r == Parse(t, mem)
      <3>1. SUFFICES ASSUME t.type \in AtomicTypes PROVE d.doc.lost
        OBVIOUS
      <3>2. r \in Scans(Members) /\ r.doc = t.doc
        BY <2>2, <3>1, ParseIs DEF Kin
      <3>3. d = Found(r, grow)
        BY <3>1, DispatchForms
      <3> HIDE DEF r, d
      <3>4. ujo_state_switch("ATOMIC_FOUND", r.doc, grow).lost
        BY <2>2, <3>2, LostStays
      <3>5. \A m : [r EXCEPT !.doc = m].doc = m
        BY <3>2 DEF Scans, Progress
      <3>6. d = r \/ d = [r EXCEPT !.doc = ujo_state_switch("ATOMIC_FOUND", r.doc, grow)]
        BY <3>3 DEF Found
      <3> QED  BY <2>2, <3>2, <3>4, <3>5, <3>6
    <2>11. t.type \notin AtomicTypes \cup ContainerTypes \cup {UJO_TERMINATOR} => d.doc.lost
      <3>1. Fail(t, UJO_ERR_INVALID_DATA).doc = t.doc
        BY <2>2, FailIs, CodesAre
      <3> QED  BY <2>2, <3>1, DispatchForms
    <2> HIDE DEF d
    <2> QED  BY <2>1, <2>6, <2>9, <2>10, <2>11 DEF d
  <1> QED  BY <1>2, <1>3

\* Where a call of ujo_reader_get_next may begin: at a border, at the start of
\* the document, at the end of a file, or after a header that was none.
Begins(b, c) ==
    \/ Steady(c) /\ health = "ok" /\ c.pos = b[Len(got)] + 1 /\ orderly'
    \/ Steady(c) /\ health = "ok" /\ c.pos = 1 /\ input # <<>> /\ got = <<>> /\ ~orderly'
    \/ Steady(c) /\ rtype = "FILE" /\ c.pos = Len(input) + 1 /\ (health = "ok" => ~eod /\ got = <<>>)
    \/ /\ ~Going(c) /\ (Broken(c) \/ (c.health = "overrun" /\ ~orderly'))
       /\ eod => c.pos = Len(input) + 1

\* The end of the document is signalled after its last element.
LEMMA EndsReads ==
    ASSUME NEW b, NEW ms, Lined(b, ms), Reads(b, ms), got \in Seq(Elements),
           NEW c \in Scans(HeaderNames), c.doc = rdoc, NEW h, Ends(c, h),
           Begins(b, c), UNCHANGED <<rtype, input, acked>>, orderly' \in BOOLEAN,
           orderly' => orderly
    PROVE  Reads(b, ms)'
  <1> DEFINE k == Len(got)
  <1>0. Going(c) => Steady(c) /\ c.health = "ok" /\ c.off = 0
    BY DEF Begins, Steady, InStep
  <1>1. /\ Going(c) /\ rdoc.cur.state = "CLOSED" /\ pos' = c.pos /\ off' = 0
        /\ held' = <<>> /\ eod' = TRUE /\ phase' = "idle" /\ UNCHANGED <<rdoc, health, got>>
    BY <1>0 DEF Ends, Success
  <1>2. k \in 0 .. Len(acked) /\ Same(ms[k], rdoc)
    BY DEF Reads, Lined
  <1>3. k = Len(acked) /\ k # 0 /\ b[k] = Len(wire)
    BY <1>1, <1>2, ClosedAtEnd
  <1>4. c.pos \in 1 .. Len(input) + 1 /\ Len(input) <= Len(wire) /\ Len(input) \in Nat /\ Len(wire) \in Nat
    BY DEF Scans, Progress, Lined, Given, Left
  <1>5. got # <<>>
    BY <1>3
  <1>6. /\ c.pos = Len(input) + 1
        /\ health = "ok" => c.pos = b[k] + 1 /\ orderly'
    BY <1>1, <1>3, <1>4, <1>5 DEF Begins
  <1> QED  BY <1>1, <1>3, <1>6 DEF Reads

\* What a call finds is the next element, or nothing.
LEMMA FindsReads ==
    ASSUME Host = RHost, Nulls = {}, NEW b, NEW ms, Lined(b, ms), Reads(b, ms),
           got \in Seq(Elements), rtype = "FILE" \/ doc.cur.state = "CLOSED",
           NEW c \in Scans(HeaderNames), c.doc = rdoc, NEW h, NEW loop,
           NEW grow \in BOOLEAN, NEW mem \in BOOLEAN,
           Finds(c, Outcome(c, grow, mem), h, loop), ~rdoc'.lost,
           Begins(b, c), UNCHANGED <<rtype, input, acked>>, orderly' \in BOOLEAN
    PROVE  Reads(b, ms)'
  <1> DEFINE k == Len(got)
             d == Outcome(c, grow, mem)
  <1>1. /\ Going(c) /\ rdoc.cur.state # "CLOSED"
        /\ pos' = d.pos /\ off' = d.off /\ rdoc' = d.doc /\ eod' = FALSE
        /\ Yields(d, h, loop) \/ Fails(d, ReadType(c), h)
    BY DEF Finds
  <1>2. k \in 0 .. Len(acked) /\ Same(ms[k], rdoc) /\ Len(acked) \in Nat
    BY DEF Reads, Lined
  <1>3. input \in Seq(Chunks) /\ wire \in Seq(Chunks) /\ acked \in Seq(Elements) /\ Given
    BY DEF Lined
  <1>4. ~d.doc.lost
    BY <1>1
  <1> HIDE DEF d
  <1>5. ASSUME Broken(d), d.doc = c.doc
        PROVE  Reads(b, ms)'
    <2>1. ~Going(d)
      BY <1>5, BrokenStops
    <2>2. Fails(d, ReadType(c), h)
      BY <1>1, <2>1 DEF Yields
    <2>3. /\ rdoc' = rdoc /\ pos' = d.pos /\ off' = d.off /\ health' = Failure(d)
          /\ held' = <<>> /\ phase' = "idle" /\ got' = got /\ ~eod'
      BY <1>1, <1>5, <2>2 DEF Fails
    <2> QED  BY <1>5, <2>1, <2>3, BrokenReads
  <1>6. CASE Steady(c) /\ health = "ok" /\ c.pos = b[k] + 1 /\ orderly'
    <2>1. CASE k < Len(acked)
      <3>1. \/ /\ Steady(d) /\ ElementOf(d) = acked[k + 1]
               /\ d.pos = b[k + 1] + 1 /\ Same(ms[k + 1], d.doc)
            \/ Broken(d) /\ d.doc = c.doc
        <4> HIDE DEF k
        <4> QED  BY <1>1, <1>2, <1>4, <1>6, <2>1, BorderRead DEF d
      <3>2. ASSUME /\ Steady(d) /\ ElementOf(d) = acked[k + 1]
                   /\ d.pos = b[k + 1] + 1 /\ Same(ms[k + 1], d.doc)
            PROVE  Reads(b, ms)'
        <4>1. Yields(d, h, loop)
          BY <1>1, <3>2, SteadyGoes DEF Fails
        <4>2. d.health = "ok" /\ d.off = 0 /\ ~Lost
          BY <1>6, <3>2 DEF Steady, InStep, Lost
        <4>3. /\ got' = Append(got, acked[k + 1]) /\ pos' = b[k + 1] + 1 /\ off' = 0
              /\ Same(ms[k + 1], rdoc') /\ ~eod' /\ UNCHANGED health
          BY <1>1, <3>2, <4>1, <4>2 DEF Yields, Success
        <4> QED  BY <1>3, <1>6, <2>1, <4>3, YieldReads
      <3> QED  BY <1>5, <3>1, <3>2
    <2>2. CASE ~(k < Len(acked))
      <3>1. k = Len(acked)
        BY <1>2, <2>2
      <3>2. b[k] = Len(wire) /\ rdoc.cur.state = doc.cur.state
        <4> HIDE DEF k
        <4> QED  BY <1>2, <3>1, ClosedAtEnd
      <3>3. rtype = "FILE"
        BY <1>1, <3>2
      <3>4. c.pos = Len(input) + 1
        <4>1. /\ c.pos \in 1 .. Len(input) + 1 /\ Len(input) <= Len(wire)
              /\ Len(input) \in Nat /\ Len(wire) \in Nat
          BY DEF Scans, Progress, Lined, Given, Left
        <4> QED  BY <1>6, <3>2, <4>1
      <3>5. Broken(d) /\ d.doc = c.doc
        BY <1>1, <1>3, <1>6, <3>3, <3>4, EndRead DEF d
      <3> QED  BY <1>5, <3>5
    <2> QED  BY <2>1, <2>2
  <1>7. CASE Steady(c) /\ c.pos = 1 /\ input # <<>>
    <2>1. input[1].val = UJO_MAGIC /\ input[1].size >= 1
      <3>1. /\ \A j \in 1 .. 3 : wire[j] = Header[j]
        BY DEF Lined, Script
      <3>2. wire[1].val = UJO_MAGIC /\ wire[1].size = 4
        BY <3>1 DEF Header, Little
      <3>3. 1 \in 1 .. Len(input)
        BY <1>3, <1>7, ChunkAt
      <3> QED  BY <1>3, <3>2, <3>3 DEF Given, Left
    <2>2. Broken(d) /\ d.doc = c.doc
      BY <1>1, <1>3, <1>7, <2>1, StartRead DEF d
    <2> QED  BY <1>5, <2>2
  <1>8. CASE Steady(c) /\ rtype = "FILE" /\ c.pos = Len(input) + 1
    <2>1. Broken(d) /\ d.doc = c.doc
      BY <1>1, <1>3, <1>8, EndRead DEF d
    <2> QED  BY <1>5, <2>1
  <1> QED  BY <1>1, <1>6, <1>7, <1>8 DEF Begins

\* A call that begins at such a place.
LEMMA CallReads ==
    ASSUME Host = RHost, Nulls = {}, NEW b, NEW ms, Lined(b, ms), Reads(b, ms),
           got \in Seq(Elements), rtype = "FILE" \/ doc.cur.state = "CLOSED",
           NEW c \in Scans(HeaderNames), c.doc = rdoc, NEW h, NEW loop,
           GetNext(c, h, loop), ~rdoc'.lost, Begins(b, c), UNCHANGED <<rtype, input, acked>>,
           orderly' \in BOOLEAN, orderly' => orderly
    PROVE  Reads(b, ms)'
  <1>1. CASE Stops(c, h)
    <2>1. /\ ~Going(c) /\ pos' = c.pos /\ off' = c.off /\ held' = <<>>
          /\ health' = Failure(c) /\ phase' = "idle" /\ UNCHANGED <<rdoc, eod, got>>
      BY <1>1 DEF Stops
    <2>2. /\ Broken(c) \/ (c.health = "overrun" /\ ~orderly')
          /\ eod => c.pos = Len(input) + 1
      BY <2>1, SteadyGoes DEF Begins
    <2> QED  BY <2>1, <2>2, BrokenReads
  <1>2. CASE Ends(c, h)
    BY <1>2, EndsReads
  <1>3. CASE \E grow \in BOOLEAN, mem \in BOOLEAN : Finds(c, Outcome(c, grow, mem), h, loop)
    BY <1>3, FindsReads
  <1> QED  BY <1>1, <1>2, <1>3, GetNextCases

\* Of a document in memory all octets are there.
LEMMA LinedInput ==
    ASSUME NEW b, NEW ms, Lined(b, ms)
    PROVE  /\ b[0] = 3 /\ Len(wire) >= 3 /\ \A j \in 1 .. 3 : wire[j] = Header[j]
           /\ input = <<>> => rtype = "FILE"
           /\ Len(input) <= Len(wire) /\ Len(input) \in Nat /\ Len(wire) \in Nat
           /\ \A k \in 0 .. Len(acked) : b[k] \in Nat /\ b[k] >= 3
  <1>1. Script(b, ms, wire, acked, doc) /\ Len(acked) \in Nat /\ Len(wire) \in Nat /\ Len(input) \in Nat
    BY DEF Lined
  <1>2. /\ b \in [0 .. Len(acked) -> Nat] /\ b[0] = 3
        /\ \A k \in 0 .. Len(acked) : 3 <= b[k] /\ b[k] <= Len(wire)
        /\ \A j \in 1 .. 3 : wire[j] = Header[j]
    BY <1>1 DEF Script
  <1>3. 0 \in 0 .. Len(acked)
    BY <1>1
  <1>4. Len(wire) >= 3
    BY <1>1, <1>2, <1>3
  <1>5. \A k \in 0 .. Len(acked) : b[k] \in Nat /\ b[k] >= 3
    BY <1>2
  <1>6. Len(input) <= Len(wire) /\ (rtype = "FILE" \/ input = wire)
    BY DEF Lined, Given, Left
  <1>7. wire # <<>>
    BY <1>4
  <1> QED  BY <1>1, <1>2, <1>4, <1>5, <1>6, <1>7

\* What stands at a border is a tag, or the end of the input.
LEMMA BorderChunk ==
    ASSUME Nulls = {}, NEW b, NEW ms, Lined(b, ms), NEW k \in 0 .. Len(acked),
           NEW p, p = b[k] + 1, p \in 1 .. Len(input) + 1
    PROVE  \/ p = Len(input) + 1
           \/ p <= Len(input) /\ input[p].size = 1 /\ input[p].val % 256 # UJO_MAGIC
  <1>1. /\ Len(input) <= Len(wire) /\ Len(input) \in Nat /\ Len(wire) \in Nat
        /\ b[k] \in Nat /\ Len(acked) \in Nat
    BY LinedInput DEF Lined
  <1>2. CASE k < Len(acked)
    <2>1. PICK ws \in Seq(Chunks) :
            /\ Len(ws) >= 1 /\ ws[1] = Byte(acked[k + 1].type) /\ OnWire(ws, b[k])
            /\ acked[k + 1].type \in AtomicTypes \cup ContainerTypes \cup {UJO_TERMINATOR}
            /\ acked[k + 1].type \in Tags
      BY <1>2, Behind
    <2>2. wire[p] = Byte(acked[k + 1].type)
      <3>1. 1 \in 1 .. Len(ws)
        BY <2>1
      <3> QED  BY <2>1, <3>1 DEF OnWire
    <2>3. wire[p].size = 1 /\ wire[p].val = acked[k + 1].type
      BY <2>2 DEF Byte, Little
    <2>4. wire[p].val % 256 # UJO_MAGIC
      <3>1. acked[k + 1].type % 256 = acked[k + 1].type
        BY <2>1, OctetIs
      <3>2. acked[k + 1].type # UJO_MAGIC
        BY <2>1, TypeNumbers
      <3> QED  BY <2>3, <3>1, <3>2
    <2>5. ASSUME p <= Len(input) PROVE input[p] = wire[p]
      <3>1. p \in 1 .. Len(input)
        BY <1>1, <2>5
      <3>2. \/ input[p] = wire[p]
            \/ 1 <= input[p].size /\ input[p].size < wire[p].size
        BY <3>1 DEF Lined, Given, Left
      <3>3. input[p].size \in Nat
        BY <3>1, ChunkAt DEF Lined
      <3> QED  BY <2>3, <3>2, <3>3
    <2> QED  BY <1>1, <2>3, <2>4, <2>5, SMTT(60)
  <1>3. CASE ~(k < Len(acked))
    <2>1. b[k] = Len(wire)
      BY <1>1, <1>3 DEF Lined, Script
    <2> QED  BY <1>1, <2>1
  <1> QED  BY <1>2, <1>3

\* Where the application may call, in order or not.
LEMMA ReadyAt ==
    ASSUME NEW b, NEW ms, Lined(b, ms), Reads(b, ms), ReaderTypeOK,
           health \in {"ok", "error"}, rtype \in {"FILE", "MEMORY"}
    PROVE  /\ \/ health = "ok" /\ orderly /\ pos = b[Len(got)] + 1 /\ pos > 1
              \/ health = "ok" /\ orderly /\ pos = 1 /\ got = <<>> /\ ~eod
              \/ health # "ok" /\ rtype = "FILE" /\ pos = Len(input) + 1
           /\ Len(got) \in 0 .. Len(acked) /\ pos \in 1 .. Len(input) + 1 /\ off = 0
           /\ eod => pos = Len(input) + 1
  <1>1. Len(got) \in 0 .. Len(acked) /\ pos \in 1 .. Len(input) + 1 /\ (eod => pos = Len(input) + 1)
    BY DEF Reads, ReaderTypeOK, Lined
  <1>2. b[Len(got)] \in Nat /\ b[Len(got)] >= 3
    BY <1>1, LinedInput
  <1>3. /\ health = "ok" => orderly /\ (pos = b[Len(got)] + 1 \/ (pos = 1 /\ got = <<>> /\ ~eod))
        /\ health = "error" => rtype = "FILE" /\ pos = Len(input) + 1
        /\ off = 0
    BY DEF Reads
  <1> QED  BY <1>1, <1>2, <1>3

\* ujo_reader_get_next, and a turn of the loop.
LEMMA NextBegins ==
    ASSUME NEW b, NEW ms, Lined(b, ms), Reads(b, ms), ReaderTypeOK,
           health \in {"ok", "error"}, rtype \in {"FILE", "MEMORY"},
           orderly' = (orderly /\ pos > 1), NEW z \in Noises
    PROVE  Begins(b, Scan(z)) /\ (orderly' => orderly) /\ orderly' \in BOOLEAN
  <1>1. /\ \/ health = "ok" /\ orderly /\ pos = b[Len(got)] + 1 /\ pos > 1
           \/ health = "ok" /\ orderly /\ pos = 1 /\ got = <<>> /\ ~eod
           \/ health # "ok" /\ rtype = "FILE" /\ pos = Len(input) + 1
        /\ pos \in 1 .. Len(input) + 1 /\ off = 0
    BY ReadyAt
  <1>2. Steady(Scan(z)) /\ Scan(z).pos = pos
    BY <1>1, ScanIs DEF Lost
  <1>3. input = <<>> => rtype = "FILE" /\ Len(input) + 1 = 1
    BY LinedInput
  <1>4. pos = 1 => ~(pos > 1)
    OBVIOUS
  <1>5. /\ orderly /\ pos > 1 => orderly'
        /\ pos = 1 => ~orderly'
        /\ orderly' => orderly
        /\ orderly' \in BOOLEAN
    BY <1>4, Zenon
  <1>6. Begins(b, Scan(z))
    BY <1>1, <1>2, <1>3, <1>5, Zenon DEF Begins
  <1> QED  BY <1>5, <1>6

\* ujo_reader_get_first, and the start of ujo_reader_parse.
LEMMA FirstBegins ==
    ASSUME Nulls = {}, NEW b, NEW ms, Lined(b, ms), Reads(b, ms), ReaderTypeOK,
           health \in {"ok", "error"}, rtype \in {"FILE", "MEMORY"},
           orderly' = (orderly /\ pos = 1), NEW z \in HeaderNoises
    PROVE  /\ Begins(b, ujo_reader_parse_header(Scan(z)))
           /\ orderly' => orderly
           /\ orderly' \in BOOLEAN
  <1> DEFINE c == Scan(z)
             d == ujo_reader_parse_header(c)
  <1>0. pos > 1 => pos # 1
    OBVIOUS
  <1>1. /\ \/ health = "ok" /\ orderly /\ pos = b[Len(got)] + 1 /\ pos > 1
           \/ health = "ok" /\ orderly /\ pos = 1 /\ got = <<>> /\ ~eod
           \/ health # "ok" /\ rtype = "FILE" /\ pos = Len(input) + 1
        /\ pos \in 1 .. Len(input) + 1 /\ Len(got) \in 0 .. Len(acked)
        /\ (eod => pos = Len(input) + 1) /\ off = 0
    BY ReadyAt
  <1>2. /\ c \in Scans(HeaderNames) /\ Steady(c) /\ c.pos = pos /\ c.data = {}
    <2>1. c.data = {}
      BY DEF Scan
    <2> QED  BY <1>1, <2>1, ScanIs DEF Lost
  <1>3. input \in Seq(Chunks) /\ wire \in Seq(Chunks) /\ Given
    BY DEF Lined
  <1>4. /\ input = <<>> => rtype = "FILE" /\ Len(input) + 1 = 1
        /\ b[0] = 3 /\ Len(wire) >= 3 /\ \A j \in 1 .. 3 : wire[j] = Header[j]
    BY LinedInput
  <1> HIDE DEF c
  <1>5. CASE pos = 1 /\ input # <<>> /\ health = "ok"
    <2>1. (Steady(d) /\ d.pos = 4) \/ Broken(d)
      BY <1>2, <1>3, <1>4, <1>5, HeaderReads
    <2>2. orderly /\ orderly' /\ got = <<>> /\ ~eod
      BY <1>0, <1>1, <1>5, Zenon
    <2>3. Broken(d) => ~Going(d)
      BY BrokenStops
    <2>4. Len(got) = 0 /\ b[Len(got)] + 1 = 4
      BY <1>4, <2>2
    <2> HIDE DEF d
    <2> QED  BY <1>5, <2>1, <2>2, <2>3, <2>4 DEF Begins, d, c
  <1>6. CASE ~(pos = 1 /\ input # <<>> /\ health = "ok")
    <2>1. \/ c.pos = Len(input) + 1
          \/ c.pos <= Len(input) /\ input[c.pos].size = 1 /\ input[c.pos].val % 256 # UJO_MAGIC
      BY <1>1, <1>2, <1>4, <1>6, BorderChunk, SMTT(60)
    <2>2. /\ ~Going(d)
          /\ Broken(d) \/ (rtype # "FILE" /\ d.health = "overrun")
          /\ c.pos = Len(input) + 1 => d.pos = Len(input) + 1
      BY <1>2, <1>3, <2>1, HeaderAstray
    <2>3. orderly' => rtype = "FILE"
      BY <1>1, <1>4, <1>6
    <2> HIDE DEF d
    <2> QED  BY <1>1, <1>2, <2>2, <2>3 DEF Begins, d, c
  <1> QED  BY <1>5, <1>6

-----------------------------------------------------------------------------
(* The inductive invariant of a document on its way.                        *)

\* Before there is a reader.
Fresh ==
    /\ input = <<>> /\ pos = 1 /\ off = 0 /\ rdoc = NewMachine /\ health = "ok" /\ pressed = 0
    /\ eod = FALSE /\ got = <<>> /\ held = <<>> /\ phase = "idle" /\ orderly = TRUE /\ heap.buffers = 0

\* What the reader was given.
Sourced ==
    /\ rtype = "none" => Fresh
    /\ rtype = "FILE" => Left(input)
    /\ rtype = "MEMORY" => /\ heap.buffers > 0 => input = wire /\ doc.cur.state = "CLOSED"
                           /\ phase = "parse" => heap.buffers > 0

\* Where it is in it.
Followed == Sound => \E b, ms : Script(b, ms, wire, acked, doc) /\ Reads(b, ms)

TInv == RInv /\ Scripted /\ Sourced /\ Followed

\* A machine that was just reset.
LEMMA ResetSame ==
    ASSUME NEW r, r.items = <<>>, r.cur.state = "ROOT"
    PROVE  Same(NewMachine, r)
  <1>1. NewMachine.items = <<>> /\ NewMachine.cur.state = "ROOT"
    BY DEF NewMachine, NewState
  <1>2. Len(<<>>) = 0 /\ \A i \in 1 .. 0 : FALSE
    OBVIOUS
  <1> QED  BY <1>1, <1>2 DEF Same

\* A reader that has read nothing.
LEMMA StartReads ==
    ASSUME NEW b, NEW ms, Script(b, ms, wire', acked', doc'), acked' \in Seq(Elements),
           pos' = 1, off' = 0, got' = <<>>, health' = "ok", eod' = FALSE, orderly' = TRUE,
           rdoc'.items = <<>>, rdoc'.cur.state = "ROOT"
    PROVE  Reads(b, ms)'
  <1>1. ms[0] = NewMachine
    BY DEF Script
  <1>2. Len(got') = 0 /\ 0 <= Len(acked') /\ \A i \in 1 .. 0 : FALSE
    OBVIOUS
  <1>3. Same(ms[Len(got')], rdoc')
    BY <1>1, <1>2, ResetSame
  <1> QED  BY <1>2, <1>3 DEF Reads

\* A step that reads nothing.
LEMMA QuietReads ==
    ASSUME NEW b, NEW ms, Reads(b, ms),
           UNCHANGED <<pos, off, rdoc, eod, health, got, orderly, acked>>,
           held' = held \/ held' = <<>>, phase' = phase \/ phase' = "idle",
           health = "ok" \/ (UNCHANGED input /\ (UNCHANGED rtype \/ rtype' # "MEMORY")),
           eod => input' = input
    PROVE  Reads(b, ms)'
  BY DEF Reads

\* A step that reads nothing leaves the reader where it is.
LEMMA QuietFollows ==
    ASSUME TInv, UNCHANGED wvars,
           UNCHANGED <<pos, off, rdoc, eod, health, pressed, got, orderly>>,
           held' = held \/ held' = <<>>, phase' = phase \/ phase' = "idle",
           health = "ok" \/ (UNCHANGED input /\ (UNCHANGED rtype \/ rtype' # "MEMORY")),
           eod => input' = input
    PROVE  Scripted' /\ Followed'
  <1>1. UNCHANGED <<wire, acked, doc, reported>>
    BY DEF wvars
  <1>2. Scripted'
    BY <1>1 DEF TInv, Scripted
  <1>3. ASSUME Sound' PROVE \E b, ms : Script(b, ms, wire', acked', doc') /\ Reads(b, ms)'
    <2>1. Sound
      BY <1>1, <1>3 DEF Sound, Countable
    <2>2. PICK b, ms : Script(b, ms, wire, acked, doc) /\ Reads(b, ms)
      BY <2>1 DEF TInv, Followed
    <2>3. Reads(b, ms)'
      BY <1>1, <2>2, QuietReads
    <2> QED  BY <1>1, <2>2, <2>3
  <1> QED  BY <1>2, <1>3 DEF Followed

\* A call of ujo_reader_get_next keeps the buffers and loses no state silently.
LEMMA CallBuffers ==
    ASSUME input \in Seq(Chunks), NEW c \in Scans(HeaderNames), c.doc = rdoc,
           NEW h \in [elements : Nat, payloads : Nat, buffers : Nat], NEW loop,
           GetNext(c, h, loop)
    PROVE  /\ heap'.buffers = h.buffers
           /\ rdoc.lost => rdoc'.lost
           /\ phase' = "parse" => loop = "parse"
  <1>1. CASE Stops(c, h) \/ Ends(c, h)
    BY <1>1 DEF Stops, Ends
  <1>2. ASSUME NEW grow \in BOOLEAN, NEW mem \in BOOLEAN, Finds(c, Outcome(c, grow, mem), h, loop)
        PROVE  /\ heap'.buffers = h.buffers
               /\ rdoc.lost => rdoc'.lost
               /\ phase' = "parse" => loop = "parse"
    <2> DEFINE d == Outcome(c, grow, mem)
    <2>1. rdoc' = d.doc
      BY <1>2 DEF Finds
    <2>2. rdoc.lost => d.doc.lost
      BY OutcomeLost
    <2> HIDE DEF d
    <2>3. Yields(d, h, loop) \/ Fails(d, ReadType(c), h)
      BY <1>2 DEF Finds, d
    <2>4. CASE Yields(d, h, loop)
      <3>1. heap' = [h EXCEPT !.elements = @ + 1, !.payloads = @ + Owns(d.type)] /\ phase' = loop
        BY <2>4 DEF Yields
      <3>2. heap'.buffers = h.buffers
        BY <3>1
      <3> QED  BY <2>1, <2>2, <3>1, <3>2
    <2>5. CASE Fails(d, ReadType(c), h)
      <3>1. (heap' = h \/ heap' = [h EXCEPT !.elements = @ + 1]) /\ phase' = "idle"
        BY <2>5 DEF Fails
      <3>2. heap'.buffers = h.buffers
        BY <3>1
      <3> QED  BY <2>1, <2>2, <3>1, <3>2
    <2> QED  BY <2>3, <2>4, <2>5
  <1> QED  BY <1>1, <1>2, GetNextCases

\* A call of ujo_reader_get_next keeps the invariant.
LEMMA CallFollows ==
    ASSUME Host = RHost, Nulls = {}, TInv, UNCHANGED wvars, UNCHANGED <<rtype, input, handler>>,
           rtype = "FILE" \/ (rtype = "MEMORY" /\ heap.buffers > 0),
           NEW c \in Scans(HeaderNames), c.doc = rdoc, NEW loop,
           NEW h \in [elements : Nat, payloads : Nat, buffers : Nat], h.buffers = heap.buffers,
           GetNext(c, h, loop), pressed' = 0 => pressed = 0,
           Sound /\ pressed' = 0 =>
             \A b, ms : Lined(b, ms) /\ Reads(b, ms) =>
               Begins(b, c) /\ (orderly' => orderly) /\ orderly' \in BOOLEAN
    PROVE  Scripted' /\ Sourced' /\ Followed'
  <1>1. UNCHANGED <<wire, acked, doc, reported>> /\ UNCHANGED <<rtype, input>>
    BY DEF wvars
  <1>2. /\ input \in Seq(Chunks) /\ wire \in Seq(Chunks) /\ acked \in Seq(Elements)
        /\ got \in Seq(Elements)
    BY DEF TInv, RInv, IInv, TypeOK, ReaderTypeOK
  <1>3. heap'.buffers = heap.buffers /\ (rdoc.lost => rdoc'.lost)
    BY <1>2, CallBuffers
  <1>4. Given /\ (rtype = "FILE" \/ doc.cur.state = "CLOSED")
    <2>1. Left(wire)
      BY <1>2 DEF Left
    <2> QED  BY <2>1 DEF TInv, Sourced, Given
  <1>5. Sourced'
    <2>1. Left(input)' <=> Left(input)
      BY <1>1 DEF Left
    <2> QED  BY <1>1, <1>3, <2>1 DEF TInv, Sourced
  <1>6. Scripted'
    BY <1>1 DEF TInv, Scripted
  <1>7. ASSUME Sound' PROVE \E b, ms : Script(b, ms, wire', acked', doc') /\ Reads(b, ms)'
    <2>1. Sound /\ Countable /\ ~rdoc'.lost /\ pressed' = 0
      BY <1>1, <1>3, <1>7 DEF Sound, Countable
    <2>2. PICK b, ms : Script(b, ms, wire, acked, doc) /\ Reads(b, ms)
      BY <2>1 DEF TInv, Followed
    <2>3. Lined(b, ms)
      BY <1>2, <1>4, <2>1, <2>2 DEF Lined
    <2>4. Begins(b, c) /\ (orderly' => orderly) /\ orderly' \in BOOLEAN
      BY <2>1, <2>2, <2>3
    <2>5. Reads(b, ms)'
      BY <1>1, <1>2, <1>4, <2>1, <2>2, <2>3, <2>4, CallReads
    <2> QED  BY <1>1, <2>2, <2>5
  <1> QED  BY <1>5, <1>6, <1>7 DEF Followed

\* The calls of the application keep it.
LEMMA FirstFollows ==
    ASSUME Host = RHost, Nulls = {}, TInv, Start, NEW loop, NEW z \in HeaderNoises,
           GetNext(ujo_reader_parse_header(Scan(z)), heap, loop),
           UNCHANGED <<rtype, input, handler>>, UNCHANGED wvars
    PROVE  Scripted' /\ Sourced' /\ Followed'
  <1> DEFINE c == ujo_reader_parse_header(Scan(z))
  <1>1. ReaderTypeOK
    BY DEF TInv, RInv
  <1>2. /\ input \in Seq(Chunks) /\ pos \in 1 .. Len(input) + 1 /\ rdoc \in Machines
        /\ heap \in [elements : Nat, payloads : Nat, buffers : Nat]
    BY <1>1 DEF ReaderTypeOK
  <1>3. c \in Scans(HeaderNames) /\ c.doc = rdoc
    BY <1>1, <1>2, ScanIs, HeaderIs
  <1>4. /\ rtype = "FILE" \/ (rtype = "MEMORY" /\ heap.buffers > 0)
        /\ orderly' = (orderly /\ pos = 1)
    BY DEF Start, Ready
  <1>6. /\ pressed' = 0 => pressed = 0 /\ ~Lost
        /\ ~Lost => health \in {"ok", "error"}
    BY <1>1 DEF Start, Ready, ReaderTypeOK, Lost, Defined
  <1>5. pressed' = 0 =>
          \A b, ms : Lined(b, ms) /\ Reads(b, ms) =>
            Begins(b, c) /\ (orderly' => orderly) /\ orderly' \in BOOLEAN
    BY <1>1, <1>4, <1>6, FirstBegins
  <1> HIDE DEF c
  <1> QED  BY <1>2, <1>3, <1>4, <1>5, <1>6, CallFollows DEF c

\* ujo_reader_get_next and the loop of ujo_reader_parse.
LEMMA NextFollows ==
    ASSUME Host = RHost, Nulls = {}, TInv, NEW loop,
           rtype = "FILE" \/ (rtype = "MEMORY" /\ heap.buffers > 0),
           health \in Defined, pressed' = 0 => pressed = 0, Sound /\ pressed' = 0 => ~Lost,
           NEW h \in [elements : Nat, payloads : Nat, buffers : Nat], h.buffers = heap.buffers,
           NEW z \in Noises, GetNext(Scan(z), h, loop), orderly' = (orderly /\ pos > 1),
           UNCHANGED <<rtype, input, handler>>, UNCHANGED wvars
    PROVE  Scripted' /\ Sourced' /\ Followed'
  <1>1. ReaderTypeOK
    BY DEF TInv, RInv
  <1>2. ~Lost => health \in {"ok", "error"}
    BY DEF Lost, Defined
  <1>3. Scan(z) \in Scans(HeaderNames) /\ Scan(z).doc = rdoc
    BY <1>1, ScanIs
  <1>4. Sound /\ pressed' = 0 =>
          \A b, ms : Lined(b, ms) /\ Reads(b, ms) =>
            Begins(b, Scan(z)) /\ (orderly' => orderly) /\ orderly' \in BOOLEAN
    BY <1>1, <1>2, NextBegins
  <1> DEFINE c == Scan(z)
  <1> HIDE DEF c
  <1>5. /\ c \in Scans(HeaderNames) /\ c.doc = rdoc /\ GetNext(c, h, loop)
        /\ Sound /\ pressed' = 0 =>
             \A b, ms : Lined(b, ms) /\ Reads(b, ms) =>
               Begins(b, c) /\ (orderly' => orderly) /\ orderly' \in BOOLEAN
    BY <1>3, <1>4 DEF c
  <1> QED  BY <1>5, CallFollows

\* In the loop of ujo_reader_parse the reader has what it was given.
LEMMA LoopFollows ==
    ASSUME Host = RHost, Nulls = {}, TInv, ParseLoop, UNCHANGED wvars
    PROVE  Scripted' /\ Sourced' /\ Followed'
  <1> DEFINE h == [heap EXCEPT !.elements = @ - 1]
  <1>1. /\ phase = "parse" /\ UNCHANGED <<rtype, input, pressed, handler>>
        /\ \/ /\ \E z \in Noises : GetNext(Scan(z), h, "parse")
              /\ orderly' = (orderly /\ pos > 1)
           \/ /\ rret' = UJO_ERR_CALLBACK /\ heap' = h /\ held' = <<>> /\ phase' = "idle"
              /\ UNCHANGED <<pos, off, rdoc, eod, health, got, orderly>>
    BY DEF ParseLoop, Turn
  <1>2. /\ heap \in [elements : Nat, payloads : Nat, buffers : Nat] /\ heap.elements >= Len(held)
        /\ held # <<>> /\ Len(held) \in Nat /\ rtype \in {"FILE", "MEMORY"} /\ health \in Defined
    BY <1>1 DEF TInv, RInv, ReaderTypeOK
  <1>3. heap.elements >= 1
    <2>1. heap.elements >= 1 /\ Len(held) = 1
      BY <1>2, HeldIs DEF TInv
    <2> QED  BY <2>1
  <1>4. h \in [elements : Nat, payloads : Nat, buffers : Nat] /\ h.buffers = heap.buffers
    BY <1>2, <1>3
  <1>5. rtype = "FILE" \/ (rtype = "MEMORY" /\ heap.buffers > 0)
    BY <1>1, <1>2 DEF TInv, Sourced
  <1> HIDE DEF h
  <1>6. CASE /\ rret' = UJO_ERR_CALLBACK /\ heap' = h /\ held' = <<>> /\ phase' = "idle"
             /\ UNCHANGED <<pos, off, rdoc, eod, health, got, orderly>>
    <2>1. Scripted' /\ Followed'
      BY <1>1, <1>6, QuietFollows
    <2>2. Sourced'
      BY <1>1, <1>2, <1>4, <1>6 DEF TInv, Sourced, wvars, Left
    <2> QED  BY <2>1, <2>2
  <1>7. ASSUME NEW z \in Noises, GetNext(Scan(z), h, "parse"), orderly' = (orderly /\ pos > 1)
        PROVE  Scripted' /\ Sourced' /\ Followed'
    <2>1. Sound => ~Lost
      BY <1>1 DEF TInv, Followed, Reads, Lost
    <2>2. pressed' = 0 => pressed = 0
      BY <1>1
    <2> QED  BY <1>1, <1>2, <1>4, <1>5, <1>7, <2>1, <2>2, NextFollows
  <1> QED  BY <1>1, <1>6, <1>7

\* ujo_free_element and the other calls that read nothing.
LEMMA ObjectFollows ==
    ASSUME TInv, UNCHANGED wvars,
           \/ ujo_free_element \/ ujo_new_memory_reader \/ OpenFile \/ ujo_free_reader
           \/ \E f \in BOOLEAN : ujo_reader_set_on_element(f)
    PROVE  Scripted' /\ Sourced' /\ Followed'
  <1>1. UNCHANGED <<wire, acked, doc, reported>>
    BY DEF wvars
  <1>2. heap \in [elements : Nat, payloads : Nat, buffers : Nat] /\ wire \in Seq(Chunks)
    BY DEF TInv, RInv, ReaderTypeOK, IInv, TypeOK
  <1>3. \A f : Left(f)' <=> Left(f)
    BY <1>1 DEF Left
  <1>4. CASE ujo_free_element
    <2>1. /\ held' = <<>> /\ heap'.buffers = heap.buffers
          /\ UNCHANGED <<rtype, input, pos, off, rdoc, eod, health, pressed, got, handler, phase, orderly>>
      BY <1>2, <1>4 DEF ujo_free_element
    <2>2. Sourced'
      BY <1>1, <1>3, <2>1 DEF TInv, Sourced, Fresh, Left
    <2> QED  BY <2>1, <2>2, QuietFollows
  <1>5. CASE \E f \in BOOLEAN : ujo_reader_set_on_element(f)
    <2>1. UNCHANGED <<rtype, input, pos, off, rdoc, eod, health, pressed, got, held, phase, orderly, heap>>
      BY <1>5 DEF ujo_reader_set_on_element
    <2>2. Sourced'
      BY <1>1, <2>1 DEF TInv, Sourced, Fresh, Left
    <2> QED  BY <2>1, <2>2, QuietFollows
  <1>6. CASE ujo_new_memory_reader
    <2>1. /\ rtype = "none" /\ rtype' = "MEMORY"
          /\ UNCHANGED <<input, pos, off, rdoc, eod, health, pressed, got, handler, held, phase,
                         orderly, heap>>
      BY <1>6 DEF ujo_new_memory_reader
    <2>2. Fresh
      BY <2>1 DEF TInv, Sourced
    <2>3. Sourced'
      BY <2>1, <2>2 DEF Sourced, Fresh
    <2>4. health = "ok"
      BY <2>2 DEF Fresh
    <2> QED  BY <2>1, <2>3, <2>4, QuietFollows
  <1>7. CASE OpenFile
    <2>1. PICK f \in Files :
            /\ rtype = "none" /\ rtype' = "FILE" /\ input' = f
            /\ UNCHANGED <<pos, off, rdoc, eod, health, pressed, got, handler, held, phase,
                           orderly, heap>>
      BY <1>7 DEF OpenFile, ujo_new_file_reader
    <2>2. Fresh
      BY <2>1 DEF TInv, Sourced
    <2>3. Left(f)
      BY <1>2, FilesLeft
    <2>4. Sourced'
      BY <1>1, <2>1, <2>3 DEF Sourced, Left
    <2>5. health = "ok" /\ ~eod
      BY <2>2 DEF Fresh
    <2> QED  BY <2>1, <2>4, <2>5, QuietFollows
  <1>8. CASE ujo_free_reader
    <2>1. /\ rtype' = "freed"
          /\ UNCHANGED <<input, pos, off, rdoc, eod, health, pressed, got, handler, held, phase,
                         orderly>>
      BY <1>8 DEF ujo_free_reader
    <2>2. Sourced'
      BY <2>1 DEF Sourced
    <2> QED  BY <2>1, <2>2, QuietFollows
  <1> QED  BY <1>4, <1>5, <1>6, <1>7, <1>8

\* ujo_reader_set_buffer: another document, from its start.
LEMMA AssignFollows ==
    ASSUME TInv, Assign, UNCHANGED wvars
    PROVE  Scripted' /\ Sourced' /\ Followed'
  <1>1. UNCHANGED <<wire, acked, doc, reported>>
    BY DEF wvars
  <1>2. /\ heap \in [elements : Nat, payloads : Nat, buffers : Nat] /\ rdoc \in Machines
        /\ acked \in Seq(Elements)
    BY DEF TInv, RInv, ReaderTypeOK, IInv, TypeOK
  <1>3. /\ doc.cur.state = "CLOSED" /\ rtype = "MEMORY" /\ rtype' = rtype
        /\ input' = wire /\ pos' = 1 /\ off' = 0
        /\ rdoc' = [ujo_clear_stack(rdoc) EXCEPT !.cur.state = "ROOT", !.lost = FALSE]
        /\ heap' = [heap EXCEPT !.buffers = @ + 1]
        /\ eod' = FALSE /\ health' = "ok" /\ got' = <<>> /\ orderly' = TRUE
    BY DEF Assign, ujo_reader_set_buffer
  <1>4. rdoc'.items = <<>> /\ rdoc'.cur.state = "ROOT"
    BY <1>2, <1>3 DEF ujo_clear_stack, Machines, ujo_state
  <1>5. heap'.buffers > 0
    BY <1>2, <1>3
  <1>6. Sourced'
    BY <1>1, <1>3, <1>5 DEF Sourced
  <1>7. Scripted'
    BY <1>1 DEF TInv, Scripted
  <1>8. ASSUME Sound' PROVE \E b, ms : Script(b, ms, wire', acked', doc') /\ Reads(b, ms)'
    <2>1. ~reported /\ ~doc.lost
      BY <1>1, <1>8 DEF Sound
    <2>2. PICK b, ms : Script(b, ms, wire, acked, doc)
      BY <2>1 DEF TInv, Scripted
    <2>3. Script(b, ms, wire', acked', doc') /\ acked' \in Seq(Elements)
      BY <1>1, <1>2, <2>2
    <2>4. Reads(b, ms)'
      BY <1>3, <1>4, <2>3, StartReads
    <2> QED  BY <2>3, <2>4
  <1> QED  BY <1>6, <1>7, <1>8 DEF Followed

\* The writer writes while there is no reader.
LEMMA WriteFollows ==
    ASSUME "put" \notin Faults, TInv, RInv', Write
    PROVE  Scripted' /\ Sourced' /\ Followed'
  <1>1. rtype = "none" /\ WNext /\ UNCHANGED rvars
    BY DEF Write
  <1>2. /\ UNCHANGED <<rtype, input, pos, off, rdoc, eod, health, pressed, got, held, phase, orderly, heap>>
    BY <1>1 DEF rvars
  <1>3. Fresh
    BY <1>1 DEF TInv, Sourced
  <1>4. Scripted'
    <2>1. IInv /\ IInv' /\ Scripted
      BY DEF TInv, RInv
    <2>2. Called
      BY <1>1, NextCalled
    <2> QED  BY <2>1, <2>2, CalledScripted
  <1>5. Sourced'
    BY <1>1, <1>2, <1>3 DEF Sourced, Fresh
  <1>6. ASSUME Sound' PROVE \E b, ms : Script(b, ms, wire', acked', doc') /\ Reads(b, ms)'
    <2>1. PICK b, ms : Script(b, ms, wire', acked', doc')
      BY <1>4, <1>6 DEF Sound, Scripted
    <2>2. acked' \in Seq(Elements)
      BY DEF RInv, IInv, TypeOK
    <2>3. NewMachine.items = <<>> /\ NewMachine.cur.state = "ROOT"
      BY DEF NewMachine, NewState
    <2>4. Reads(b, ms)'
      BY <1>2, <1>3, <2>1, <2>2, <2>3, StartReads DEF Fresh
    <2> QED  BY <2>1, <2>4
  <1> QED  BY <1>4, <1>5, <1>6 DEF Followed

\* Every step keeps the invariant.
LEMMA TNextKeeps ==
    ASSUME Host = RHost, Nulls = {}, "put" \notin Faults, TInv, [Next]_vars
    PROVE  TInv'
  <1>1. RInv'
    BY RNextKeeps DEF TInv
  <1>2. CASE Write
    BY <1>1, <1>2, WriteFollows DEF TInv
  <1>3. CASE Read
    <2>1. UNCHANGED wvars
      BY <1>3 DEF Read
    <2>2. CASE ujo_reader_get_first
      <3>1. Start /\ UNCHANGED <<rtype, input, handler>>
        BY <2>2 DEF ujo_reader_get_first
      <3>2. PICK z \in HeaderNoises : GetNext(ujo_reader_parse_header(Scan(z)), heap, "idle")
        BY <2>2 DEF ujo_reader_get_first
      <3> QED  BY <1>1, <2>1, <3>1, <3>2, FirstFollows DEF TInv
    <2>3. CASE ujo_reader_parse
      <3>1. Start /\ UNCHANGED <<rtype, input, handler>>
        BY <2>3 DEF ujo_reader_parse
      <3>2. PICK z \in HeaderNoises : GetNext(ujo_reader_parse_header(Scan(z)), heap, "parse")
        BY <2>3 DEF ujo_reader_parse
      <3> QED  BY <1>1, <2>1, <3>1, <3>2, FirstFollows DEF TInv
    <2>4. CASE ujo_reader_get_next
      <3>1. /\ rtype = "FILE" \/ (rtype = "MEMORY" /\ heap.buffers > 0)
            /\ health \in Defined /\ orderly' = (orderly /\ pos > 1)
            /\ pressed' = IF Lost THEN pressed + 1 ELSE pressed
            /\ UNCHANGED <<rtype, input, handler>>
        BY <2>4 DEF ujo_reader_get_next, Ready
      <3>2. heap \in [elements : Nat, payloads : Nat, buffers : Nat] /\ pressed \in Nat
        BY DEF TInv, RInv, ReaderTypeOK
      <3>3. PICK z \in Noises : GetNext(Scan(z), heap, "idle")
        BY <2>4 DEF ujo_reader_get_next
      <3>4. pressed' = 0 => pressed = 0 /\ ~Lost
        BY <3>1, <3>2
      <3> QED  BY <1>1, <2>1, <3>1, <3>2, <3>3, <3>4, NextFollows DEF TInv
    <2>5. CASE ParseLoop
      BY <1>1, <2>1, <2>5, LoopFollows DEF TInv
    <2>6. CASE Assign
      BY <1>1, <2>1, <2>6, AssignFollows DEF TInv
    <2>7. CASE \/ ujo_free_element \/ ujo_new_memory_reader \/ OpenFile \/ ujo_free_reader
               \/ \E f \in BOOLEAN : ujo_reader_set_on_element(f)
      BY <1>1, <2>1, <2>7, ObjectFollows DEF TInv
    <2> QED  BY <1>3, <2>2, <2>3, <2>4, <2>5, <2>6, <2>7 DEF Read, Reading
  <1>4. CASE UNCHANGED vars
    <2>1. /\ UNCHANGED wvars /\ UNCHANGED <<wire, doc>>
          /\ UNCHANGED <<rtype, input, pos, off, rdoc, eod, health, pressed, got, held, phase,
                         orderly, heap>>
      BY <1>4 DEF vars, wvars, rvars
    <2>2. Scripted' /\ Followed'
      BY <2>1, QuietFollows
    <2>3. Sourced'
      BY <2>1 DEF TInv, Sourced, Fresh, Left
    <2> QED  BY <1>1, <2>2, <2>3 DEF TInv
  <1> QED  BY <1>2, <1>3, <1>4 DEF Next

\* It holds before anything is written.
LEMMA TInitKeeps ==
    ASSUME Init
    PROVE  TInv
  <1>1. RInv
    BY RInitKeeps
  <1>2. Scripted
    BY InitScripted DEF Init
  <1>3. Fresh /\ rtype = "none"
    BY DEF Init, RInit, Fresh
  <1>4. Sourced
    BY <1>3 DEF Sourced
  <1>5. ASSUME Sound PROVE \E b, ms : Script(b, ms, wire, acked, doc) /\ Reads(b, ms)
    <2>1. PICK b, ms : Script(b, ms, wire, acked, doc)
      BY <1>2, <1>5 DEF Sound, Scripted
    <2>2. ms[0] = NewMachine /\ acked \in Seq(Elements)
      BY <1>1, <2>1 DEF Script, RInv, IInv, TypeOK
    <2>3. Len(got) = 0 /\ 0 <= Len(acked) /\ \A i \in 1 .. 0 : FALSE
      BY <1>3, <2>2 DEF Fresh
    <2>4. Same(NewMachine, NewMachine)
      BY ResetSame DEF NewMachine, NewState
    <2>5. Reads(b, ms)
      BY <1>3, <2>2, <2>3, <2>4 DEF Reads, Fresh
    <2> QED  BY <2>1, <2>5
  <1> QED  BY <1>1, <1>2, <1>4, <1>5 DEF TInv, Followed

\* Every state of a document on its way.
LEMMA TInvHolds ==
    ASSUME Host = RHost, Nulls = {}, "put" \notin Faults
    PROVE  Spec => []TInv
  <1>1. Init => TInv
    BY TInitKeeps
  <1>2. TInv /\ [Next]_vars => TInv'
    BY TNextKeeps
  <1> QED  BY <1>1, <1>2, PTL DEF Spec

\* What the reader finds is what the application wrote, in the order of the calls,
\* and the end is signalled after the last element and not before: for documents of
\* any length, nesting and types, any cut of the file, and any calls of both
\* interfaces in whatever order up to the first that fails, but for the end of a
\* file, and from the next buffer on, on one kind of host and without NULL values
\* (ujo_reader_get_next and the put sequences of ujo_writer.c).
THEOREM RoundTrips ==
    ASSUME Host = RHost, Nulls = {}, "put" \notin Faults
    PROVE  Spec => []RoundTrip
  <1>1. TInv => RoundTrip
    <2> SUFFICES ASSUME TInv, Sound
                 PROVE  IsPrefix(got, acked) /\ (eod => got = acked /\ pos = Len(input) + 1)
      BY DEF RoundTrip
    <2>1. PICK b, ms : Reads(b, ms)
      BY DEF TInv, Followed
    <2>2. got \in Seq(Elements) /\ acked \in Seq(Elements)
      BY DEF TInv, RInv, IInv, TypeOK, ReaderTypeOK
    <2>3. /\ Len(got) <= Len(acked) /\ \A i \in 1 .. Len(got) : got[i] = acked[i]
          /\ eod => Len(got) = Len(acked) /\ pos = Len(input) + 1
      BY <2>1 DEF Reads
    <2>4. Len(got) = Len(acked) => got = acked
      BY <2>2, <2>3
    <2>5. IsPrefix(got, acked)
      <3> DEFINE s == SubSeq(acked, 1, Len(got))
      <3>1. s \in Seq(Elements) /\ Len(s) = Len(got) /\ \A i \in 1 .. Len(got) : s[i] = acked[i]
        BY <2>2, <2>3
      <3>2. got = s
        <4> HIDE DEF s
        <4> QED  BY <2>2, <2>3, <3>1
      <3> QED  BY <2>3, <3>2 DEF IsPrefix
    <2> QED  BY <2>3, <2>4, <2>5
  <1> QED  BY <1>1, TInvHolds, PTL

\* In the documented order of the calls, up to the first that fails, no read leaves
\* the buffer or crosses the border of an element, and no terminator pops an empty
\* stack (_ujo_reader_get_memory_data, ujo_state_prev).
THEOREM StaysInStep ==
    ASSUME Host = RHost, Nulls = {}, "put" \notin Faults
    PROVE  Spec => []ReadsInStep
  <1>1. TInv => ReadsInStep
    BY DEF TInv, Followed, Reads, ReadsInStep
  <1> QED  BY <1>1, TInvHolds, PTL

\* The first call out of that order does not yield an element: no octet at the
\* border of two elements passes for the magic code, and the first octet of that
\* for no tag (ujo_reader_get_first, ujo_reader_get_next).  Of calls that ignore its
\* error nothing is said.
THEOREM MisuseIsBarren ==
    ASSUME Host = RHost, Nulls = {}, "put" \notin Faults
    PROVE  Spec => []MisuseYieldsNothing
  <1>1. TInv => MisuseYieldsNothing
    BY DEF TInv, Followed, Reads, MisuseYieldsNothing
  <1> QED  BY <1>1, TInvHolds, PTL

-----------------------------------------------------------------------------
(* The accessors.                                                           *)

\* The element that is held is the last one found, unless the call that found it
\* followed an error.
Latest == held # <<>> /\ got # <<>> /\ ~Lost => held = <<got[Len(got)]>>

\* A call of ujo_reader_get_next hands out what it found, or nothing.
LEMMA CallLatest ==
    ASSUME got \in Seq(Elements), NEW c, NEW h, NEW loop, GetNext(c, h, loop)
    PROVE  Latest'
  <1>0. CASE Lost'
    BY <1>0 DEF Latest
  <1>1. CASE held' = <<>>
    BY <1>1 DEF Latest
  <1>2. ASSUME NEW e, got' = Append(got, e), held' = <<e>>
        PROVE  Latest'
    <2>1. got'[Len(got')] = e
      BY <1>2
    <2> QED  BY <1>2, <2>1 DEF Latest
  <1>3. \/ held' = <<>>
        \/ \E d : Yields(d, h, loop)
    BY GetNextCases DEF Stops, Ends, Finds, Fails
  <1>4. ASSUME NEW d, Yields(d, h, loop)
        PROVE  Lost' \/ \E e : got' = Append(got, e) /\ held' = <<e>>
    <2>1. CASE Lost
      BY <1>4, <2>1 DEF Yields, Success, Lost
    <2>2. CASE ~Lost
      BY <1>4, <2>2 DEF Yields
    <2> QED  BY <2>1, <2>2
  <1> QED  BY <1>0, <1>1, <1>2, <1>3, <1>4

\* Every step keeps it.
LEMMA LatestKept ==
    ASSUME RInv, Latest, [Next]_vars
    PROVE  Latest'
  <1>1. got \in Seq(Elements)
    BY DEF RInv, ReaderTypeOK
  <1>2. CASE UNCHANGED <<held, got, health>> \/ held' = <<>> \/ got' = <<>>
    BY <1>2 DEF Latest, Lost
  <1>3. CASE \E c, h, loop : GetNext(c, h, loop)
    BY <1>1, <1>3, CallLatest
  <1>4. CASE Write \/ UNCHANGED vars
    BY <1>2, <1>4 DEF Write, vars, rvars
  <1>5. CASE ujo_reader_get_first \/ ujo_reader_parse \/ ujo_reader_get_next
    BY <1>3, <1>5 DEF ujo_reader_get_first, ujo_reader_parse, ujo_reader_get_next
  <1>6. CASE ParseLoop
    BY <1>2, <1>3, <1>6 DEF ParseLoop, Turn
  <1>7. CASE Assign
    BY <1>2, <1>7 DEF Assign, ujo_reader_set_buffer
  <1>8. CASE \/ ujo_free_element \/ ujo_new_memory_reader \/ OpenFile \/ ujo_free_reader
             \/ \E f \in BOOLEAN : ujo_reader_set_on_element(f)
    BY <1>2, <1>8 DEF ujo_free_element, ujo_new_memory_reader, OpenFile, ujo_new_file_reader,
                      ujo_free_reader, ujo_reader_set_on_element
  <1> QED  BY <1>4, <1>5, <1>6, <1>7, <1>8 DEF Next, Read, Reading

\* The check of the type, and what passes it.
LEMMA RetrieveIs ==
    ASSUME NEW h, NEW t
    PROVE  /\ Retrieve(h, t).code = UJO_SUCCESS <=> h # <<>> /\ h[1].type = t
           /\ h # <<>> /\ h[1].type = t => Retrieve(h, t).value = h[1].data
           /\ ~(h # <<>> /\ h[1].type = t) => Retrieve(h, t).value = {}
  BY DEF Retrieve, Refused, UJO_SUCCESS, UJO_ERR_INVALID_DATA

\* The check of the subtype as well.
LEMMA RetrieveStringIs ==
    ASSUME NEW h, NEW sub
    PROVE  /\ RetrieveString(h, sub).code = UJO_SUCCESS <=>
                h # <<>> /\ h[1].type = UJO_TYPE_STRING /\ <<"type", sub>> \in h[1].data
           /\ h # <<>> /\ h[1].type = UJO_TYPE_STRING /\ <<"type", sub>> \in h[1].data =>
                RetrieveString(h, sub).value = h[1].data
  BY DEF RetrieveString, Refused, UJO_SUCCESS, UJO_ERR_INVALID_DATA

\* The conversion of a half keeps the code.
LEMMA HalfAnswer ==
    ASSUME NEW h
    PROVE  /\ ujo_element_get_float16(h).code = Retrieve(h, UJO_TYPE_FLOAT16).code
           /\ ujo_element_get_float16(h).value =
                { <<m[1], half_to_float(m[2])>> : m \in Retrieve(h, UJO_TYPE_FLOAT16).value }
  BY DEF ujo_element_get_float16, Retrieve, Refused

\* The accessor a is the one for the element e.
Meant(a, e) ==
    \/ a = "int8" /\ e.type = UJO_TYPE_INT8
    \/ a = "int16" /\ e.type = UJO_TYPE_INT16
    \/ a = "int32" /\ e.type = UJO_TYPE_INT32
    \/ a = "int64" /\ e.type = UJO_TYPE_INT64
    \/ a = "uint8" /\ e.type = UJO_TYPE_UINT8
    \/ a = "uint16" /\ e.type = UJO_TYPE_UINT16
    \/ a = "uint32" /\ e.type = UJO_TYPE_UINT32
    \/ a = "uint64" /\ e.type = UJO_TYPE_UINT64
    \/ a = "float16" /\ e.type = UJO_TYPE_FLOAT16
    \/ a = "float32" /\ e.type = UJO_TYPE_FLOAT32
    \/ a = "float64" /\ e.type = UJO_TYPE_FLOAT64
    \/ a = "bool" /\ e.type = UJO_TYPE_BOOL
    \/ a = "uxtime" /\ e.type = UJO_TYPE_UX_TIME
    \/ a = "date" /\ e.type = UJO_TYPE_DATE
    \/ a = "time" /\ e.type = UJO_TYPE_TIME
    \/ a = "timestamp" /\ e.type = UJO_TYPE_TIMESTAMP
    \/ a = "binary" /\ e.type = UJO_TYPE_BIN
    \/ a = "string_c" /\ e.type = UJO_TYPE_STRING /\ <<"type", UJO_SUB_STRING_C>> \in e.data
    \/ a = "string_u8" /\ e.type = UJO_TYPE_STRING /\ <<"type", UJO_SUB_STRING_U8>> \in e.data
    \/ a = "string_u16" /\ e.type = UJO_TYPE_STRING /\ <<"type", UJO_SUB_STRING_U16>> \in e.data
    \/ a = "string_u32" /\ e.type = UJO_TYPE_STRING /\ <<"type", UJO_SUB_STRING_U32>> \in e.data

\* Of an element only that accessor accepts it, and hands out its members.
LEMMA AcceptedIs ==
    ASSUME NEW e, held = <<e>>
    PROVE  /\ \A a : a \in Accepted <=> Meant(a, e)
           /\ \A a \in Accepted : a # "float16" => Answers(held)[a].value = e.data
           /\ "float16" \in Accepted =>
                Answers(held)["float16"].value = { <<m[1], half_to_float(m[2])>> : m \in e.data }
  <1>1. held # <<>> /\ held[1] = e
    OBVIOUS
  <1>2. \A t : /\ Retrieve(held, t).code = UJO_SUCCESS <=> e.type = t
               /\ e.type = t => Retrieve(held, t).value = e.data
    BY <1>1, RetrieveIs
  <1>3. \A sub : /\ RetrieveString(held, sub).code = UJO_SUCCESS <=>
                      e.type = UJO_TYPE_STRING /\ <<"type", sub>> \in e.data
                 /\ e.type = UJO_TYPE_STRING /\ <<"type", sub>> \in e.data =>
                      RetrieveString(held, sub).value = e.data
    BY <1>1, RetrieveStringIs
  <1>4. /\ ujo_element_get_float16(held).code = UJO_SUCCESS <=> e.type = UJO_TYPE_FLOAT16
        /\ e.type = UJO_TYPE_FLOAT16 =>
             ujo_element_get_float16(held).value = { <<m[1], half_to_float(m[2])>> : m \in e.data }
    BY <1>2, HalfAnswer
  <1> DEFINE A == Answers(held)
  <1>5. /\ DOMAIN A = {"int8", "int16", "int32", "int64", "uint8", "uint16", "uint32",
                        "uint64", "float16", "float32", "float64", "bool", "uxtime",
                        "date", "time", "timestamp", "binary", "string_c", "string_u8",
                        "string_u16", "string_u32"}
        /\ A["int8"] = Retrieve(held, UJO_TYPE_INT8)
        /\ A["int16"] = Retrieve(held, UJO_TYPE_INT16)
        /\ A["int32"] = Retrieve(held, UJO_TYPE_INT32)
        /\ A["int64"] = Retrieve(held, UJO_TYPE_INT64)
        /\ A["uint8"] = Retrieve(held, UJO_TYPE_UINT8)
        /\ A["uint16"] = Retrieve(held, UJO_TYPE_UINT16)
        /\ A["uint32"] = Retrieve(held, UJO_TYPE_UINT32)
        /\ A["uint64"] = Retrieve(held, UJO_TYPE_UINT64)
        /\ A["float16"] = ujo_element_get_float16(held)
        /\ A["float32"] = Retrieve(held, UJO_TYPE_FLOAT32)
        /\ A["float64"] = Retrieve(held, UJO_TYPE_FLOAT64)
        /\ A["bool"] = Retrieve(held, UJO_TYPE_BOOL)
        /\ A["uxtime"] = Retrieve(held, UJO_TYPE_UX_TIME)
        /\ A["date"] = Retrieve(held, UJO_TYPE_DATE)
        /\ A["time"] = Retrieve(held, UJO_TYPE_TIME)
        /\ A["timestamp"] = Retrieve(held, UJO_TYPE_TIMESTAMP)
        /\ A["binary"] = Retrieve(held, UJO_TYPE_BIN)
        /\ A["string_c"] = RetrieveString(held, UJO_SUB_STRING_C)
        /\ A["string_u8"] = RetrieveString(held, UJO_SUB_STRING_U8)
        /\ A["string_u16"] = RetrieveString(held, UJO_SUB_STRING_U16)
        /\ A["string_u32"] = RetrieveString(held, UJO_SUB_STRING_U32)
    BY DEF Answers,
           ujo_element_get_int8, ujo_element_get_int16, ujo_element_get_int32,
           ujo_element_get_int64, ujo_element_get_uint8, ujo_element_get_uint16,
           ujo_element_get_uint32, ujo_element_get_uint64, ujo_element_get_float32,
           ujo_element_get_float64, ujo_element_get_bool, ujo_element_get_uxtime,
           ujo_element_get_date, ujo_element_get_time, ujo_element_get_timestamp,
           ujo_element_get_binary, ujo_element_get_string_c, ujo_element_get_string_u8,
           ujo_element_get_string_u16, ujo_element_get_string_u32
  <1> HIDE DEF A
  <1>6. \A a : a \in Accepted <=> a \in DOMAIN A /\ A[a].code = UJO_SUCCESS
    BY DEF Accepted, A
  <1>7. \A a : a \in Accepted <=> Meant(a, e)
    BY <1>2, <1>3, <1>4, <1>5, <1>6 DEF Meant
  <1>8. ASSUME NEW a \in Accepted, a # "float16"
        PROVE  A[a].value = e.data
    BY <1>2, <1>3, <1>5, <1>7, <1>8 DEF Meant
  <1>9. "float16" \in Accepted =>
           A["float16"].value = { <<m[1], half_to_float(m[2])>> : m \in e.data }
    BY <1>4, <1>5, <1>6
  <1> QED  BY <1>7, <1>8, <1>9 DEF A

\* The subtype of a string is the one it was written with.
LEMMA SubtypeIs ==
    ASSUME NEW sub \in 0 .. 3, NEW n, NEW x, NEW s
    PROVE  <<"type", s>> \in Stored(sub, n, x) <=> s = sub
  BY DEF Stored

\* The accessor of a string.
LEMMA StringAccessor ==
    ASSUME NEW e, e.type = UJO_TYPE_STRING, NEW sub \in 0 .. 3, NEW n, NEW x,
           e.data = Stored(sub, n, x), NEW a
    PROVE  Meant(a, e) <=> a = Accessor(e)
  <1>1. \A s : <<"type", s>> \in e.data <=> s = sub
    <2>1. \A s : <<"type", s>> \in Stored(sub, n, x) <=> s = sub
      BY SubtypeIs
    <2> QED  BY <2>1
  <1>2. (CHOOSE s \in 0 .. 3 : <<"type", s>> \in e.data) = sub
    BY <1>1
  <1>3. Accessor(e) = <<"string_c", "string_u8", "string_u16", "string_u32">>[sub + 1]
    BY <1>2 DEF Accessor
  <1>4. \/ sub = 0 /\ Accessor(e) = "string_c"
        \/ sub = 1 /\ Accessor(e) = "string_u8"
        \/ sub = 2 /\ Accessor(e) = "string_u16"
        \/ sub = 3 /\ Accessor(e) = "string_u32"
    BY <1>3
  <1>5. \A t : e.type = t => t = 4
    BY DEF UJO_TYPE_STRING
  <1> QED  BY <1>1, <1>4, <1>5
           DEF Meant, UJO_SUB_STRING_C, UJO_SUB_STRING_U8, UJO_SUB_STRING_U16,
               UJO_SUB_STRING_U32,
               UJO_TYPE_INT8, UJO_TYPE_INT16, UJO_TYPE_INT32, UJO_TYPE_INT64,
               UJO_TYPE_UINT8, UJO_TYPE_UINT16, UJO_TYPE_UINT32, UJO_TYPE_UINT64,
               UJO_TYPE_FLOAT16, UJO_TYPE_FLOAT32, UJO_TYPE_FLOAT64, UJO_TYPE_BOOL,
               UJO_TYPE_UX_TIME, UJO_TYPE_DATE, UJO_TYPE_TIME, UJO_TYPE_TIMESTAMP,
               UJO_TYPE_BIN, UJO_TYPE_STRING, UJO_TYPE_NONE

\* The accessor of another value.
LEMMA ValueAccessor ==
    ASSUME NEW e, e.type \in AtomicTypes, e.type # UJO_TYPE_STRING, e.type # UJO_TYPE_NONE, NEW a
    PROVE  Meant(a, e) <=> a = Accessor(e)
  <1> DEFINE t == e.type
  <1>1. /\ t \in 1 .. 19 /\ t # 4 /\ t # 15
    BY DEF AtomicTypes, UJO_TYPE_FLOAT64, UJO_TYPE_TIMESTAMP, UJO_TYPE_STRING, UJO_TYPE_NONE
  <1>2. Accessor(e) =
          <<"float64", "float32", "float16", "string", "int64", "int32", "int16", "int8",
            "uint64", "uint32", "uint16", "uint8", "bool", "binary", "none", "uxtime",
            "date", "time", "timestamp">>[t]
    BY DEF Accessor
  <1> HIDE DEF t
  <1>3. /\ t = 1 => Accessor(e) = "float64"
        /\ t = 2 => Accessor(e) = "float32"
        /\ t = 3 => Accessor(e) = "float16"
        /\ t = 5 => Accessor(e) = "int64"
        /\ t = 6 => Accessor(e) = "int32"
        /\ t = 7 => Accessor(e) = "int16"
        /\ t = 8 => Accessor(e) = "int8"
        /\ t = 9 => Accessor(e) = "uint64"
        /\ t = 10 => Accessor(e) = "uint32"
        /\ t = 11 => Accessor(e) = "uint16"
        /\ t = 12 => Accessor(e) = "uint8"
        /\ t = 13 => Accessor(e) = "bool"
        /\ t = 14 => Accessor(e) = "binary"
        /\ t = 16 => Accessor(e) = "uxtime"
        /\ t = 17 => Accessor(e) = "date"
        /\ t = 18 => Accessor(e) = "time"
        /\ t = 19 => Accessor(e) = "timestamp"
    BY <1>2
  <1>4. Meant(a, e) <=>
          \/ a = "float64" /\ t = 1
          \/ a = "float32" /\ t = 2
          \/ a = "float16" /\ t = 3
          \/ a = "int64" /\ t = 5
          \/ a = "int32" /\ t = 6
          \/ a = "int16" /\ t = 7
          \/ a = "int8" /\ t = 8
          \/ a = "uint64" /\ t = 9
          \/ a = "uint32" /\ t = 10
          \/ a = "uint16" /\ t = 11
          \/ a = "uint8" /\ t = 12
          \/ a = "bool" /\ t = 13
          \/ a = "binary" /\ t = 14
          \/ a = "uxtime" /\ t = 16
          \/ a = "date" /\ t = 17
          \/ a = "time" /\ t = 18
          \/ a = "timestamp" /\ t = 19
    BY <1>1 DEF Meant, t,
               UJO_TYPE_INT8, UJO_TYPE_INT16, UJO_TYPE_INT32, UJO_TYPE_INT64,
               UJO_TYPE_UINT8, UJO_TYPE_UINT16, UJO_TYPE_UINT32, UJO_TYPE_UINT64,
               UJO_TYPE_FLOAT16, UJO_TYPE_FLOAT32, UJO_TYPE_FLOAT64, UJO_TYPE_BOOL,
               UJO_TYPE_UX_TIME, UJO_TYPE_DATE, UJO_TYPE_TIME, UJO_TYPE_TIMESTAMP,
               UJO_TYPE_BIN, UJO_TYPE_STRING, UJO_TYPE_NONE
  <1> QED  BY <1>1, <1>3, <1>4

\* An element without a value has none.
LEMMA NoAccessor ==
    ASSUME NEW e, e.type \notin AtomicTypes \/ e.type = UJO_TYPE_NONE, NEW a
    PROVE  ~Meant(a, e)
  BY DEF Meant, AtomicTypes,
           UJO_TYPE_INT8, UJO_TYPE_INT16, UJO_TYPE_INT32, UJO_TYPE_INT64,
           UJO_TYPE_UINT8, UJO_TYPE_UINT16, UJO_TYPE_UINT32, UJO_TYPE_UINT64,
           UJO_TYPE_FLOAT16, UJO_TYPE_FLOAT32, UJO_TYPE_FLOAT64, UJO_TYPE_BOOL,
           UJO_TYPE_UX_TIME, UJO_TYPE_DATE, UJO_TYPE_TIME, UJO_TYPE_TIMESTAMP,
           UJO_TYPE_BIN, UJO_TYPE_STRING, UJO_TYPE_NONE

\* A half that was written is that of the float it is read as.
LEMMA WrittenSurvives ==
    ASSUME NEW x, HalfWritten(x)
    PROVE  float_to_half(half_to_float(x)) = x
  <1>1. PICK f \in Float32s : x = float_to_half(f) /\ Finite(x)
    BY DEF HalfWritten
  <1>2. ~isinf_float16(float_to_half(f))
    BY <1>1 DEF Finite
  <1>3. Exponent(f) < 143
    BY <1>2, RefusedIsTooLarge, Fields
  <1> QED  BY <1>1, <1>3, HalfSurvives

\* What is a half and what is a string, by the types of their elements.
LEMMA CodedForm ==
    ASSUME Nulls = {}, NEW e, NEW ws, Coded(e, ws)
    PROVE  /\ e.type = UJO_TYPE_FLOAT16 => \E x : e.data = {<<"value", x>>} /\ HalfWritten(x)
           /\ e.type = UJO_TYPE_STRING =>
                \E sub \in 0 .. 3, n \in Nat, x \in Nat : e.data = Stored(sub, n, x)
  <1>1. \A t, d : Element(t, d).type = t /\ Element(t, d).data = d
    BY DEF Element
  <1>2. CASE CodedTag(e, ws)
    BY <1>1, <1>2 DEF CodedTag, TagTypes, ContainerTypes, UJO_TERMINATOR, UJO_TYPE_NONE,
         UJO_TYPE_LIST, UJO_TYPE_MAP, UJO_TYPE_TABLE, UJO_TYPE_FLOAT16, UJO_TYPE_STRING
  <1>3. CASE CodedScalar(e, ws)
    <2>1. PICK t \in ScalarTypes, x \in Nat :
            (t = UJO_TYPE_FLOAT16 => HalfWritten(x)) /\ e = Element(t, {<<"value", x>>})
      BY <1>3 DEF CodedScalar
    <2>2. e.type = t /\ e.data = {<<"value", x>>}
      BY <1>1, <2>1
    <2>3. t # UJO_TYPE_STRING
      BY DEF ScalarTypes, SizedTypes
    <2> QED  BY <2>1, <2>2, <2>3
  <1>4. CASE CodedDate(e, ws) \/ CodedTime(e, ws) \/ CodedTimestamp(e, ws)
    <2>1. e.type \in {UJO_TYPE_DATE, UJO_TYPE_TIME, UJO_TYPE_TIMESTAMP}
      BY <1>1, <1>4 DEF CodedDate, CodedTime, CodedTimestamp
    <2> QED  BY <2>1 DEF UJO_TYPE_DATE, UJO_TYPE_TIME, UJO_TYPE_TIMESTAMP, UJO_TYPE_FLOAT16,
                         UJO_TYPE_STRING
  <1>5. CASE CodedSized(e, ws)
    <2>1. PICK t \in SizedTypes, sub \in Nat, n \in Nat, block \in Chunks :
            (t = UJO_TYPE_STRING => sub \in 0 .. 3) /\ e = Element(t, Stored(sub, n, block.val))
      BY <1>5 DEF CodedSized
    <2>2. e.type = t /\ e.data = Stored(sub, n, block.val)
      BY <1>1, <2>1
    <2>3. t # UJO_TYPE_FLOAT16 /\ block.val \in Nat
      BY DEF Chunks, SizedTypes, UJO_TYPE_STRING, UJO_TYPE_BIN, UJO_TYPE_FLOAT16
    <2> QED  BY <2>1, <2>2, <2>3
  <1>6. ~CodedNull(e, ws)
    BY DEF CodedNull
  <1> QED  BY <1>2, <1>3, <1>4, <1>5, <1>6 DEF Coded

\* All accessors together answer as they should.
LEMMA CodedAnswers ==
    ASSUME Nulls = {}, NEW e, NEW ws, Coded(e, ws), held = <<e>>
    PROVE  AnsweredAs(e)
  <1>1. held # <<>> /\ held[1] = e
    OBVIOUS
  <1>2. ujo_element_get_type(held).value = {<<"type", e.type>>}
    BY <1>1 DEF ujo_element_get_type
  <1>3. ujo_element_get_string_type(held).value =
          { m \in e.data : e.type = UJO_TYPE_STRING /\ m[1] = "type" }
    <2>1. ujo_element_get_string_type(held).value =
            { m \in Retrieve(held, UJO_TYPE_STRING).value : m[1] = "type" }
      BY DEF ujo_element_get_string_type, Retrieve, Refused
    <2> QED  BY <1>1, <2>1, RetrieveIs
  <1>4. Accepted = IF e.type \in AtomicTypes \ {UJO_TYPE_NONE} THEN {Accessor(e)} ELSE {}
    <2>1. \A a : a \in Accepted <=> Meant(a, e)
      BY AcceptedIs
    <2>2. CASE e.type \notin AtomicTypes \/ e.type = UJO_TYPE_NONE
      BY <2>1, <2>2, NoAccessor
    <2>3. CASE e.type \in AtomicTypes \ {UJO_TYPE_NONE}
      <3>1. \A a : Meant(a, e) <=> a = Accessor(e)
        <4>1. CASE e.type = UJO_TYPE_STRING
          <5>1. PICK sub \in 0 .. 3, n \in Nat, x \in Nat : e.data = Stored(sub, n, x)
            BY <4>1, CodedForm
          <5> QED  BY <4>1, <5>1, StringAccessor
        <4>2. CASE e.type # UJO_TYPE_STRING
          BY <2>3, <4>2, ValueAccessor
        <4> QED  BY <4>1, <4>2
      <3> QED  BY <2>1, <2>3, <3>1
    <2> QED  BY <2>2, <2>3
  <1>5. ASSUME NEW a \in Accepted, a # "float16"
        PROVE  Answers(held)[a].value = e.data
    BY <1>5, AcceptedIs
  <1>6. ASSUME "float16" \in Accepted, NEW m \in Answers(held)["float16"].value
        PROVE  <<"value", float_to_half(m[2])>> \in e.data
    <2>1. Meant("float16", e)
      BY <1>6, AcceptedIs
    <2>2. e.type = UJO_TYPE_FLOAT16
      BY <2>1 DEF Meant
    <2>3. PICK x : e.data = {<<"value", x>>} /\ HalfWritten(x)
      BY <2>2, CodedForm
    <2>4. Answers(held)["float16"].value = { <<q[1], half_to_float(q[2])>> : q \in e.data }
      BY <1>6, AcceptedIs
    <2>5. m = <<"value", half_to_float(x)>>
      BY <1>6, <2>3, <2>4
    <2>6. float_to_half(half_to_float(x)) = x
      BY <2>3, WrittenSurvives
    <2> QED  BY <2>3, <2>5, <2>6
  <1> QED  BY <1>2, <1>3, <1>4, <1>5, <1>6 DEF AnsweredAs

\* A failed call leaves nothing to any accessor.
LEMMA NothingAccepted ==
    ASSUME held = <<>>
    PROVE  Accepted = {}
  <1>1. /\ \A t : Retrieve(held, t).code # UJO_SUCCESS
        /\ \A s : RetrieveString(held, s).code # UJO_SUCCESS
    BY RetrieveIs, RetrieveStringIs
  <1>2. ujo_element_get_float16(held).code # UJO_SUCCESS
    BY <1>1, HalfAnswer
  <1> QED  BY <1>1, <1>2
           DEF Accepted, Answers,
               ujo_element_get_int8, ujo_element_get_int16, ujo_element_get_int32,
               ujo_element_get_int64, ujo_element_get_uint8, ujo_element_get_uint16,
               ujo_element_get_uint32, ujo_element_get_uint64, ujo_element_get_float32,
               ujo_element_get_float64, ujo_element_get_bool, ujo_element_get_uxtime,
               ujo_element_get_date, ujo_element_get_time, ujo_element_get_timestamp,
               ujo_element_get_binary, ujo_element_get_string_c,
               ujo_element_get_string_u8, ujo_element_get_string_u16,
               ujo_element_get_string_u32

\* Exactly the accessor of the add function accepts an element, and it returns what
\* that function was given, a half as the float it stands for: for every type,
\* subtype, value and length a count can hold, after any calls of the reader up to
\* the first that fails, but for the end of a file (ujo_element_get_*).
THEOREM OneAccessorAnswers ==
    ASSUME Host = RHost, Nulls = {}, "put" \notin Faults
    PROVE  Spec => []OneAccessor
  <1>1. ASSUME TInv, Latest PROVE OneAccessor
    <2>1. CASE held = <<>>
      BY <2>1, NothingAccepted DEF OneAccessor
    <2>2. ASSUME Sound, held # <<>>, got # <<>>
          PROVE  AnsweredAs(acked[Len(got)])
      <3> DEFINE k == Len(got)
      <3>1. got \in Seq(Elements) /\ acked \in Seq(Elements)
        BY <1>1 DEF TInv, RInv, IInv, TypeOK, ReaderTypeOK
      <3>2. PICK b, ms : Script(b, ms, wire, acked, doc) /\ Reads(b, ms)
        BY <1>1, <2>2 DEF TInv, Followed
      <3>7. ~Lost
        BY <2>2, <3>2 DEF Reads, Lost
      <3>3. k \in 1 .. Len(acked) /\ got[k] = acked[k]
        <4>1. k \in 1 .. Len(got)
          BY <2>2, <3>1
        <4> QED  BY <3>1, <3>2, <4>1 DEF Reads
      <3> HIDE DEF k
      <3>4. held = <<acked[k]>>
        BY <1>1, <2>2, <3>3, <3>7 DEF Latest, k
      <3>5. PICK ws : Coded(acked[k], ws)
        BY <3>2, <3>3 DEF Script, Spans
      <3>6. AnsweredAs(acked[k])
        BY <3>4, <3>5, CodedAnswers
      <3> QED  BY <3>6 DEF k
    <2> QED  BY <2>1, <2>2 DEF OneAccessor
  <1>2. Init => Latest
    BY DEF Init, RInit, Latest
  <1>3. TInv => RInv
    BY DEF TInv
  <1>4. RInv /\ Latest /\ [Next]_vars => Latest'
    BY LatestKept
  <1> QED  BY <1>1, <1>2, <1>3, <1>4, TInvHolds, PTL DEF Spec

-----------------------------------------------------------------------------
(* The parse loop.                                                          *)

\* One scan is behind another, in octets.
Beyond(d, c) == d.pos > c.pos \/ (d.pos = c.pos /\ d.off > c.off)

\* A type that was read is behind where the read began.
LEMMA TagAdvances ==
    ASSUME input \in Seq(Chunks), NEW c \in Scans(HeaderNames), Going(ReadType(c))
    PROVE  Beyond(ReadType(c), c)
  <1> DEFINE first == [c EXCEPT !.off = 1, !.data = {<<"tag", input[1].val>>}]
             clean == [c EXCEPT !.data = {}]
             fs == <<Field("tag", 1)>>
             next == Get(clean, fs)
             start == InStep(c) /\ c.pos = 1 /\ Remaining(1) > 0
             t == IF start THEN first ELSE next
             typed == [t EXCEPT !.type = Member(t, "tag") % 256, !.data = {}]
  <1>1. ReadType(c) = IF Going(t) THEN typed ELSE t
    BY DEF ReadType
  <1>2. c.pos \in Nat /\ c.off \in Nat
    BY DEF Scans, Progress
  <1>3. Len(fs) = 1 /\ Bytes(fs) = 1 /\ Readable(fs, HeaderNames)
    <2> DEFINE f == Field("tag", 1)
    <2>1. f.size = 1
      BY DEF Field
    <2> HIDE DEF f
    <2>2. \A x \in {f} : x.size \in Nat
      BY <2>1
    <2>3. Bytes(<<f>>) = f.size
      BY <2>2, BytesOne
    <2>4. Readable(<<Field("tag", 1)>>, HeaderNames)
      BY FieldReadable DEF HeaderNames
    <2> QED  BY <2>1, <2>3, <2>4 DEF f
  <1>4. /\ clean \in Scans(HeaderNames) /\ clean.pos = c.pos /\ clean.off = c.off
        /\ (InStep(clean) <=> InStep(c)) /\ (Going(clean) <=> Going(c))
    BY DEF Scans, Progress, InStep, Going
  <1> HIDE DEF clean, fs
  <1>5. ASSUME Going(next)
        PROVE  next \in Scans(HeaderNames) /\ Beyond(next, c)
    <2> DEFINE read == [clean EXCEPT !.pos = @ + Len(fs), !.data = @ \cup Decoded(clean, fs)]
               moved == [clean EXCEPT !.off = @ + Bytes(fs), !.health = "garbled",
                                      !.data = @ \cup Guessed(clean, fs)]
               short == [clean EXCEPT !.code = UJO_ERR_FILE, !.pos = Len(input) + 1, !.off = 0]
               over == [clean EXCEPT !.health = "overrun"]
    <2>1. next = IF ~Going(clean) THEN clean
                 ELSE IF InStep(clean) /\ Fitting(clean, fs) THEN read
                 ELSE IF clean.off + Bytes(fs) <= Remaining(clean.pos) THEN moved
                 ELSE IF rtype = "FILE" THEN short ELSE over
      BY DEF Get
    <2>2. /\ read.pos = c.pos + 1 /\ moved.pos = c.pos /\ moved.off = c.off + 1
          /\ ~Going(short) /\ ~Going(over)
      BY <1>3, <1>4, CodesDiffer DEF Scans, Progress, Going
    <2> HIDE DEF read, moved, short, over
    <2>3. next = read \/ next = moved
      BY <1>5, <2>1, <2>2
    <2>4. next \in Scans(HeaderNames)
      BY <1>3, <1>4, GetIs
    <2> HIDE DEF next
    <2> QED  BY <1>2, <2>2, <2>3, <2>4 DEF Beyond
  <1>6. ASSUME start
        PROVE  Beyond(first, c) /\ first.pos = c.pos /\ first.off = 1
    BY <1>2, <1>6 DEF Scans, Progress, InStep, Beyond
  <1>7. Going(t) /\ ReadType(c) = typed
    <2> HIDE DEF t, typed
    <2> QED  BY <1>1
  <1>8. typed.pos = t.pos /\ typed.off = t.off
    <2>1. \A x, k : /\ [first EXCEPT !.type = x, !.data = k].pos = first.pos
                    /\ [first EXCEPT !.type = x, !.data = k].off = first.off
      BY DEF Scans, Progress
    <2>2. Going(next) => \A x, k : /\ [next EXCEPT !.type = x, !.data = k].pos = next.pos
                                   /\ [next EXCEPT !.type = x, !.data = k].off = next.off
      <3> HIDE DEF next
      <3> QED  BY <1>5 DEF Scans, Progress
    <2> HIDE DEF first, next
    <2> QED  BY <1>7, <2>1, <2>2
  <1>9. Beyond(t, c)
    <2> HIDE DEF first, next
    <2> QED  BY <1>5, <1>6, <1>7
  <1> HIDE DEF t, typed
  <1> QED  BY <1>7, <1>8, <1>9 DEF Beyond

\* An element was found further on, whatever it is.
LEMMA OutcomeAdvances ==
    ASSUME input \in Seq(Chunks), NEW c \in Scans(HeaderNames),
           NEW grow \in BOOLEAN, NEW mem \in BOOLEAN, Going(Outcome(c, grow, mem))
    PROVE  Beyond(Outcome(c, grow, mem), c)
  <1> DEFINE t == ReadType(c)
             d == Dispatch(t, grow, mem)
  <1>1. Going(t) /\ Outcome(c, grow, mem) = d
    BY DEF Outcome
  <1>2. t \in Scans(Members) /\ Beyond(t, c)
    BY <1>1, ReadTypeIs, TagAdvances
  <1> HIDE DEF t
  <1>3. d \in Scans(Members) /\ Further(d, t)
    BY <1>2, DispatchIs
  <1> HIDE DEF d
  <1>4. /\ c.pos \in Nat /\ c.off \in Nat /\ t.pos \in Nat /\ t.off \in Nat
        /\ d.pos \in Nat /\ d.off \in Nat
    BY <1>2, <1>3 DEF Scans, Progress
  <1>5. Beyond(d, c)
    BY <1>2, <1>3, <1>4 DEF Beyond, Further
  <1> QED  BY <1>1, <1>5

\* Whatever is parsed, cut anywhere, by whatever handler, with whatever failures and
\* in octets taken for whatever they are not: a turn of the loop of ujo_reader_parse
\* ends it or has read on in the octets of the input, which are finitely many, and
\* only a new buffer begins it again (ujo_reader_parse, ujo_reader_get_next).
THEOREM TurnsAdvance == Spec => LoopAdvances
  <1> DEFINE A == ParseLoop => phase' = "idle" \/ pos' > pos \/ (pos' = pos /\ off' > off)
  <1>1. RInv /\ [Next]_vars => [A]_vars
    <2> SUFFICES ASSUME RInv, ParseLoop
                 PROVE  phase' = "idle" \/ pos' > pos \/ (pos' = pos /\ off' > off)
      OBVIOUS
    <2> DEFINE h == [heap EXCEPT !.elements = @ - 1]
    <2>1. ReaderTypeOK /\ input \in Seq(Chunks)
      BY DEF RInv, ReaderTypeOK
    <2>2. (\E z \in Noises : GetNext(Scan(z), h, "parse")) \/ phase' = "idle"
      BY DEF ParseLoop, Turn
    <2> HIDE DEF h
    <2>3. ASSUME NEW z \in Noises, GetNext(Scan(z), h, "parse")
          PROVE  phase' = "idle" \/ pos' > pos \/ (pos' = pos /\ off' > off)
      <3> DEFINE c == Scan(z)
      <3>1. c \in Scans(HeaderNames) /\ c.pos = pos /\ c.off = off
        BY <2>1, ScanIs
      <3> HIDE DEF c
      <3>2. CASE Stops(c, h) \/ Ends(c, h)
        BY <3>2 DEF Stops, Ends
      <3>3. ASSUME NEW grow \in BOOLEAN, NEW mem \in BOOLEAN,
                   Finds(c, Outcome(c, grow, mem), h, "parse")
            PROVE  phase' = "idle" \/ pos' > pos \/ (pos' = pos /\ off' > off)
        <4> DEFINE d == Outcome(c, grow, mem)
        <4>1. Going(d) => Beyond(d, c)
          BY <2>1, <3>1, OutcomeAdvances
        <4>2. Finds(c, d, h, "parse")
          BY <3>3
        <4> HIDE DEF d
        <4> QED  BY <3>1, <4>1, <4>2 DEF Finds, Yields, Fails, Beyond
      <3>4. GetNext(c, h, "parse")
        BY <2>3 DEF c
      <3> QED  BY <3>2, <3>3, <3>4, GetNextCases
    <2> QED  BY <2>2, <2>3
  <1> QED  BY <1>1, RInitKeeps, RNextKeeps, PTL DEF Spec, LoopAdvances

=============================================================================
