-------------------------- MODULE UjoGrammarProofs --------------------------
(***************************************************************************)
(* The state machine of the writer against the grammar of documents: which *)
(* containers are around the next element, and how many children and       *)
(* columns they have, is what the structs on the stack say.                *)
(***************************************************************************)
EXTENDS UjoDocumentProofs, FiniteSetTheorems

-----------------------------------------------------------------------------
(* Levels.                                                                  *)

\* The types the grammar tells apart.
LEMMA Tokens3 ==
    /\ ContainerTypes = {UJO_TYPE_LIST, UJO_TYPE_MAP, UJO_TYPE_TABLE}
    /\ UJO_TERMINATOR \notin ContainerTypes /\ UJO_TYPE_STRING \notin ContainerTypes
    /\ UJO_TYPE_INT8 \notin ContainerTypes
    /\ UJO_TERMINATOR # UJO_TYPE_STRING /\ UJO_TERMINATOR # UJO_TYPE_INT8
    /\ UJO_TYPE_STRING # UJO_TYPE_INT8
    /\ UJO_TYPE_LIST # UJO_TYPE_MAP /\ UJO_TYPE_LIST # UJO_TYPE_TABLE
    /\ UJO_TYPE_MAP # UJO_TYPE_TABLE
    /\ \A t \in AtomicTypes : t \notin ContainerTypes /\ t # UJO_TERMINATOR /\ t \in Nat
    /\ UJO_TERMINATOR \in Nat /\ ContainerTypes \subseteq Nat
  BY DEF AtomicTypes, ContainerTypes, UJO_TERMINATOR, UJO_TYPE_LIST, UJO_TYPE_MAP,
         UJO_TYPE_TABLE, UJO_TYPE_STRING, UJO_TYPE_INT8, UJO_TYPE_FLOAT64, UJO_TYPE_TIMESTAMP

\* What an element adds to the terminators owed.
LEMMA OwedIs ==
    /\ \A t : Owed(t) \in Int
    /\ \A t \in ContainerTypes : Owed(t) = IF t = UJO_TYPE_TABLE THEN 2 ELSE 1
    /\ Owed(UJO_TERMINATOR) = -1
    /\ \A t : t \notin ContainerTypes /\ t # UJO_TERMINATOR => Owed(t) = 0
  BY Tokens3 DEF Owed

\* The levels of the sequence ts: one before each of its elements and one after
\* the last.
Climbs(lv, ts) ==
    /\ lv \in Seq(Int) /\ Len(lv) = Len(ts) + 1
    /\ lv[1] = 0
    /\ \A i \in 1 .. Len(ts) : lv[i + 1] = lv[i] + Owed(ts[i])

\* One more element, one more level.
LEMMA ClimbsOn ==
    ASSUME NEW ts \in Seq(Nat), NEW t \in Nat, NEW lv, Climbs(lv, ts)
    PROVE  Climbs(Append(lv, lv[Len(ts) + 1] + Owed(t)), Append(ts, t))
  <1> DEFINE n == Len(ts)
             us == Append(ts, t)
             x == lv[n + 1] + Owed(t)
             lu == Append(lv, x)
  <1>1. n \in Nat /\ Len(us) = n + 1 /\ us[n + 1] = t /\ \A i \in 1 .. n : us[i] = ts[i]
    OBVIOUS
  <1>2. lv \in Seq(Int) /\ Len(lv) = n + 1 /\ x \in Int
    BY <1>1, OwedIs DEF Climbs
  <1> HIDE DEF x, us, n
  <1>3. lu \in Seq(Int) /\ Len(lu) = n + 2 /\ lu[n + 2] = x /\ \A i \in 1 .. n + 1 : lu[i] = lv[i]
    BY <1>1, <1>2
  <1> HIDE DEF lu
  <1>4. \A i \in 1 .. n : lv[i + 1] = lv[i] + Owed(ts[i])
    BY DEF Climbs, n
  <1>5. ASSUME NEW i \in 1 .. n + 1 PROVE lu[i + 1] = lu[i] + Owed(us[i])
    <2>1. CASE i = n + 1
      BY <1>1, <1>3, <2>1 DEF x
    <2>2. CASE i \in 1 .. n
      BY <1>1, <1>3, <1>4, <2>2
    <2> QED  BY <1>1, <2>1, <2>2
  <1>6. lu[1] = 0
    BY <1>1, <1>3 DEF Climbs
  <1> QED  BY <1>1, <1>3, <1>5, <1>6, SMTT(60) DEF Climbs, lu, us, x, n

\* Every sequence has levels.
LEMMA LevelsExist ==
    ASSUME NEW ts \in Seq(Nat)
    PROVE  \E lv : Climbs(lv, ts)
  <1> DEFINE S == {n \in Nat : \A s \in Seq(Nat) : Len(s) = n => \E lv : Climbs(lv, s)}
  <1>1. 0 \in S
    <2> SUFFICES ASSUME NEW s \in Seq(Nat), Len(s) = 0
                 PROVE  \E lv : Climbs(lv, s)
      OBVIOUS
    <2>1. Climbs(<<0>>, s)
      BY DEF Climbs
    <2> QED  BY <2>1
  <1>2. ASSUME NEW n \in Nat, n \in S
        PROVE  n + 1 \in S
    <2> SUFFICES ASSUME NEW s \in Seq(Nat), Len(s) = n + 1
                 PROVE  \E lv : Climbs(lv, s)
      OBVIOUS
    <2> DEFINE front == SubSeq(s, 1, n)
    <2>1. front \in Seq(Nat) /\ Len(front) = n /\ s[n + 1] \in Nat
      OBVIOUS
    <2>2. s = Append(front, s[n + 1])
      OBVIOUS
    <2> HIDE DEF front
    <2>3. PICK lv : Climbs(lv, front)
      BY <1>2, <2>1
    <2> QED  BY <2>1, <2>2, <2>3, ClimbsOn, Zenon
  <1> HIDE DEF S
  <1>3. Len(ts) \in S
    BY <1>1, <1>2, Induction, SMTT(60)
  <1> QED  BY <1>3 DEF S

\* The recursion of Levels arrives at them.
LEMMA LevelsAre ==
    ASSUME NEW ts \in Seq(Nat), NEW lv, Climbs(lv, ts)
    PROVE  Levels(ts) = lv
  <1> DEFINE Grown(ls, n) == Append(ls, ls[n] + Owed(ts[n]))
             Rec(g) == g = [n \in 0 .. Len(ts) |-> IF n = 0 THEN <<0>> ELSE Grown(g[n - 1], n)]
             u == CHOOSE g : Rec(g)
             f == [n \in 0 .. Len(ts) |-> SubSeq(lv, 1, n + 1)]
  <1>1. lv \in Seq(Int) /\ Len(lv) = Len(ts) + 1 /\ Len(ts) \in Nat
    BY DEF Climbs
  <1>2. /\ \A n \in 0 .. Len(ts) : f[n] = SubSeq(lv, 1, n + 1)
        /\ f = [n \in 0 .. Len(ts) |-> f[n]]
    OBVIOUS
  <1> HIDE DEF f
  <1>3. f[0] = <<0>>
    <2>1. f[0] = SubSeq(lv, 1, 1)
      <3>1. 0 \in 0 .. Len(ts) /\ 0 + 1 = 1
        BY <1>1
      <3> QED  BY <1>2, <3>1
    <2>2. SubSeq(lv, 1, 1) = <<lv[1]>>
      <3> DEFINE one == SubSeq(lv, 1, 1)
      <3>1. one \in Seq(Int) /\ Len(one) = 1 /\ one[1] = lv[1]
        BY <1>1
      <3> HIDE DEF one
      <3>2. one = <<one[1]>>
        BY <3>1
      <3> QED  BY <3>1, <3>2 DEF one
    <2>3. lv[1] = 0
      BY DEF Climbs
    <2> QED  BY <2>1, <2>2, <2>3
  <1>4. ASSUME NEW n \in 1 .. Len(ts)
        PROVE  f[n] = Grown(f[n - 1], n)
    <2>1. f[n] = SubSeq(lv, 1, n + 1) /\ f[n - 1] = SubSeq(lv, 1, n)
      BY <1>1, <1>2, SMTT(60)
    <2>2. SubSeq(lv, 1, n)[n] = lv[n]
      BY <1>1
    <2>3. lv[n + 1] = lv[n] + Owed(ts[n])
      BY DEF Climbs
    <2>4. SubSeq(lv, 1, n + 1) = Append(SubSeq(lv, 1, n), lv[n + 1])
      BY <1>1
    <2> QED  BY <2>1, <2>2, <2>3, <2>4, Zenon
  <1> HIDE DEF Grown
  <1>13. Rec(f)
    <2>1. \A n \in 0 .. Len(ts) : f[n] = IF n = 0 THEN <<0>> ELSE Grown(f[n - 1], n)
      <3>1. \A n \in 0 .. Len(ts) : n = 0 \/ (n # 0 /\ n \in 1 .. Len(ts))
        BY <1>1
      <3> QED  BY <1>3, <1>4, <3>1, Zenon
    <2> QED  BY <1>2, <2>1, Zenon
  <1>5. Rec(u)
    BY <1>13
  <1>14. \A n \in 0 .. Len(ts) : u[n] = IF n = 0 THEN <<0>> ELSE Grown(u[n - 1], n)
    <2> HIDE DEF u
    <2> QED  BY <1>5, Zenon
  <1>6. Levels(ts) = u[Len(ts)]
    BY DEF Levels, Grown
  <1> HIDE DEF u
  <1> DEFINE S == {n \in Nat : n <= Len(ts) => u[n] = f[n]}
  <1>7. 0 \in S
    <2>1. u[0] = <<0>>
      BY <1>1, <1>14
    <2> QED  BY <1>3, <2>1
  <1>8. ASSUME NEW n \in Nat, n \in S
        PROVE  n + 1 \in S
    <2> SUFFICES ASSUME n + 1 <= Len(ts) PROVE u[n + 1] = f[n + 1]
      OBVIOUS
    <2>1. (n + 1) - 1 = n /\ n + 1 \in 1 .. Len(ts) /\ n + 1 # 0
      BY <1>1
    <2>2. u[n + 1] = Grown(u[n], n + 1)
      <3>1. n + 1 \in 0 .. Len(ts)
        BY <1>1, <2>1
      <3> QED  BY <1>14, <2>1, <3>1, Zenon
    <2>3. f[n + 1] = Grown(f[n], n + 1)
      BY <1>4, <2>1
    <2> QED  BY <1>1, <1>8, <2>2, <2>3
  <1> HIDE DEF S
  <1>9. Len(ts) \in S
    <2>1. Nat \subseteq S
      BY <1>7, <1>8, Induction, Zenon
    <2> QED  BY <1>1, <2>1
  <1>10. u[Len(ts)] = f[Len(ts)]
    BY <1>1, <1>9 DEF S
  <1>11. f[Len(ts)] = lv
    <2>1. f[Len(ts)] = SubSeq(lv, 1, Len(lv))
      BY <1>1, <1>2
    <2>2. SubSeq(lv, 1, Len(lv)) = lv
      BY <1>1
    <2> QED  BY <2>1, <2>2
  <1> QED  BY <1>6, <1>10, <1>11

\* The levels of a sequence, and of one with one more element.
LEMMA LevelsGrow ==
    ASSUME NEW ts \in Seq(Nat), NEW t \in Nat
    PROVE  /\ Climbs(Levels(ts), ts)
           /\ Levels(Append(ts, t)) =
                 Append(Levels(ts), Levels(ts)[Len(ts) + 1] + Owed(t))
  <1>1. PICK lv : Climbs(lv, ts)
    BY LevelsExist
  <1>2. Levels(ts) = lv
    BY <1>1, LevelsAre
  <1>3. Climbs(Append(lv, lv[Len(ts) + 1] + Owed(t)), Append(ts, t))
    BY <1>1, ClimbsOn
  <1>4. Append(ts, t) \in Seq(Nat)
    OBVIOUS
  <1> QED  BY <1>1, <1>2, <1>3, <1>4, LevelsAre, Zenon

-----------------------------------------------------------------------------
(* Containers and children.                                                 *)

\* The containers that are open after ts, their children and columns so far.
Level(ts)   == Levels(ts)[Len(ts) + 1]
Enclosing(ts)    == Around(ts, Levels(ts), Len(ts) + 1)
Kids(ts, q) == Children(ts, Levels(ts), q, Len(ts) + 1)
Cols(ts, q) == Columns(ts, Levels(ts), q, Len(ts) + 1)

\* The element t may follow the well-formed ts: MayStand in these words.
Stands(ts, t) ==
    LET p == Max(Enclosing(ts))
        odd == Cardinality(Kids(ts, p)) % 2 = 1
    IN  /\ Enclosing(ts) # {}
        /\ CASE ts[p] = UJO_TYPE_LIST -> TRUE
             [] ts[p] = UJO_TYPE_MAP ->
                   (t \in ContainerTypes => odd) /\ (t = UJO_TERMINATOR => ~odd)
             [] ts[p] = UJO_TYPE_TABLE /\ Level(ts) = Levels(ts)[p] + 2 ->
                   t = UJO_TYPE_STRING \/ (t = UJO_TERMINATOR /\ Cols(ts, p) # {})
             [] OTHER ->
                   t = UJO_TERMINATOR =>
                       Cardinality(Kids(ts, p) \ Cols(ts, p)) % Cardinality(Cols(ts, p)) = 0

\* A set of naturals with an upper bound in it has this maximum.
LEMMA MaxIs ==
    ASSUME NEW S \in SUBSET Nat, NEW x \in S, \A y \in S : y <= x
    PROVE  Max(S) = x
  <1>1. \E z \in S : \A y \in S : z >= y
    OBVIOUS
  <1>2. Max(S) \in S /\ \A y \in S : Max(S) >= y
    BY <1>1 DEF Max
  <1>3. Max(S) \in Nat /\ x \in Nat /\ x <= Max(S) /\ Max(S) <= x
    BY <1>2
  <1> QED  BY <1>3

\* A set of numbers up to n that is not empty has a maximum.
LEMMA MaxIn ==
    ASSUME NEW n \in Nat, NEW S \in SUBSET (1 .. n), S # {}
    PROVE  Max(S) \in S /\ \A y \in S : y <= Max(S)
  <1> DEFINE T == {k \in Nat : n - k \in S}
  <1>1. T \subseteq Nat /\ T # {}
    <2>1. PICK y \in S : TRUE
      OBVIOUS
    <2>2. n - y \in T
      BY <2>1
    <2> QED  BY <2>2
  <1>2. PICK k \in T : \A y \in T : k <= y
    BY <1>1, LeastMember
  <1>3. n - k \in S
    BY <1>2
  <1>4. ASSUME NEW y \in S PROVE n - k >= y
    <2>1. n - y \in T
      OBVIOUS
    <2>2. k <= n - y /\ k \in Nat /\ y \in Nat
      BY <1>2, <2>1
    <2> QED  BY <2>2
  <1>5. \E z \in S : \A y \in S : z >= y
    BY <1>3, <1>4
  <1> QED  BY <1>5 DEF Max

\* Two sequences with their levels are the same before i.
Agree(us, lu, ts, lv, i) ==
    (\A j \in 1 .. i - 1 : us[j] = ts[j]) /\ (\A j \in 1 .. i : lu[j] = lv[j])

\* Then they have the same containers there.
LEMMA AroundSame ==
    ASSUME NEW ts, NEW us, NEW lv, NEW lu, NEW i \in Nat,
           Agree(us, lu, ts, lv, i)
    PROVE  /\ Around(us, lu, i) = Around(ts, lv, i)
           /\ Around(ts, lv, i) \subseteq 1 .. i - 1
  <1>1. ASSUME NEW j \in 1 .. i - 1
        PROVE  (\A m \in j + 1 .. i : lu[m] > lu[j]) <=> (\A m \in j + 1 .. i : lv[m] > lv[j])
    <2>1. \A m \in j + 1 .. i : m \in 1 .. i /\ lu[m] = lv[m]
      BY DEF Agree
    <2>2. lu[j] = lv[j]
      BY DEF Agree
    <2> QED  BY <2>1, <2>2
  <1>2. \A j \in 1 .. i - 1 : us[j] = ts[j]
    BY DEF Agree
  <1> QED  BY <1>1, <1>2 DEF Around

\* And the same children.
LEMMA ChildrenSame ==
    ASSUME NEW ts, NEW us, NEW lv, NEW lu, NEW i \in Nat, NEW q \in 1 .. i,
           Agree(us, lu, ts, lv, i)
    PROVE  /\ Children(us, lu, q, i) = Children(ts, lv, q, i)
           /\ Columns(us, lu, q, i) = Columns(ts, lv, q, i)
  <1>1. ASSUME NEW k \in q + 1 .. i - 1
        PROVE  us[k] = ts[k] /\ lu[k] = lv[k] /\ Parent(us, lu, k) = Parent(ts, lv, k)
    <2>1. k \in Nat /\ us[k] = ts[k] /\ lu[k] = lv[k]
      BY DEF Agree
    <2>2. Agree(us, lu, ts, lv, k)
      BY DEF Agree
    <2>3. Around(us, lu, k) = Around(ts, lv, k)
      BY <2>1, <2>2, AroundSame
    <2> QED  BY <2>1, <2>3 DEF Parent
  <1>2. Children(us, lu, q, i) = Children(ts, lv, q, i)
    BY <1>1 DEF Children
  <1>3. Children(ts, lv, q, i) \subseteq q + 1 .. i - 1 /\ lu[q] = lv[q]
    BY DEF Children, Agree
  <1> QED  BY <1>1, <1>2, <1>3 DEF Columns

\* And the same elements may stand there.
LEMMA MayStandSame ==
    ASSUME NEW ts, NEW us, NEW lv, NEW lu, NEW i \in Nat, i >= 1,
           \A j \in 1 .. i : us[j] = ts[j] /\ lu[j] = lv[j]
    PROVE  MayStand(us, lu, i) <=> MayStand(ts, lv, i)
  <1> DEFINE p == Parent(ts, lv, i)
  <1>0. Agree(us, lu, ts, lv, i)
    BY DEF Agree
  <1>1. /\ Around(us, lu, i) = Around(ts, lv, i)
        /\ Around(ts, lv, i) \subseteq 1 .. i - 1
    BY <1>0, AroundSame
  <1>2. CASE Around(ts, lv, i) = {}
    BY <1>1, <1>2, Zenon DEF MayStand
  <1>3. CASE Around(ts, lv, i) # {}
    <2>1. p \in 1 .. i - 1
      <3> DEFINE S == Around(ts, lv, i)
                 k == i - 1
      <3>1. k \in Nat /\ S \in SUBSET (1 .. k) /\ S # {}
        BY <1>1, <1>3
      <3>2. p = Max(S)
        BY DEF Parent
      <3> HIDE DEF S, k, p
      <3>3. Max(S) \in S
        BY <3>1, MaxIn
      <3> QED  BY <3>1, <3>2, <3>3 DEF k
    <2>2. Parent(us, lu, i) = p
      BY <1>1 DEF Parent
    <2> HIDE DEF p
    <2>3. /\ Children(us, lu, p, i) = Children(ts, lv, p, i)
          /\ Columns(us, lu, p, i) = Columns(ts, lv, p, i)
      BY <1>0, <2>1, ChildrenSame
    <2>4. us[i] = ts[i] /\ us[p] = ts[p] /\ lu[i] = lv[i] /\ lu[p] = lv[p]
      BY <2>1
    <2>5. p = Parent(ts, lv, i)
      BY DEF p
    <2> QED  BY <1>1, <2>2, <2>3, <2>4, <2>5, Zenon DEF MayStand
  <1> QED  BY <1>2, <1>3

\* A sequence with one more element, and its levels.
LEMMA Appended ==
    ASSUME NEW ts \in Seq(Nat), NEW t \in Nat
    PROVE  /\ Append(ts, t) \in Seq(Nat) /\ Len(Append(ts, t)) = Len(ts) + 1
           /\ Append(ts, t)[Len(ts) + 1] = t
           /\ \A j \in 1 .. Len(ts) : Append(ts, t)[j] = ts[j]
           /\ Level(Append(ts, t)) = Level(ts) + Owed(t) /\ Level(ts) \in Int
           /\ \A j \in 1 .. Len(ts) + 1 : /\ Levels(Append(ts, t))[j] = Levels(ts)[j]
                                          /\ Levels(ts)[j] \in Int
           /\ Levels(ts)[1] = 0
  <1> DEFINE us == Append(ts, t)
             lv == Levels(ts)
  <1>1. us \in Seq(Nat) /\ Len(us) = Len(ts) + 1 /\ us[Len(ts) + 1] = t
    OBVIOUS
  <1>2. \A j \in 1 .. Len(ts) : us[j] = ts[j]
    OBVIOUS
  <1>3. /\ Climbs(lv, ts)
        /\ Levels(us) = Append(lv, lv[Len(ts) + 1] + Owed(t))
    BY LevelsGrow
  <1> HIDE DEF us, lv
  <1>4. lv \in Seq(Int) /\ Len(lv) = Len(ts) + 1 /\ lv[1] = 0 /\ Len(ts) \in Nat
    BY <1>3 DEF Climbs
  <1>5. \A j \in 1 .. Len(ts) + 1 : lv[j] \in Int
    BY <1>4
  <1>6. lv[Len(ts) + 1] + Owed(t) \in Int
    BY <1>4, <1>5, OwedIs
  <1>7. /\ \A j \in 1 .. Len(ts) + 1 : Levels(us)[j] = lv[j]
        /\ Levels(us)[Len(us) + 1] = lv[Len(ts) + 1] + Owed(t)
    BY <1>1, <1>3, <1>4, <1>6
  <1> QED  BY <1>1, <1>2, <1>4, <1>5, <1>7 DEF Level, us, lv

\* The grammar of a longer sequence.
LEMMA PrefixAppend ==
    ASSUME NEW ts \in Seq(Nat), NEW t \in Nat
    PROVE  /\ Follows(ts, t) <=> IF ts = <<>> THEN t \in ContainerTypes ELSE Stands(ts, t)
           /\ WellFormedPrefix(ts) /\ Follows(ts, t) => WellFormedPrefix(Append(ts, t))
  <1> DEFINE us == Append(ts, t)
             lv == Levels(ts)
             lu == Levels(us)
             n == Len(ts)
             p == Max(Enclosing(ts))
  <1>1. /\ n \in Nat /\ Len(us) = n + 1 /\ us[n + 1] = t /\ \A j \in 1 .. n : us[j] = ts[j]
        /\ \A j \in 1 .. n + 1 : lu[j] = lv[j]
    BY Appended
  <1>2. ts = <<>> <=> n = 0
    OBVIOUS
  <1> HIDE DEF us, lv, lu, n
  <1>3. MayStand(us, lu, n + 1) <=> Stands(ts, t)
    <2>1. (n + 1) - 1 = n /\ n + 1 \in Nat
      BY <1>1
    <2> DEFINE k == n + 1
    <2>5. k \in Nat /\ Agree(us, lu, ts, lv, k)
      BY <1>1, <2>1 DEF Agree
    <2> HIDE DEF k
    <2>6. Around(us, lu, k) = Around(ts, lv, k) /\ Around(ts, lv, k) \subseteq 1 .. k - 1
      BY <2>5, AroundSame
    <2>2. Around(us, lu, n + 1) = Enclosing(ts) /\ Enclosing(ts) \subseteq 1 .. n
      BY <2>1, <2>6 DEF Enclosing, lv, n, k
    <2>3. CASE Enclosing(ts) = {}
      BY <2>2, <2>3, Zenon DEF MayStand, Stands
    <2>4. CASE Enclosing(ts) # {}
      <3>1. p \in 1 .. n
        BY <1>1, <2>2, <2>4, MaxIn
      <3>2. Parent(us, lu, n + 1) = p
        BY <2>2 DEF Parent
      <3> HIDE DEF p
      <3>3. p \in 1 .. n + 1
        BY <1>1, <3>1
      <3>4. Children(us, lu, p, n + 1) = Kids(ts, p) /\ Columns(us, lu, p, n + 1) = Cols(ts, p)
        <4>1. p \in 1 .. k
          BY <3>3 DEF k
        <4>2. /\ Children(us, lu, p, k) = Children(ts, lv, p, k)
              /\ Columns(us, lu, p, k) = Columns(ts, lv, p, k)
          BY <2>5, <4>1, ChildrenSame
        <4> QED  BY <4>2 DEF Kids, Cols, lv, n, k
      <3>5. us[p] = ts[p] /\ us[n + 1] = t /\ lu[p] = lv[p] /\ lu[n + 1] = Level(ts)
        BY <1>1, <3>1, <3>3 DEF Level, lv, n
      <3>6. p = Max(Enclosing(ts)) /\ lv = Levels(ts)
        BY DEF p, lv
      <3> QED  BY <2>2, <3>2, <3>4, <3>5, <3>6, Zenon DEF MayStand, Stands
    <2> QED  BY <2>3, <2>4
  <1>4. Follows(ts, t) <=> IF ts = <<>> THEN t \in ContainerTypes ELSE Stands(ts, t)
    BY <1>1, <1>3 DEF Follows, us, lu
  <1>5. ASSUME WellFormedPrefix(ts), Follows(ts, t)
        PROVE  WellFormedPrefix(us)
    <2>1. ASSUME NEW i \in 1 .. n + 1
          PROVE  IF i = 1 THEN us[1] \in ContainerTypes ELSE MayStand(us, lu, i)
      <3>1. CASE i = n + 1
        BY <1>1, <1>2, <1>3, <1>4, <1>5, <3>1
      <3>2. CASE i \in 1 .. n
        <4>1. IF i = 1 THEN ts[1] \in ContainerTypes ELSE MayStand(ts, lv, i)
          BY <1>5, <3>2 DEF WellFormedPrefix, lv, n
        <4>2. i \in Nat /\ i >= 1 /\ \A j \in 1 .. i : us[j] = ts[j] /\ lu[j] = lv[j]
          BY <1>1, <3>2
        <4>3. MayStand(us, lu, i) <=> MayStand(ts, lv, i)
          BY <4>2, MayStandSame
        <4>4. us[1] = ts[1]
          BY <4>2
        <4> QED  BY <4>1, <4>3, <4>4
      <3> QED  BY <1>1, <3>1, <3>2
    <2> QED  BY <1>1, <2>1 DEF WellFormedPrefix, lu
  <1> QED  BY <1>4, <1>5 DEF us

\* The containers around the element after a longer sequence.
LEMMA EnclosingAppend ==
    ASSUME NEW ts \in Seq(Nat), NEW t \in Nat
    PROVE  /\ t \in ContainerTypes => Enclosing(Append(ts, t)) = Enclosing(ts) \cup {Len(ts) + 1}
           /\ t = UJO_TERMINATOR =>
                 Enclosing(Append(ts, t)) = {j \in Enclosing(ts) : Levels(ts)[j] < Level(ts) - 1}
           /\ t \notin ContainerTypes \cup {UJO_TERMINATOR} => Enclosing(Append(ts, t)) = Enclosing(ts)
           /\ \A j \in Enclosing(ts) : /\ j \in 1 .. Len(ts) /\ ts[j] \in ContainerTypes
                                  /\ Levels(ts)[j] < Level(ts)
  <1> DEFINE us == Append(ts, t)
             lv == Levels(ts)
             lu == Levels(us)
             n == Len(ts)
  <1>1. /\ n \in Nat /\ Len(us) = n + 1 /\ us[n + 1] = t /\ \A j \in 1 .. n : us[j] = ts[j]
        /\ \A j \in 1 .. n + 1 : lu[j] = lv[j] /\ lv[j] \in Int
        /\ lu[n + 2] = lv[n + 1] + Owed(t)
    BY Appended DEF Level
  <1> HIDE DEF us, lv, lu, n
  <1> DEFINE over(j, k) == \A m \in j + 1 .. k : lv[m] > lv[j]
  <1>2. Enclosing(ts) = {j \in 1 .. n : ts[j] \in ContainerTypes /\ over(j, n + 1)}
    BY <1>1 DEF Enclosing, Around, lv, n
  <1>3. Enclosing(us) = {j \in 1 .. n + 1 : us[j] \in ContainerTypes
                                      /\ \A m \in j + 1 .. n + 2 : lu[m] > lu[j]}
    BY <1>1 DEF Enclosing, Around, lu
  <1>4. ASSUME NEW j \in 1 .. n
        PROVE  /\ (\A m \in j + 1 .. n + 2 : lu[m] > lu[j]) <=>
                     over(j, n + 1) /\ lv[n + 1] + Owed(t) > lv[j]
               /\ over(j, n + 1) => lv[n + 1] > lv[j]
    <2>1. lu[j] = lv[j] /\ j \in 1 .. n + 1 /\ n + 1 \in j + 1 .. n + 1 /\ n + 2 \in j + 1 .. n + 2
      BY <1>1
    <2>2. \A m \in j + 1 .. n + 1 : m \in 1 .. n + 1 /\ m \in j + 1 .. n + 2
      BY <1>1
    <2>3. \A m \in j + 1 .. n + 2 : m \in j + 1 .. n + 1 \/ m = n + 2
      BY <1>1
    <2> QED  BY <1>1, <2>1, <2>2, <2>3
  <1>5. (\A m \in (n + 1) + 1 .. n + 2 : lu[m] > lu[n + 1]) <=> lv[n + 1] + Owed(t) > lv[n + 1]
    BY <1>1
  <1>6. Owed(t) \in Int /\ \A j \in 1 .. n : j \in 1 .. n + 1
    BY <1>1, OwedIs
  <1> HIDE DEF over
  <1>7. ASSUME t \in ContainerTypes
        PROVE  Enclosing(us) = Enclosing(ts) \cup {n + 1}
    <2>1. Owed(t) > 0
      BY <1>7, OwedIs, Tokens3
    <2>2. \A j \in 1 .. n : over(j, n + 1) => lv[n + 1] + Owed(t) > lv[j]
      BY <1>1, <1>4, <1>6, <2>1
    <2>3. lv[n + 1] + Owed(t) > lv[n + 1]
      BY <1>1, <1>6, <2>1
    <2>4. \A j \in 1 .. n + 1 : j \in 1 .. n \/ j = n + 1
      BY <1>1
    <2> QED  BY <1>1, <1>2, <1>3, <1>4, <1>5, <1>7, <2>2, <2>3, <2>4, SMTT(60)
  <1>8. ASSUME t \notin ContainerTypes
        PROVE  Enclosing(us) = {j \in Enclosing(ts) : lv[j] < lv[n + 1] + Owed(t)}
    <2>1. ASSUME NEW j \in 1 .. n + 1
          PROVE  us[j] \in ContainerTypes <=> j \in 1 .. n /\ ts[j] \in ContainerTypes
      BY <1>1, <1>8
    <2>2. \A j \in 1 .. n : j \in 1 .. n + 1 /\ lv[j] \in Int /\ lv[n + 1] + Owed(t) \in Int
      BY <1>1, <1>6
    <2>3. ASSUME NEW j
          PROVE  j \in Enclosing(us) <=> j \in Enclosing(ts) /\ lv[j] < lv[n + 1] + Owed(t)
      <3>1. CASE j \in 1 .. n
        BY <1>2, <1>3, <1>4, <2>1, <2>2, <3>1
      <3>2. CASE j \notin 1 .. n
        BY <1>2, <1>3, <2>1, <3>2
      <3> QED  BY <3>1, <3>2
    <2> QED  BY <2>3
  <1>9. \A j \in Enclosing(ts) : j \in 1 .. n /\ ts[j] \in ContainerTypes /\ lv[j] < lv[n + 1]
    BY <1>1, <1>2, <1>4, <1>6
  <1>10. t = UJO_TERMINATOR => Enclosing(us) = {j \in Enclosing(ts) : lv[j] < lv[n + 1] - 1}
    <2> SUFFICES ASSUME t = UJO_TERMINATOR
                 PROVE  Enclosing(us) = {j \in Enclosing(ts) : lv[j] < lv[n + 1] - 1}
      OBVIOUS
    <2>1. t \notin ContainerTypes /\ lv[n + 1] + Owed(t) = lv[n + 1] - 1
      BY <1>1, Tokens3, OwedIs
    <2> QED  BY <1>8, <2>1
  <1>11. t \notin ContainerTypes \cup {UJO_TERMINATOR} => Enclosing(us) = Enclosing(ts)
    <2> SUFFICES ASSUME t \notin ContainerTypes, t # UJO_TERMINATOR
                 PROVE  Enclosing(us) = Enclosing(ts)
      OBVIOUS
    <2>1. lv[n + 1] + Owed(t) = lv[n + 1]
      BY <1>1, OwedIs
    <2> QED  BY <1>8, <1>9, <2>1
  <1> QED  BY <1>7, <1>9, <1>10, <1>11 DEF Level, us, lv, n

\* The children of a container after one more element.
LEMMA KidsAppend ==
    ASSUME NEW ts \in Seq(Nat), NEW t \in Nat, NEW q \in 1 .. Len(ts)
    PROVE  /\ Kids(Append(ts, t), q) = Kids(ts, q) \cup
                 (IF t # UJO_TERMINATOR /\ Max(Enclosing(ts)) = q THEN {Len(ts) + 1} ELSE {})
           /\ Cols(Append(ts, t), q) = Cols(ts, q) \cup
                 (IF /\ t # UJO_TERMINATOR /\ Max(Enclosing(ts)) = q
                     /\ Level(ts) = Levels(ts)[q] + 2 THEN {Len(ts) + 1} ELSE {})
           /\ Kids(ts, q) \subseteq 1 .. Len(ts) /\ Cols(ts, q) \subseteq Kids(ts, q)
  <1> DEFINE us == Append(ts, t)
             lv == Levels(ts)
             lu == Levels(us)
             n == Len(ts)
             k == n + 1
  <1>1. /\ n \in Nat /\ Len(us) = k /\ us[k] = t /\ \A j \in 1 .. n : us[j] = ts[j]
        /\ \A j \in 1 .. k : lu[j] = lv[j]
    BY Appended
  <1>2. k \in Nat /\ k - 1 = n /\ (k + 1) - 1 = k /\ q \in 1 .. k /\ q \in 1 .. n
    BY <1>1
  <1> HIDE DEF us, lv, lu
  <1>3. Agree(us, lu, ts, lv, k)
    BY <1>1, <1>2 DEF Agree
  <1>4. /\ Children(us, lu, q, k) = Kids(ts, q)
        /\ Columns(us, lu, q, k) = Cols(ts, q)
    <2>1. Kids(ts, q) = Children(ts, lv, q, k) /\ Cols(ts, q) = Columns(ts, lv, q, k)
      BY DEF Kids, Cols, lv
    <2> HIDE DEF k
    <2> QED  BY <1>2, <1>3, <2>1, ChildrenSame
  <1>5. Parent(us, lu, k) = Max(Enclosing(ts))
    <2>1. Enclosing(ts) = Around(ts, lv, k)
      BY DEF Enclosing, lv
    <2> HIDE DEF k
    <2>2. Around(us, lu, k) = Around(ts, lv, k)
      BY <1>2, <1>3, AroundSame
    <2> QED  BY <2>1, <2>2 DEF Parent
  <1>6. \A x : x \in q + 1 .. k <=> x \in q + 1 .. n \/ x = k
    BY <1>1, <1>2
  <1>7. Kids(us, q) = {x \in q + 1 .. k : us[x] # UJO_TERMINATOR /\ Parent(us, lu, x) = q}
    <2>1. Kids(us, q) = Children(us, lu, q, k + 1)
      BY <1>1 DEF Kids, lu
    <2> QED  BY <1>2, <2>1 DEF Children
  <1>8. Children(us, lu, q, k) =
            {x \in q + 1 .. n : us[x] # UJO_TERMINATOR /\ Parent(us, lu, x) = q}
    BY <1>2 DEF Children
  <1>9. /\ Cols(us, q) = {x \in Kids(us, q) : lu[x] = lu[q] + 2}
        /\ Columns(us, lu, q, k) = {x \in Children(us, lu, q, k) : lu[x] = lu[q] + 2}
    <2>1. Kids(us, q) = Children(us, lu, q, k + 1) /\ Cols(us, q) = Columns(us, lu, q, k + 1)
      BY <1>1 DEF Kids, Cols, lu
    <2> QED  BY <2>1 DEF Columns
  <1>10. lu[k] = Level(ts) /\ lu[q] = lv[q] /\ k \notin q + 1 .. n
    <2>1. Level(ts) = lv[k]
      BY DEF Level, lv
    <2>2. k \in 1 .. k
      BY <1>2
    <2> QED  BY <1>1, <1>2, <2>1, <2>2
  <1> HIDE DEF k, n
  <1>11. Kids(us, q) = Kids(ts, q) \cup
                 (IF t # UJO_TERMINATOR /\ Max(Enclosing(ts)) = q THEN {k} ELSE {})
    BY <1>1, <1>4, <1>5, <1>6, <1>7, <1>8
  <1>12. Cols(us, q) = Cols(ts, q) \cup
                 (IF /\ t # UJO_TERMINATOR /\ Max(Enclosing(ts)) = q
                     /\ Level(ts) = lv[q] + 2 THEN {k} ELSE {})
    BY <1>4, <1>9, <1>10, <1>11
  <1>13. Kids(ts, q) \subseteq q + 1 .. n /\ Cols(ts, q) \subseteq Kids(ts, q)
    BY <1>4, <1>8, <1>9
  <1>14. q + 1 .. n \subseteq 1 .. n
    BY <1>1, <1>2
  <1> QED  BY <1>11, <1>12, <1>13, <1>14 DEF us, lv, k, n

\* A new container has none.
LEMMA KidsNew ==
    ASSUME NEW ts \in Seq(Nat), NEW t \in Nat
    PROVE  Kids(Append(ts, t), Len(ts) + 1) = {} /\ Cols(Append(ts, t), Len(ts) + 1) = {}
  <1> DEFINE us == Append(ts, t)
             k == Len(ts) + 1
  <1>1. Len(us) = k /\ k \in Nat
    OBVIOUS
  <1>2. Kids(us, k) = {} /\ Cols(us, k) \subseteq Kids(us, k)
    BY <1>1 DEF Kids, Cols, Children, Columns
  <1> QED  BY <1>2

-----------------------------------------------------------------------------
(* What the structs of a path say of the elements accepted.                 *)

\* The type of the container a struct is for.
TypeOf(s) ==
    CASE s = "LIST" -> UJO_TYPE_LIST
      [] s \in {"DICT_KEY", "DICT_VALUE"} -> UJO_TYPE_MAP
      [] OTHER -> UJO_TYPE_TABLE

\* Terminators its contents owe beyond what it owes itself.
Inside(s) == IF s = "TABLE_COLUMNS" THEN 2 ELSE 1

\* Each struct above the root is for one open container, the one at own[i]; the
\* value state of a map is for the map of its key state, any other struct for a
\* container one level further in.
Linked(p, own, ts) ==
    /\ \A i \in 2 .. Len(p) : own[i] \in 1 .. Len(ts) /\ ts[own[i]] = TypeOf(p[i].state)
    /\ \A i \in 3 .. Len(p) :
          IF p[i].state = "DICT_VALUE" THEN own[i] = own[i - 1]
          ELSE /\ own[i - 1] < own[i]
               /\ Levels(ts)[own[i]] = Levels(ts)[own[i - 1]] + 1

\* And there are no other open containers.
Owned(p, own, ts) ==
    Linked(p, own, ts) /\ Enclosing(ts) = {own[i] : i \in 2 .. Len(p)}

\* The terminators owed, and whether there are elements.
Rooted(p, own, ts) ==
    IF Len(p) = 1 THEN Level(ts) = 0 /\ (p[1].state = "ROOT" <=> ts = <<>>)
    ELSE /\ Levels(ts)[own[2]] = 0
         /\ Level(ts) = Levels(ts)[own[Len(p)]] + Inside(p[Len(p)].state)

\* A later struct is for the same container as an earlier one, or for one inside.
Ranked(p, own, ts) ==
    \A i, j \in 2 .. Len(p) :
        i < j => \/ own[i] = own[j] /\ i = j - 1 /\ p[j].state = "DICT_VALUE"
                 \/ own[i] < own[j] /\ Levels(ts)[own[i]] < Levels(ts)[own[j]]

\* A struct that knows of all the children of its container at q.
Settled(s, ts, q) ==
    LET kids == Cardinality(Kids(ts, q))
        cols == Cardinality(Cols(ts, q))
        cells == Cardinality(Kids(ts, q) \ Cols(ts, q))
    IN  CASE s.state = "DICT_KEY" -> kids % 2 = 0
          [] s.state = "DICT_VALUE" -> kids % 2 = 1
          [] s.state = "TABLE_COLUMNS" -> Kids(ts, q) = Cols(ts, q) /\ cols = s.columns
          [] s.state = "TABLE_VALUES" -> cols = s.columns /\ cells % cols = s.column
          [] OTHER -> TRUE

\* A struct that does not know of the last one yet.
Behind(s, ts, q) ==
    LET kids == Cardinality(Kids(ts, q))
        cols == Cardinality(Cols(ts, q))
        cells == Cardinality(Kids(ts, q) \ Cols(ts, q))
    IN  CASE s.state = "DICT_KEY" -> kids % 2 = 1
          [] s.state = "DICT_VALUE" -> kids % 2 = 0
          [] s.state = "TABLE_COLUMNS" -> Kids(ts, q) = Cols(ts, q) /\ cols = s.columns + 1
          [] s.state = "TABLE_VALUES" -> cols = s.columns /\ cells % cols = NextCell(s).column
          [] OTHER -> TRUE

\* The struct in use knows of all children, or is behind by the last one; the
\* structs under it are behind by the container that is open in them, except
\* the key state under a value state of the same map.
Tallied(p, own, ts, behind) ==
    LET h == Len(p)
    IN  /\ h > 1 => IF behind THEN Behind(p[h], ts, own[h]) ELSE Settled(p[h], ts, own[h])
        /\ \A i \in 2 .. h - 1 : p[i].state = "DICT_KEY" \/ Behind(p[i], ts, own[i])

\* The path says of ts what it should.
Spells(p, own, ts, behind) ==
    /\ Owned(p, own, ts) /\ Rooted(p, own, ts) /\ Ranked(p, own, ts)
    /\ Tallied(p, own, ts, behind)

-----------------------------------------------------------------------------
(* One more element.                                                        *)

\* The container of the struct in use is the innermost one.
LEMMA TopOwner ==
    ASSUME NEW p \in Seq(ujo_state), NEW own, NEW ts \in Seq(Nat),
           Len(p) >= 2, Owned(p, own, ts), Ranked(p, own, ts)
    PROVE  /\ own[Len(p)] \in 1 .. Len(ts) /\ Enclosing(ts) # {}
           /\ Max(Enclosing(ts)) = own[Len(p)]
           /\ \A i \in 2 .. Len(p) - 1 :
                 /\ own[i] \in 1 .. Len(ts)
                 /\ \/ own[i] < own[Len(p)] /\ Levels(ts)[own[i]] < Levels(ts)[own[Len(p)]]
                    \/ /\ i = Len(p) - 1 /\ p[Len(p)].state = "DICT_VALUE"
                       /\ own[i] = own[Len(p)]
  <1> DEFINE h == Len(p)
             S == Enclosing(ts)
  <1>1. h \in 2 .. h /\ h \in Nat /\ h >= 2 /\ Len(ts) \in Nat
    OBVIOUS
  <1> HIDE DEF h, S
  <1>2. S = {own[i] : i \in 2 .. h} /\ \A i \in 2 .. h : own[i] \in 1 .. Len(ts)
    BY DEF Owned, Linked, h, S
  <1>3. own[h] \in S /\ S \in SUBSET Nat
    BY <1>1, <1>2
  <1>4. ASSUME NEW i \in 2 .. h, i < h
        PROVE  \/ own[i] < own[h] /\ Levels(ts)[own[i]] < Levels(ts)[own[h]]
               \/ i = h - 1 /\ p[h].state = "DICT_VALUE" /\ own[i] = own[h]
    BY <1>1, <1>4 DEF Ranked, h
  <1>5. \A x \in S : x <= own[h]
    <2>1. ASSUME NEW i \in 2 .. h PROVE own[i] <= own[h]
      <3>1. own[i] \in Nat /\ own[h] \in Nat /\ (i < h \/ i = h)
        BY <1>1, <1>2
      <3> QED  BY <1>4, <3>1
    <2> QED  BY <1>2, <2>1
  <1>6. Max(S) = own[h]
    BY <1>3, <1>5, MaxIs
  <1>7. \A i \in 2 .. h - 1 : i \in 2 .. h /\ i < h
    BY <1>1
  <1> QED  BY <1>1, <1>2, <1>3, <1>4, <1>6, <1>7 DEF h, S

\* A sequence of counted things and one more.
LEMMA OneMore ==
    ASSUME NEW n \in Nat, NEW A, A \subseteq 1 .. n
    PROVE  /\ IsFiniteSet(A) /\ Cardinality(A) \in Nat
           /\ Cardinality(A \cup {n + 1}) = Cardinality(A) + 1
           /\ n + 1 \notin A
  <1>1. IsFiniteSet(1 .. n)
    BY FS_Interval
  <1>2. IsFiniteSet(A)
    BY <1>1, FS_Subset
  <1>3. n + 1 \notin A
    OBVIOUS
  <1> QED  BY <1>2, <1>3, FS_AddElement, FS_CardinalityType

\* A remainder is unique.
LEMMA RestUnique ==
    ASSUME NEW c \in Nat, NEW d \in Int, NEW e \in Int,
           NEW x \in 0 .. c - 1, NEW y \in 0 .. c - 1, c * d + x = c * e + y
    PROVE  x = y
  <1>1. ASSUME NEW a \in Int, NEW b \in Int, a < b
        PROVE  c * a + c <= c * b
    <2> DEFINE g == b - a - 1
    <2>1. g \in Nat /\ b = a + 1 + g
      BY <1>1
    <2> HIDE DEF g
    <2>2. c * b = c * a + c + c * g
      BY <2>1
    <2>3. c * g \in Nat /\ c * a \in Int /\ c * b \in Int
      BY <2>1
    <2> QED  BY <2>2, <2>3
  <1>2. c * d \in Int /\ c * e \in Int
    OBVIOUS
  <1>3. ~(d < e)
    <2> SUFFICES ASSUME d < e PROVE FALSE
      OBVIOUS
    <2>1. c * d + c <= c * e
      BY <1>1
    <2> QED  BY <1>2, <2>1
  <1>4. ~(e < d)
    <2> SUFFICES ASSUME e < d PROVE FALSE
      OBVIOUS
    <2>1. c * e + c <= c * d
      BY <1>1
    <2> QED  BY <1>2, <2>1
  <1>5. d = e
    BY <1>3, <1>4
  <1> QED  BY <1>2, <1>5

\* The remainder of one more.
LEMMA NextRest ==
    ASSUME NEW a \in Nat, NEW c \in Nat, c > 0
    PROVE  /\ (a + 1) % c = (IF (a % c) + 1 >= c THEN 0 ELSE (a % c) + 1)
           /\ a % c \in 0 .. c - 1
  <1> DEFINE k == a % c
             d == a \div c
             k1 == (a + 1) % c
             d1 == (a + 1) \div c
  <1>1. k \in 0 .. c - 1 /\ d \in Int /\ a = c * d + k
    BY SMTT(60)
  <1>2. k1 \in 0 .. c - 1 /\ d1 \in Int /\ a + 1 = c * d1 + k1
    <2> DEFINE b == a + 1
    <2>1. b \in Nat
      OBVIOUS
    <2> HIDE DEF b
    <2>2. b % c \in 0 .. c - 1 /\ b \div c \in Int /\ b = c * (b \div c) + (b % c)
      BY <2>1, SMTT(60)
    <2> QED  BY <2>2 DEF b
  <1> HIDE DEF k, d, k1, d1
  <1>3. CASE k + 1 >= c
    <2>1. k + 1 = c /\ 0 \in 0 .. c - 1 /\ d + 1 \in Int
      BY <1>1, <1>3
    <2>2. c * (d + 1) = c * d + c
      BY <1>1
    <2>3. c * (d + 1) + 0 = c * d1 + k1
      BY <1>1, <1>2, <2>1, <2>2
    <2>4. k1 = 0
      BY <1>2, <2>1, <2>3, RestUnique
    <2> QED  BY <1>1, <1>3, <2>4 DEF k, k1
  <1>4. CASE ~(k + 1 >= c)
    <2>1. k + 1 \in 0 .. c - 1
      BY <1>1, <1>4
    <2>2. c * d + (k + 1) = c * d1 + k1
      BY <1>1, <1>2
    <2>3. k + 1 = k1
      BY <1>1, <1>2, <2>1, <2>2, RestUnique
    <2> QED  BY <1>1, <1>4, <2>3 DEF k, k1
  <1> QED  BY <1>3, <1>4

\* A struct that knows of all the children is behind by a new one.
LEMMA SettledFallsBehind ==
    ASSUME NEW ts \in Seq(Nat), NEW t \in Nat, NEW q \in 1 .. Len(ts), NEW s \in ujo_state,
           t # UJO_TERMINATOR, Max(Enclosing(ts)) = q, Settled(s, ts, q),
           s.state = "TABLE_VALUES" => s.column < s.columns,
           Level(ts) = Levels(ts)[q] + Inside(s.state)
    PROVE  Behind(s, Append(ts, t), q)
  <1> DEFINE us == Append(ts, t)
             n == Len(ts)
             K == Kids(ts, q)
             C == Cols(ts, q)
  <1>1. n \in Nat /\ Levels(ts)[q] \in Int
    BY Appended
  <1> HIDE DEF us, n, K, C
  <1>2. /\ Kids(us, q) = K \cup {n + 1} /\ K \subseteq 1 .. n /\ C \subseteq K
        /\ Cols(us, q) = C \cup (IF Level(ts) = Levels(ts)[q] + 2 THEN {n + 1} ELSE {})
    BY KidsAppend DEF us, n, K, C
  <1>3. C \subseteq 1 .. n /\ K \ C \subseteq 1 .. n
    BY <1>2
  <1>4. /\ Cardinality(K) \in Nat /\ Cardinality(K \cup {n + 1}) = Cardinality(K) + 1
        /\ n + 1 \notin K
    BY <1>1, <1>2, OneMore
  <1>5. /\ Cardinality(C) \in Nat /\ Cardinality(C \cup {n + 1}) = Cardinality(C) + 1
    BY <1>1, <1>3, OneMore
  <1>6. /\ Cardinality(K \ C) \in Nat
        /\ Cardinality((K \ C) \cup {n + 1}) = Cardinality(K \ C) + 1
    BY <1>1, <1>3, OneMore
  <1>7. s.column \in Nat /\ s.columns \in Nat /\ s.state \in ujoDocState \cup {"NULL"}
    BY DEF ujo_state
  <1>8. CASE s.state = "DICT_KEY"
    <2>1. Cardinality(K) % 2 = 0
      BY <1>8 DEF Settled, K
    <2> DEFINE a == Cardinality(K)
    <2>3. a \in Nat /\ a % 2 = 0 /\ Cardinality(Kids(us, q)) = a + 1
      BY <1>2, <1>4, <2>1
    <2> HIDE DEF a
    <2>2. Cardinality(Kids(us, q)) % 2 = 1
      BY <2>3
    <2> QED  BY <1>8, <2>2 DEF Behind, us
  <1>9. CASE s.state = "DICT_VALUE"
    <2>1. Cardinality(K) % 2 = 1
      BY <1>9 DEF Settled, K
    <2> DEFINE a == Cardinality(K)
    <2>3. a \in Nat /\ a % 2 = 1 /\ Cardinality(Kids(us, q)) = a + 1
      BY <1>2, <1>4, <2>1
    <2> HIDE DEF a
    <2>2. Cardinality(Kids(us, q)) % 2 = 0
      BY <2>3
    <2> QED  BY <1>9, <2>2 DEF Behind, us
  <1>10. CASE s.state = "TABLE_COLUMNS"
    <2>1. K = C /\ Cardinality(C) = s.columns
      BY <1>10 DEF Settled, K, C
    <2>2. Cols(us, q) = C \cup {n + 1}
      BY <1>1, <1>2, <1>10 DEF Inside
    <2>3. Kids(us, q) = Cols(us, q) /\ Cardinality(Cols(us, q)) = s.columns + 1
      BY <1>2, <1>5, <2>1, <2>2
    <2> QED  BY <1>10, <2>3 DEF Behind, us
  <1>11. CASE s.state = "TABLE_VALUES"
    <2>1. Cardinality(C) = s.columns /\ Cardinality(K \ C) % Cardinality(C) = s.column
      BY <1>11 DEF Settled, K, C
    <2>2. Cols(us, q) = C
      BY <1>1, <1>2, <1>11 DEF Inside
    <2>3. Kids(us, q) \ Cols(us, q) = (K \ C) \cup {n + 1}
      BY <1>2, <1>4, <2>2
    <2>4. NextCell(s).column = (IF s.column + 1 >= s.columns THEN 0 ELSE s.column + 1)
      BY DEF NextCell, ujo_state
    <2>5. s.columns > 0
      BY <1>7, <1>11
    <2> DEFINE a == Cardinality(K \ C)
               c == s.columns
    <2>6. a \in Nat /\ c \in Nat /\ c > 0 /\ a % c = s.column
      BY <1>6, <1>7, <2>1, <2>5
    <2> HIDE DEF a, c
    <2>7. (a + 1) % c = (IF (a % c) + 1 >= c THEN 0 ELSE (a % c) + 1)
      BY <2>6, NextRest
    <2>8. (a + 1) % c = NextCell(s).column
      BY <2>4, <2>6, <2>7 DEF c
    <2>9. Cardinality(Kids(us, q) \ Cols(us, q)) = a + 1 /\ Cardinality(Cols(us, q)) = c
      BY <1>6, <2>1, <2>2, <2>3 DEF a, c
    <2>10. /\ Cardinality(Cols(us, q)) = s.columns
           /\ Cardinality(Kids(us, q) \ Cols(us, q)) % Cardinality(Cols(us, q))
                  = NextCell(s).column
      BY <2>8, <2>9, Zenon DEF c
    <2> QED  BY <1>11, <2>10, Zenon DEF Behind, us
  <1>12. CASE s.state \notin {"DICT_KEY", "DICT_VALUE", "TABLE_COLUMNS", "TABLE_VALUES"}
    BY <1>12 DEF Behind
  <1> QED  BY <1>8, <1>9, <1>10, <1>11, <1>12

\* What a struct knows of a container stands as long as it gets no child.
LEMMA KnowledgeStays ==
    ASSUME NEW ts \in Seq(Nat), NEW t \in Nat, NEW q \in 1 .. Len(ts), NEW s,
           t = UJO_TERMINATOR \/ Max(Enclosing(ts)) # q
    PROVE  /\ Behind(s, Append(ts, t), q) <=> Behind(s, ts, q)
           /\ Settled(s, Append(ts, t), q) <=> Settled(s, ts, q)
           /\ Kids(Append(ts, t), q) = Kids(ts, q) /\ Cols(Append(ts, t), q) = Cols(ts, q)
  <1>1. Kids(Append(ts, t), q) = Kids(ts, q) /\ Cols(Append(ts, t), q) = Cols(ts, q)
    <2> DEFINE us == Append(ts, t)
               none == t # UJO_TERMINATOR /\ Max(Enclosing(ts)) = q
    <2>1. ~none
      OBVIOUS
    <2>2. /\ Kids(us, q) = Kids(ts, q) \cup
                 (IF t # UJO_TERMINATOR /\ Max(Enclosing(ts)) = q THEN {Len(ts) + 1} ELSE {})
          /\ Cols(us, q) = Cols(ts, q) \cup
                 (IF /\ t # UJO_TERMINATOR /\ Max(Enclosing(ts)) = q
                     /\ Level(ts) = Levels(ts)[q] + 2 THEN {Len(ts) + 1} ELSE {})
      BY KidsAppend, Zenon
    <2> HIDE DEF us
    <2>3. Kids(us, q) = Kids(ts, q) \cup {} /\ Cols(us, q) = Cols(ts, q) \cup {}
      BY <2>1, <2>2, Zenon
    <2> QED  BY <2>3 DEF us
  <1> QED  BY <1>1, Zenon DEF Behind, Settled

\* The structs under the one in use are not concerned by a new element.
LEMMA BuriedStay ==
    ASSUME NEW p \in Seq(ujo_state), NEW own, NEW ts \in Seq(Nat), NEW t \in Nat,
           Stacked(p), Len(p) >= 2, Spells(p, own, ts, FALSE)
    PROVE  \A i \in 2 .. Len(p) - 1 :
               p[i].state = "DICT_KEY" \/ Behind(p[i], Append(ts, t), own[i])
  <1> DEFINE h == Len(p)
  <1>1. /\ own[h] \in 1 .. Len(ts) /\ Max(Enclosing(ts)) = own[h]
        /\ \A i \in 2 .. h - 1 :
              /\ own[i] \in 1 .. Len(ts)
              /\ \/ own[i] < own[h]
                 \/ i = h - 1 /\ p[h].state = "DICT_VALUE"
    BY TopOwner DEF Spells
  <1>2. SUFFICES ASSUME NEW i \in 2 .. h - 1, p[i].state # "DICT_KEY"
                 PROVE  Behind(p[i], Append(ts, t), own[i])
    OBVIOUS
  <1>3. Behind(p[i], ts, own[i])
    BY <1>2 DEF Spells, Tallied
  <1>4. ~(i = h - 1 /\ p[h].state = "DICT_VALUE")
    <2>1. h \in 2 .. h
      OBVIOUS
    <2>2. p[h].state = "DICT_VALUE" => p[h - 1].state = "DICT_KEY"
      BY <2>1 DEF Stacked
    <2> QED  BY <1>2, <2>2
  <1>5. own[i] \in 1 .. Len(ts) /\ Max(Enclosing(ts)) # own[i]
    <2>1. own[i] \in 1 .. Len(ts) /\ own[i] < own[h]
      BY <1>1, <1>4
    <2>2. own[h] \in Nat /\ own[i] \in Nat
      BY <1>1, <2>1
    <2> QED  BY <1>1, <2>1, <2>2
  <1> QED  BY <1>3, <1>5, KnowledgeStays

\* What was there before one more element stays as it was.
LEMMA Stays ==
    ASSUME NEW p \in Seq(ujo_state), NEW own, NEW ts \in Seq(Nat), NEW t \in Nat,
           Owned(p, own, ts), Ranked(p, own, ts)
    PROVE  /\ \A j \in 1 .. Len(ts) : /\ Append(ts, t)[j] = ts[j]
                                      /\ Levels(Append(ts, t))[j] = Levels(ts)[j]
                                      /\ j \in 1 .. Len(Append(ts, t)) /\ Levels(ts)[j] \in Int
           /\ \A i \in 2 .. Len(p) :
                 /\ own[i] \in 1 .. Len(ts)
                 /\ Levels(Append(ts, t))[own[i]] = Levels(ts)[own[i]]
           /\ Linked(p, own, Append(ts, t))
           /\ Ranked(p, own, Append(ts, t))
  <1> DEFINE us == Append(ts, t)
             lu == Levels(us)
             lv == Levels(ts)
  <1>1. \A j \in 1 .. Len(ts) : /\ us[j] = ts[j] /\ lu[j] = lv[j]
                                /\ j \in 1 .. Len(us) /\ lv[j] \in Int
    BY Appended
  <1> HIDE DEF us, lu, lv
  <1>2. \A i \in 2 .. Len(p) : own[i] \in 1 .. Len(ts) /\ ts[own[i]] = TypeOf(p[i].state)
    BY DEF Owned, Linked
  <1>3. \A i \in 2 .. Len(p) :
           /\ own[i] \in 1 .. Len(ts) /\ own[i] \in 1 .. Len(us)
           /\ us[own[i]] = TypeOf(p[i].state) /\ lu[own[i]] = lv[own[i]]
    BY <1>1, <1>2
  <1>4. ASSUME NEW i \in 3 .. Len(p)
        PROVE  IF p[i].state = "DICT_VALUE" THEN own[i] = own[i - 1]
               ELSE own[i - 1] < own[i] /\ lu[own[i]] = lu[own[i - 1]] + 1
    <2>1. i \in 2 .. Len(p) /\ i - 1 \in 2 .. Len(p)
      OBVIOUS
    <2>2. IF p[i].state = "DICT_VALUE" THEN own[i] = own[i - 1]
          ELSE own[i - 1] < own[i] /\ lv[own[i]] = lv[own[i - 1]] + 1
      BY DEF Owned, Linked, lv
    <2> QED  BY <1>3, <2>1, <2>2
  <1>5. ASSUME NEW i \in 2 .. Len(p), NEW j \in 2 .. Len(p), i < j
        PROVE  \/ own[i] = own[j] /\ i = j - 1 /\ p[j].state = "DICT_VALUE"
               \/ own[i] < own[j] /\ lu[own[i]] < lu[own[j]]
    <2>1. \/ own[i] = own[j] /\ i = j - 1 /\ p[j].state = "DICT_VALUE"
          \/ own[i] < own[j] /\ lv[own[i]] < lv[own[j]]
      BY <1>5 DEF Ranked, lv
    <2> QED  BY <1>3, <2>1
  <1>6. Ranked(p, own, us)
    BY <1>5 DEF Ranked, lu
  <1>7. Linked(p, own, us)
    BY <1>3, <1>4 DEF Linked, lu
  <1> QED  BY <1>1, <1>3, <1>6, <1>7 DEF us, lu, lv

\* The contents of the container in use: what Rooted says of a path that is
\* not only the root.
LEMMA LevelIs ==
    ASSUME NEW p \in Seq(ujo_state), NEW own, NEW ts, Rooted(p, own, ts), Len(p) >= 2
    PROVE  /\ Levels(ts)[own[2]] = 0
           /\ Level(ts) = Levels(ts)[own[Len(p)]] + Inside(p[Len(p)].state)
  BY DEF Rooted

\* A value: the struct in use is behind by it.
LEMMA SpellsValue ==
    ASSUME NEW p \in Seq(ujo_state), NEW own, NEW ts \in Seq(Nat), NEW t \in Nat,
           t \notin ContainerTypes \cup {UJO_TERMINATOR}, Len(p) >= 2,
           Stacked(p), Counted(p), Spells(p, own, ts, FALSE)
    PROVE  Spells(p, own, Append(ts, t), TRUE)
  <1> DEFINE us == Append(ts, t)
             h == Len(p)
  <1>1. Owned(p, own, ts) /\ Ranked(p, own, ts) /\ Rooted(p, own, ts) /\ Tallied(p, own, ts, FALSE)
    BY DEF Spells
  <1>2. /\ Linked(p, own, us) /\ Ranked(p, own, us)
        /\ \A i \in 2 .. h : Levels(us)[own[i]] = Levels(ts)[own[i]]
    <2>1. Owned(p, own, ts) /\ Ranked(p, own, ts)
      BY <1>1
    <2> QED  BY <2>1, Stays
  <1>3. Enclosing(us) = Enclosing(ts) /\ Level(us) = Level(ts)
    BY EnclosingAppend, Appended, OwedIs
  <1>4. h \in 2 .. h /\ 2 \in 2 .. h
    OBVIOUS
  <1> HIDE DEF us, h
  <1>5. Owned(p, own, us)
    BY <1>1, <1>2, <1>3 DEF Owned, h
  <1>6. Rooted(p, own, us)
    <2>1. /\ Levels(ts)[own[2]] = 0
          /\ Level(ts) = Levels(ts)[own[h]] + Inside(p[h].state)
      BY <1>1, LevelIs DEF h
    <2> QED  BY <1>2, <1>3, <1>4, <2>1, SMTT(60) DEF Rooted, h
  <1>7. Behind(p[h], us, own[h])
    <2>1. own[h] \in 1 .. Len(ts) /\ Max(Enclosing(ts)) = own[h]
      BY <1>1, TopOwner DEF h
    <2>2. Settled(p[h], ts, own[h]) /\ p[h] \in ujo_state
      BY <1>1, <1>4 DEF Tallied, h
    <2>3. p[h].state = "TABLE_VALUES" => p[h].column < p[h].columns
      BY <1>4 DEF Counted, h
    <2>4. Level(ts) = Levels(ts)[own[h]] + Inside(p[h].state)
      BY <1>1, LevelIs DEF h
    <2> QED  BY <2>1, <2>2, <2>3, <2>4, SettledFallsBehind DEF us
  <1>8. \A i \in 2 .. h - 1 : p[i].state = "DICT_KEY" \/ Behind(p[i], us, own[i])
    BY BuriedStay DEF us, h
  <1>9. Tallied(p, own, us, TRUE)
    BY <1>7, <1>8 DEF Tallied, h
  <1> QED  BY <1>2, <1>5, <1>6, <1>9 DEF Spells, us

\* A terminator leaves the containers that owe more than it pays.
LEMMA AfterTerminator ==
    ASSUME NEW ts \in Seq(Nat)
    PROVE  /\ Enclosing(Append(ts, UJO_TERMINATOR)) =
                 {j \in Enclosing(ts) : Levels(ts)[j] < Level(ts) - 1}
           /\ Level(Append(ts, UJO_TERMINATOR)) = Level(ts) - 1
  <1>1. UJO_TERMINATOR \in Nat
    BY Tokens3
  <1>2. Enclosing(Append(ts, UJO_TERMINATOR)) =
                 {j \in Enclosing(ts) : Levels(ts)[j] < Level(ts) - 1}
    BY <1>1, EnclosingAppend, Zenon
  <1>3. Level(ts) \in Int /\ Level(Append(ts, UJO_TERMINATOR)) = Level(ts) + Owed(UJO_TERMINATOR)
    BY <1>1, Appended
  <1> QED  BY <1>2, <1>3, OwedIs

\* The end of the columns: the same container, with cells to come.
LEMMA SpellsRows ==
    ASSUME NEW p \in Seq(ujo_state), NEW r \in Seq(ujo_state), NEW own, NEW ts \in Seq(Nat),
           Len(p) >= 2, Len(r) = Len(p), \A i \in 1 .. Len(p) - 1 : r[i] = p[i],
           p[Len(p)].state = "TABLE_COLUMNS", p[Len(p)].columns > 0,
           r[Len(p)] = [p[Len(p)] EXCEPT !.state = "TABLE_VALUES"],
           Stacked(p), Counted(p), Spells(p, own, ts, FALSE)
    PROVE  Spells(r, own, Append(ts, UJO_TERMINATOR), FALSE)
  <1> DEFINE us == Append(ts, UJO_TERMINATOR)
             h == Len(p)
             q == own[h]
             lv == Levels(ts)
  <1>0. Owned(p, own, ts) /\ Ranked(p, own, ts) /\ Rooted(p, own, ts) /\ Tallied(p, own, ts, FALSE)
    BY DEF Spells
  <1>1. UJO_TERMINATOR \in Nat /\ h \in 2 .. h /\ 2 \in 2 .. h /\ h \in Nat
    BY Tokens3
  <1>2. /\ Linked(p, own, us) /\ Ranked(p, own, us)
        /\ \A i \in 2 .. h : Levels(us)[own[i]] = lv[own[i]]
        /\ \A i \in 2 .. h : own[i] \in 1 .. Len(ts)
        /\ \A j \in 1 .. Len(ts) : lv[j] \in Int
    BY <1>0, <1>1, Stays
  <1>3. /\ q \in 1 .. Len(ts) /\ Max(Enclosing(ts)) = q
        /\ \A i \in 2 .. h - 1 :
              \/ own[i] < own[h] /\ lv[own[i]] < lv[own[h]]
              \/ /\ i = h - 1 /\ p[h].state = "DICT_VALUE" /\ own[i] = own[h]
    BY <1>0, TopOwner
  <1>4. lv[own[2]] = 0 /\ Level(ts) = lv[q] + 2
    BY <1>0, LevelIs DEF Inside
  <1>5. /\ Enclosing(us) = {j \in Enclosing(ts) : lv[j] < Level(ts) - 1}
        /\ Level(us) = Level(ts) - 1
    BY AfterTerminator
  <1>6. Enclosing(ts) = {own[i] : i \in 2 .. h}
    BY <1>0 DEF Owned
  <1>7. p[h] \in ujo_state /\ p[h].column = 0
    BY <1>1 DEF Counted
  <1>8. /\ r[h].state = "TABLE_VALUES" /\ r[h].columns = p[h].columns /\ r[h].column = 0
        /\ \A i \in 1 .. h : i \in 1 .. h - 1 \/ i = h
    BY <1>1, <1>7 DEF ujo_state
  <1>9. \A i \in 1 .. h :
            /\ TypeOf(r[i].state) = TypeOf(p[i].state)
            /\ r[i].state = "DICT_VALUE" <=> p[i].state = "DICT_VALUE"
    BY <1>8 DEF TypeOf
  <1> HIDE DEF us, h, q, lv
  <1>10. \A i \in 2 .. h : lv[own[i]] < Level(ts) - 1
    <2>1. ASSUME NEW i \in 2 .. h PROVE lv[own[i]] <= lv[q]
      <3>1. i \in 2 .. h - 1 \/ i = h
        BY <1>1
      <3>2. lv[own[i]] \in Int /\ lv[q] \in Int
        BY <1>2, <1>3
      <3> QED  BY <1>3, <3>1, <3>2, SMTT(60) DEF q
    <2>2. \A i \in 2 .. h : lv[own[i]] \in Int /\ lv[q] \in Int
      BY <1>2, <1>3
    <2> QED  BY <1>4, <2>1, <2>2
  <1>11. Enclosing(us) = {own[i] : i \in 2 .. h}
    BY <1>5, <1>6, <1>10
  <1>12. Linked(r, own, us)
    <2>1. \A i \in 2 .. h : i \in 1 .. h
      BY <1>1
    <2>2. \A i \in 3 .. h : i \in 1 .. h
      BY <1>1
    <2> QED  BY <1>2, <1>9, <2>1, <2>2 DEF Linked, h
  <1>13. Owned(r, own, us)
    BY <1>11, <1>12 DEF Owned, h
  <1>14. Rooted(r, own, us)
    <2>1. lv[q] \in Int /\ h # 1
      BY <1>1, <1>2, <1>3
    <2>2. Level(us) = lv[q] + 1
      BY <1>4, <1>5, <2>1
    <2>3. Inside(r[h].state) = 1
      BY <1>8 DEF Inside
    <2> QED  BY <1>1, <1>2, <1>4, <2>1, <2>2, <2>3 DEF Rooted, h, q
  <1>15. Ranked(r, own, us)
    <2>1. \A i \in 2 .. h : i \in 1 .. h
      BY <1>1
    <2> QED  BY <1>2, <1>9, <2>1 DEF Ranked, h
  <1>16. Settled(r[h], us, q)
    <2>1. Kids(us, q) = Kids(ts, q) /\ Cols(us, q) = Cols(ts, q)
      BY <1>1, <1>3, KnowledgeStays, ZenonT(60) DEF us
    <2>2. Kids(ts, q) = Cols(ts, q) /\ Cardinality(Cols(ts, q)) = p[h].columns
      BY <1>0 DEF Tallied, Settled, h, q
    <2>3. Kids(us, q) \ Cols(us, q) = {} /\ Cardinality(Cols(us, q)) = p[h].columns
      BY <2>1, <2>2
    <2>4. Cardinality({}) = 0
      BY FS_EmptySet
    <2>5. p[h].columns \in Nat /\ p[h].columns > 0
      BY <1>7 DEF ujo_state, h
    <2>6. 0 % p[h].columns = 0
      BY <2>5
    <2>7. /\ Cardinality(Cols(us, q)) = r[h].columns
          /\ Cardinality(Kids(us, q) \ Cols(us, q)) % Cardinality(Cols(us, q)) = r[h].column
      BY <1>8, <2>3, <2>4, <2>6
    <2> QED  BY <1>8, <2>7 DEF Settled
  <1>17. \A i \in 2 .. h - 1 : r[i].state = "DICT_KEY" \/ Behind(r[i], us, own[i])
    <2>1. \A i \in 2 .. h - 1 : p[i].state = "DICT_KEY" \/ Behind(p[i], us, own[i])
      BY <1>1, BuriedStay DEF us, h
    <2>2. \A i \in 2 .. h - 1 : r[i] = p[i]
      BY <1>1 DEF h
    <2> QED  BY <2>1, <2>2
  <1>18. Tallied(r, own, us, FALSE)
    BY <1>16, <1>17 DEF Tallied, h, q
  <1> QED  BY <1>13, <1>14, <1>15, <1>18 DEF Spells, us

\* A close: the struct below is in use again, behind by the closed container.
LEMMA SpellsOut ==
    ASSUME NEW p \in Seq(ujo_state), NEW r \in Seq(ujo_state), NEW own, NEW ts \in Seq(Nat),
           Len(p) >= 2, Len(r) = Len(p) - 1, \A i \in 2 .. Len(p) - 1 : r[i] = p[i],
           Len(r) = 1 => r[1].state = "CLOSED",
           p[Len(p)].state \in {"LIST", "DICT_KEY", "TABLE_VALUES"},
           Stacked(p), Spells(p, own, ts, FALSE)
    PROVE  Spells(r, own, Append(ts, UJO_TERMINATOR), TRUE)
  <1> DEFINE us == Append(ts, UJO_TERMINATOR)
             h == Len(p)
             q == own[h]
             lv == Levels(ts)
  <1>0. Owned(p, own, ts) /\ Ranked(p, own, ts) /\ Rooted(p, own, ts) /\ Tallied(p, own, ts, FALSE)
    BY DEF Spells
  <1>1. UJO_TERMINATOR \in Nat /\ h \in 2 .. h /\ 2 \in 2 .. h /\ h \in Nat
    BY Tokens3
  <1>2. /\ Linked(p, own, us) /\ Ranked(p, own, us)
        /\ \A i \in 2 .. h : Levels(us)[own[i]] = lv[own[i]]
        /\ \A i \in 2 .. h : own[i] \in 1 .. Len(ts)
        /\ \A j \in 1 .. Len(ts) : lv[j] \in Int
    BY <1>0, <1>1, Stays
  <1>3. /\ q \in 1 .. Len(ts) /\ Max(Enclosing(ts)) = q
        /\ \A i \in 2 .. h - 1 :
              \/ own[i] < own[h] /\ lv[own[i]] < lv[own[h]]
              \/ /\ i = h - 1 /\ p[h].state = "DICT_VALUE" /\ own[i] = own[h]
    BY <1>0, TopOwner
  <1>4. lv[own[2]] = 0 /\ Level(ts) = lv[q] + 1
    BY <1>0, LevelIs DEF Inside
  <1>5. /\ Enclosing(us) = {j \in Enclosing(ts) : lv[j] < Level(ts) - 1}
        /\ Level(us) = Level(ts) - 1
    BY AfterTerminator
  <1>6. Enclosing(ts) = {own[i] : i \in 2 .. h}
    BY <1>0 DEF Owned
  <1>7. us # <<>>
    <2>1. Len(us) = Len(ts) + 1 /\ Len(ts) \in Nat
      BY <1>1
    <2>2. Len(<<>>) = 0
      OBVIOUS
    <2> HIDE DEF us
    <2> QED  BY <2>1, <2>2
  <1>8. p[h - 1].state # "TABLE_COLUMNS" /\ p[h - 1].state # "DICT_KEY"
    BY <1>1 DEF Stacked
  <1>9. p[h].state # "DICT_VALUE"
    OBVIOUS
  <1> HIDE DEF us, h, q, lv
  <1>10. Level(us) = lv[q] /\ Level(ts) - 1 = lv[q] /\ lv[q] \in Int
    BY <1>2, <1>3, <1>4, <1>5
  <1>11. Enclosing(us) = {own[i] : i \in 2 .. h - 1}
    <2>1. \A i \in 2 .. h - 1 : i \in 2 .. h /\ lv[own[i]] < lv[q]
      BY <1>1, <1>3, <1>9 DEF q
    <2>2. \A i \in 2 .. h : i \in 2 .. h - 1 \/ own[i] = q
      BY <1>1 DEF q
    <2>3. ~(lv[q] < lv[q])
      BY <1>10
    <2>4. Enclosing(us) = {j \in Enclosing(ts) : lv[j] < lv[q]}
      BY <1>5, <1>10
    <2> QED  BY <1>6, <2>1, <2>2, <2>3, <2>4
  <1>12. Len(r) = h - 1 /\ \A i \in 2 .. h - 1 : r[i] = p[i] /\ i \in 2 .. h
    BY <1>1 DEF h
  <1>13. Linked(r, own, us)
    <2>1. \A i \in 3 .. h - 1 : i \in 3 .. h /\ i \in 2 .. h - 1
      BY <1>1
    <2> QED  BY <1>2, <1>12, <2>1 DEF Linked, h
  <1>14. Owned(r, own, us)
    BY <1>11, <1>12, <1>13 DEF Owned
  <1>15. Rooted(r, own, us)
    <2>1. CASE h = 2
      <3>1. Len(r) = 1 /\ r[1].state = "CLOSED" /\ Level(us) = 0
        <4>3. Len(r) = h - 1
          BY <1>12
        <4>1. Len(r) = 1
          <5>1. h \in Nat
            BY <1>1
          <5>2. h - 1 = 1
            BY <2>1, <5>1
          <5> QED  BY <4>3, <5>2, Zenon
        <4>2. q = own[2]
          BY <2>1 DEF q
        <4> QED  BY <1>4, <1>10, <4>1, <4>2
      <3> QED  BY <1>7, <3>1 DEF Rooted
    <2>2. CASE h # 2
      <3>1. h \in 3 .. h /\ h - 1 \in 2 .. h - 1
        BY <1>1, <2>2
      <3>2. lv[q] = lv[own[h - 1]] + 1
        BY <1>0, <1>9, <3>1 DEF Owned, Linked, h, q, lv
      <3>3. Inside(r[h - 1].state) = 1
        BY <1>8, <1>12, <3>1 DEF Inside
      <3>4. Levels(us)[own[h - 1]] = lv[own[h - 1]] /\ Levels(us)[own[2]] = 0
        BY <1>1, <1>2, <1>4, <1>12, <3>1
      <3>5. Len(r) # 1
        BY <1>12, <3>1
      <3> QED  BY <1>10, <1>12, <3>2, <3>3, <3>4, <3>5 DEF Rooted
    <2> QED  BY <2>1, <2>2
  <1>16. Ranked(r, own, us)
    BY <1>2, <1>12 DEF Ranked, h
  <1>17. \A i \in 2 .. h - 1 : p[i].state = "DICT_KEY" \/ Behind(p[i], us, own[i])
    BY <1>1, BuriedStay DEF us, h
  <1>18. Tallied(r, own, us, TRUE)
    <2>1. ASSUME Len(r) > 1 PROVE Behind(r[h - 1], us, own[h - 1])
      <3>1. h - 1 \in 2 .. h - 1
        BY <1>1, <1>12, <2>1
      <3> QED  BY <1>8, <1>12, <1>17, <3>1
    <2>2. \A i \in 2 .. (h - 1) - 1 : i \in 2 .. h - 1
      BY <1>1
    <2> QED  BY <1>12, <1>17, <2>1, <2>2 DEF Tallied
  <1> QED  BY <1>14, <1>15, <1>16, <1>18 DEF Spells, us

\* The owners of a path with one struct more, of the container at x.
Joined(own, h, x) == [i \in 2 .. h + 1 |-> IF i = h + 1 THEN x ELSE own[i]]

LEMMA JoinedIs ==
    ASSUME NEW own, NEW h \in Nat, h >= 1, NEW x
    PROVE  /\ Joined(own, h, x)[h + 1] = x
           /\ \A i \in 2 .. h : Joined(own, h, x)[i] = own[i]
  BY DEF Joined

\* A path with one struct more.
LEMMA Lengthened ==
    ASSUME NEW p \in Seq(ujo_state), NEW s \in ujo_state
    PROVE  /\ Append(p, s) \in Seq(ujo_state) /\ Len(Append(p, s)) = Len(p) + 1
           /\ Append(p, s)[Len(p) + 1] = s
           /\ \A i \in 1 .. Len(p) : Append(p, s)[i] = p[i]
  OBVIOUS

\* A new container has no children its struct does not know of.
LEMMA SettledNew ==
    ASSUME NEW ts \in Seq(Nat), NEW t \in Nat, NEW s \in {"LIST", "DICT_KEY", "TABLE_COLUMNS"}
    PROVE  Settled(NewState(s), Append(ts, t), Len(ts) + 1)
  <1> DEFINE us == Append(ts, t)
             x == Len(ts) + 1
             w == NewState(s)
  <1>1. Kids(us, x) = {} /\ Cols(us, x) = {}
    BY KidsNew
  <1>2. w.state = s /\ w.columns = 0
    BY DEF NewState
  <1>3. Cardinality({}) = 0
    BY FS_EmptySet
  <1> HIDE DEF us, x, w
  <1>7. Settled(w, us, x)
    <2>1. CASE s = "LIST"
      BY <1>2, <2>1 DEF Settled
    <2>2. CASE s = "DICT_KEY"
      <3>1. Cardinality(Kids(us, x)) % 2 = 0
        BY <1>1, <1>3
      <3> QED  BY <1>2, <2>2, <3>1 DEF Settled
    <2>3. CASE s = "TABLE_COLUMNS"
      <3>1. Kids(us, x) = Cols(us, x) /\ Cardinality(Cols(us, x)) = w.columns
        BY <1>1, <1>2, <1>3
      <3> QED  BY <1>2, <2>3, <3>1 DEF Settled
    <2> QED  BY <2>1, <2>2, <2>3
  <1> QED  BY <1>7 DEF us, x, w

\* Opening a container: the struct in use is behind by it, a new one is on top.
LEMMA SpellsIn ==
    ASSUME NEW p \in Seq(ujo_state), NEW own, NEW ts \in Seq(Nat), NEW e \in Enters,
           Len(p) >= 1, ujo_state_allow_container(p[Len(p)].state),
           Stacked(p), Counted(p), Spells(p, own, ts, FALSE)
    PROVE  Spells(Append(p, NewState(e[2])), Joined(own, Len(p), Len(ts) + 1),
                  Append(ts, e[1]), FALSE)
  <1> DEFINE t == e[1]
             s == NewState(e[2])
             us == Append(ts, t)
             h == Len(p)
             n == Len(ts)
             r == Append(p, s)
             new == Joined(own, h, n + 1)
             lv == Levels(ts)
             lu == Levels(us)
  <1>0. Owned(p, own, ts) /\ Ranked(p, own, ts) /\ Rooted(p, own, ts) /\ Tallied(p, own, ts, FALSE)
    BY DEF Spells
  <1>1. /\ t \in ContainerTypes /\ t \in Nat /\ t # UJO_TERMINATOR
        /\ s.state \in {"LIST", "DICT_KEY", "TABLE_COLUMNS"} /\ s.state = e[2]
        /\ TypeOf(s.state) = t /\ s \in ujo_state /\ Owed(t) = Inside(s.state)
    <2>1. t \in ContainerTypes /\ s.state = e[2] /\ s.state \in {"LIST", "DICT_KEY", "TABLE_COLUMNS"}
      BY DEF Enters, ContainerTypes, NewState
    <2>2. TypeOf(s.state) = t /\ Inside(s.state) = (IF t = UJO_TYPE_TABLE THEN 2 ELSE 1)
      BY <2>1, Tokens3 DEF Enters, TypeOf, Inside
    <2>3. s \in ujo_state
      BY DEF Enters, NewState, ujo_state, ujoDocState
    <2> HIDE DEF t, s
    <2> QED  BY <2>1, <2>2, <2>3, Tokens3, OwedIs
  <1>2. h \in Nat /\ h >= 1 /\ n \in Nat
    OBVIOUS
  <1>3. /\ r \in Seq(ujo_state) /\ Len(r) = h + 1 /\ r[h + 1] = s
        /\ \A i \in 1 .. h : r[i] = p[i]
    BY <1>1, Lengthened
  <1> HIDE DEF t, s
  <1>4. /\ new[h + 1] = n + 1 /\ \A i \in 2 .. h : new[i] = own[i]
    BY <1>2, JoinedIs
  <1>5. /\ Linked(p, own, us) /\ Ranked(p, own, us)
        /\ \A i \in 2 .. h : lu[own[i]] = lv[own[i]]
        /\ \A i \in 2 .. h : own[i] \in 1 .. n
        /\ \A j \in 1 .. n : lv[j] \in Int
    BY <1>0, <1>1, Stays
  <1>6. /\ Len(us) = n + 1 /\ us[n + 1] = t /\ lu[n + 1] = Level(ts) /\ Level(ts) \in Int
        /\ Level(us) = Level(ts) + Owed(t)
    <2>1. n + 1 \in 1 .. n + 1
      BY <1>2
    <2> QED  BY <1>1, <2>1, Appended DEF Level
  <1>7. /\ Enclosing(us) = Enclosing(ts) \cup {n + 1}
        /\ \A j \in Enclosing(ts) : lv[j] < Level(ts)
    BY <1>1, EnclosingAppend
  <1>8. Enclosing(ts) = {own[i] : i \in 2 .. h}
    BY <1>0 DEF Owned
  <1>9. ASSUME h >= 2
        PROVE  /\ own[h] \in 1 .. n /\ Max(Enclosing(ts)) = own[h]
               /\ lv[own[2]] = 0 /\ Level(ts) = lv[own[h]] + 1
               /\ Behind(p[h], us, own[h])
               /\ \A i \in 2 .. h - 1 : p[i].state = "DICT_KEY" \/ Behind(p[i], us, own[i])
    <2>1. own[h] \in 1 .. n /\ Max(Enclosing(ts)) = own[h]
      BY <1>0, <1>9, TopOwner
    <2>2. lv[own[2]] = 0 /\ Level(ts) = lv[own[h]] + Inside(p[h].state)
      BY <1>0, <1>9, LevelIs
    <2>3. Inside(p[h].state) = 1
      BY DEF ujo_state_allow_container, Inside
    <2>4. h \in 1 .. h /\ p[h] \in ujo_state
      BY <1>2
    <2>5. Settled(p[h], ts, own[h]) /\ (p[h].state = "TABLE_VALUES" => p[h].column < p[h].columns)
      BY <1>0, <1>9, <2>4 DEF Tallied, Counted
    <2>6. Behind(p[h], us, own[h])
      BY <1>1, <2>1, <2>2, <2>4, <2>5, SettledFallsBehind
    <2>7. \A i \in 2 .. h - 1 : p[i].state = "DICT_KEY" \/ Behind(p[i], us, own[i])
      BY <1>1, <1>9, BuriedStay
    <2> QED  BY <2>1, <2>2, <2>3, <2>6, <2>7
  <1>10. h = 1 => Level(ts) = 0
    BY <1>0 DEF Rooted
  <1> HIDE DEF us, h, n, r, new, lv, lu
  <1>11. \A i \in 2 .. h + 1 : i \in 2 .. h \/ i = h + 1
    BY <1>2
  <1>12. \A i \in 2 .. h : i \in 1 .. h /\ i \in 2 .. h + 1
    BY <1>2
  <1>13. Enclosing(us) = {new[i] : i \in 2 .. Len(r)}
    <2>1. h + 1 \in 2 .. h + 1
      BY <1>2
    <2> QED  BY <1>3, <1>4, <1>7, <1>8, <1>11, <1>12, <2>1, ZenonT(60)
  <1>14. Linked(r, new, us)
    <2>1. ASSUME NEW i \in 2 .. h + 1
          PROVE  new[i] \in 1 .. n + 1 /\ us[new[i]] = TypeOf(r[i].state)
      <3>1. CASE i \in 2 .. h
        <4>1. own[i] \in 1 .. n /\ us[own[i]] = TypeOf(p[i].state)
          BY <1>5, <3>1 DEF Linked, h
        <4>2. own[i] \in 1 .. n + 1
          BY <1>2, <4>1
        <4> QED  BY <1>3, <1>4, <1>12, <3>1, <4>1, <4>2
      <3>2. CASE i = h + 1
        BY <1>1, <1>2, <1>3, <1>4, <1>6, <3>2
      <3> QED  BY <1>11, <3>1, <3>2
    <2>2. ASSUME NEW i \in 3 .. h + 1
          PROVE  IF r[i].state = "DICT_VALUE" THEN new[i] = new[i - 1]
                 ELSE new[i - 1] < new[i] /\ lu[new[i]] = lu[new[i - 1]] + 1
      <3>1. CASE i \in 3 .. h
        <4>1. IF p[i].state = "DICT_VALUE" THEN own[i] = own[i - 1]
              ELSE own[i - 1] < own[i] /\ lu[own[i]] = lu[own[i - 1]] + 1
          BY <1>5, <3>1 DEF Linked, h, lu
        <4>2. i \in 2 .. h /\ i - 1 \in 2 .. h /\ i \in 1 .. h
          BY <1>2, <3>1
        <4> QED  BY <1>3, <1>4, <4>1, <4>2
      <3>2. CASE i = h + 1
        <4>1. h >= 2 /\ i - 1 = h /\ h \in 2 .. h
          BY <1>2, <3>2
        <4>2. lu[own[h]] = lv[own[h]] /\ own[h] < n + 1 /\ lu[n + 1] = lv[own[h]] + 1
          BY <1>2, <1>5, <1>6, <1>9, <4>1
        <4> QED  BY <1>1, <1>3, <1>4, <3>2, <4>1, <4>2
      <3> QED  BY <1>2, <3>1, <3>2
    <2> QED  BY <1>3, <1>6, <2>1, <2>2 DEF Linked, lu
  <1>15. Rooted(r, new, us)
    <2>1. Len(r) # 1 /\ Level(us) = lu[n + 1] + Inside(s.state)
      BY <1>1, <1>2, <1>3, <1>6
    <2>2. lu[new[2]] = 0
      <3>1. CASE h = 1
        <4>1. new[2] = n + 1
          BY <1>4, <3>1
        <4> QED  BY <1>6, <1>10, <3>1, <4>1
      <3>2. CASE h # 1
        <4>1. h >= 2 /\ 2 \in 2 .. h
          BY <1>2, <3>2
        <4> QED  BY <1>4, <1>5, <1>9, <4>1
      <3> QED  BY <3>1, <3>2
    <2> QED  BY <1>3, <1>4, <2>1, <2>2 DEF Rooted, lu
  <1>16. Ranked(r, new, us)
    <2>1. ASSUME NEW i \in 2 .. h + 1, NEW j \in 2 .. h + 1, i < j
          PROVE  \/ new[i] = new[j] /\ i = j - 1 /\ r[j].state = "DICT_VALUE"
                 \/ new[i] < new[j] /\ lu[new[i]] < lu[new[j]]
      <3>0. i \in 2 .. h
        BY <1>2, <2>1
      <3>1. CASE j \in 2 .. h
        <4>1. \/ own[i] = own[j] /\ i = j - 1 /\ p[j].state = "DICT_VALUE"
              \/ own[i] < own[j] /\ lu[own[i]] < lu[own[j]]
          BY <1>5, <2>1, <3>0, <3>1 DEF Ranked, h, lu
        <4> QED  BY <1>3, <1>4, <1>12, <3>0, <3>1, <4>1
      <3>2. CASE j = h + 1
        <4>1. own[i] \in Enclosing(ts) /\ own[i] \in 1 .. n
          BY <1>5, <1>8, <3>0
        <4>2. own[i] < n + 1 /\ lu[own[i]] < lu[n + 1]
          BY <1>2, <1>5, <1>6, <1>7, <3>0, <4>1, SMTT(60)
        <4> QED  BY <1>4, <3>0, <3>2, <4>2
      <3> QED  BY <1>11, <3>1, <3>2
    <2> QED  BY <1>3, <2>1 DEF Ranked, lu
  <1>17. Tallied(r, new, us, FALSE)
    <2>1. Settled(s, us, n + 1)
      BY <1>1, SettledNew DEF us, n, s
    <2>2. ASSUME NEW i \in 2 .. (h + 1) - 1
          PROVE  r[i].state = "DICT_KEY" \/ Behind(r[i], us, new[i])
      <3>1. i \in 2 .. h /\ h >= 2 /\ (i \in 2 .. h - 1 \/ i = h)
        BY <1>2
      <3>2. p[i].state = "DICT_KEY" \/ Behind(p[i], us, own[i])
        BY <1>9, <3>1
      <3> QED  BY <1>3, <1>4, <1>12, <3>1, <3>2
    <2> QED  BY <1>3, <1>4, <2>1, <2>2 DEF Tallied
  <1> QED  BY <1>13, <1>14, <1>15, <1>16, <1>17 DEF Spells, Owned, us, h, n, r, new, t, s

-----------------------------------------------------------------------------
(* The structs learn of the last element: ujo_state_switch.                 *)

\* A map whose value was added has its key state in use again.
LEMMA SwitchFromValue ==
    ASSUME NEW p \in Seq(ujo_state), NEW r \in Seq(ujo_state), NEW own, NEW ts \in Seq(Nat),
           Len(p) >= 2, p[Len(p)].state = "DICT_VALUE", Stacked(p),
           Len(r) = Len(p) - 1, \A i \in 1 .. Len(p) - 1 : r[i] = p[i],
           Spells(p, own, ts, TRUE)
    PROVE  Len(p) >= 3 => Spells(r, own, ts, FALSE)
  <1> SUFFICES ASSUME Len(p) >= 3 PROVE Spells(r, own, ts, FALSE)
    OBVIOUS
  <1> DEFINE h == Len(p)
             lv == Levels(ts)
  <1>0. Owned(p, own, ts) /\ Ranked(p, own, ts) /\ Rooted(p, own, ts) /\ Tallied(p, own, ts, TRUE)
    BY DEF Spells
  <1>1. /\ h \in Nat /\ h >= 3 /\ h \in 2 .. h /\ h \in 3 .. h
        /\ h - 1 \in 2 .. h /\ h - 1 \in 2 .. h - 1 /\ h - 1 # 1 /\ h - 1 > 1
    OBVIOUS
  <1>2. p[h - 1].state = "DICT_KEY" /\ r[h - 1] = p[h - 1]
    BY <1>1 DEF Stacked
  <1>3. own[h] = own[h - 1]
    BY <1>0, <1>1 DEF Owned, Linked
  <1>4. \A i \in 2 .. h - 1 : i \in 2 .. h /\ r[i] = p[i]
    <2> TAKE i \in 2 .. h - 1
    <2>1. i \in 2 .. h /\ i \in 1 .. h - 1
      BY <1>1, SMTT(60)
    <2> QED  BY <2>1
  <1>5. \A i \in 3 .. h - 1 : i \in 3 .. h /\ r[i] = p[i]
    <2> TAKE i \in 3 .. h - 1
    <2>1. i \in 3 .. h /\ i \in 1 .. h - 1
      BY <1>1, SMTT(60)
    <2> QED  BY <2>1
  <1>6. Linked(r, own, ts)
    BY <1>0, <1>4, <1>5 DEF Linked, Owned
  <1>7. Enclosing(ts) = {own[i] : i \in 2 .. h - 1}
    <2>1. Enclosing(ts) = {own[i] : i \in 2 .. h}
      BY <1>0 DEF Owned
    <2>2. \A i \in 2 .. h : i \in 2 .. h - 1 \/ i = h
      BY <1>1
    <2> HIDE DEF h
    <2> QED  BY <1>1, <1>3, <1>4, <2>1, <2>2
  <1>8. Rooted(r, own, ts)
    <2>1. lv[own[2]] = 0 /\ Level(ts) = lv[own[h]] + 1
      BY <1>0, LevelIs DEF Inside
    <2>2. Inside(r[h - 1].state) = 1
      BY <1>2 DEF Inside
    <2>3. Len(r) = h - 1 /\ Len(r) # 1
      BY <1>1
    <2> HIDE DEF h
    <2> QED  BY <1>3, <2>1, <2>2, <2>3 DEF Rooted
  <1>9. Ranked(r, own, ts)
    BY <1>0, <1>4 DEF Ranked
  <1>10. Tallied(r, own, ts, FALSE)
    <2>1. Behind(p[h], ts, own[h])
      BY <1>0 DEF Tallied
    <2>2. Settled(r[h - 1], ts, own[h - 1])
      <3>1. Cardinality(Kids(ts, own[h])) % 2 = 0
        BY <2>1 DEF Behind
      <3> HIDE DEF h
      <3> QED  BY <1>2, <1>3, <3>1 DEF Settled
    <2>3. \A i \in 2 .. (h - 1) - 1 : i \in 2 .. h - 1
      BY <1>1
    <2>4. \A i \in 2 .. h - 1 : p[i].state = "DICT_KEY" \/ Behind(p[i], ts, own[i])
      BY <1>0 DEF Tallied
    <2>5. Len(r) = h - 1
      OBVIOUS
    <2> HIDE DEF h
    <2> QED  BY <1>4, <2>2, <2>3, <2>4, <2>5 DEF Tallied
  <1> QED  BY <1>6, <1>7, <1>8, <1>9, <1>10 DEF Spells, Owned

\* A map whose key was added has its value state in use.
LEMMA SwitchFromKey ==
    ASSUME NEW p \in Seq(ujo_state), NEW own, NEW ts \in Seq(Nat),
           Len(p) >= 2, p[Len(p)].state = "DICT_KEY", Spells(p, own, ts, TRUE)
    PROVE  Spells(Append(p, NewState("DICT_VALUE")), Joined(own, Len(p), own[Len(p)]), ts, FALSE)
  <1> DEFINE h == Len(p)
             s == NewState("DICT_VALUE")
             r == Append(p, s)
             x == own[h]
             new == Joined(own, h, x)
             lv == Levels(ts)
  <1>0. Owned(p, own, ts) /\ Ranked(p, own, ts) /\ Rooted(p, own, ts) /\ Tallied(p, own, ts, TRUE)
    BY DEF Spells
  <1>1. h \in Nat /\ h >= 2 /\ h \in 2 .. h /\ 2 \in 2 .. h /\ h \in 1 .. h
    OBVIOUS
  <1>2. s \in ujo_state /\ s.state = "DICT_VALUE"
    BY DEF NewState, ujo_state, ujoDocState
  <1>3. /\ r \in Seq(ujo_state) /\ Len(r) = h + 1 /\ r[h + 1] = s
        /\ \A i \in 1 .. h : r[i] = p[i]
    BY <1>2, Lengthened
  <1>4. new[h + 1] = x /\ \A i \in 2 .. h : new[i] = own[i]
    BY <1>1, JoinedIs
  <1>5. p[h].state = "DICT_KEY"
    OBVIOUS
  <1>6. lv[own[2]] = 0 /\ Level(ts) = lv[x] + 1
    BY <1>0, LevelIs DEF Inside
  <1>7. Cardinality(Kids(ts, x)) % 2 = 1
    <2>1. Behind(p[h], ts, x)
      BY <1>0 DEF Tallied
    <2> QED  BY <1>5, <2>1 DEF Behind
  <1> HIDE DEF h, s, r, new, lv
  <1>8. \A i \in 2 .. h + 1 : i \in 2 .. h \/ i = h + 1
    BY <1>1
  <1>9. \A i \in 2 .. h : i \in 1 .. h /\ i \in 2 .. h + 1
    BY <1>1
  <1>10. Enclosing(ts) = {new[i] : i \in 2 .. Len(r)}
    <2>1. Enclosing(ts) = {own[i] : i \in 2 .. h}
      BY <1>0 DEF Owned, h
    <2>2. h + 1 \in 2 .. h + 1
      BY <1>1
    <2> QED  BY <1>1, <1>3, <1>4, <1>8, <1>9, <2>1, <2>2, SMTT(60)
  <1>11. Linked(r, new, ts)
    <2>1. ASSUME NEW i \in 2 .. h + 1
          PROVE  new[i] \in 1 .. Len(ts) /\ ts[new[i]] = TypeOf(r[i].state)
      <3>1. \A k \in 2 .. h : own[k] \in 1 .. Len(ts) /\ ts[own[k]] = TypeOf(p[k].state)
        BY <1>0 DEF Owned, Linked, h
      <3>2. CASE i \in 2 .. h
        BY <1>3, <1>4, <1>9, <3>1, <3>2
      <3>3. CASE i = h + 1
        <4>1. TypeOf("DICT_KEY") = TypeOf("DICT_VALUE")
          BY DEF TypeOf
        <4> QED  BY <1>1, <1>2, <1>3, <1>4, <1>5, <3>1, <3>3, <4>1
      <3> QED  BY <1>8, <3>2, <3>3
    <2>2. ASSUME NEW i \in 3 .. h + 1
          PROVE  IF r[i].state = "DICT_VALUE" THEN new[i] = new[i - 1]
                 ELSE new[i - 1] < new[i] /\ lv[new[i]] = lv[new[i - 1]] + 1
      <3>1. CASE i \in 3 .. h
        <4>1. IF p[i].state = "DICT_VALUE" THEN own[i] = own[i - 1]
              ELSE own[i - 1] < own[i] /\ lv[own[i]] = lv[own[i - 1]] + 1
          BY <1>0, <3>1 DEF Owned, Linked, h, lv
        <4>2. i \in 2 .. h /\ i - 1 \in 2 .. h /\ i \in 1 .. h
          BY <1>1, <3>1
        <4> QED  BY <1>3, <1>4, <4>1, <4>2
      <3>2. CASE i = h + 1
        <4>1. i - 1 = h
          BY <1>1, <3>2
        <4> QED  BY <1>1, <1>2, <1>3, <1>4, <3>2, <4>1
      <3> QED  BY <1>1, <3>1, <3>2
    <2> QED  BY <1>3, <2>1, <2>2 DEF Linked, lv
  <1>12. Rooted(r, new, ts)
    <2>1. Len(r) # 1 /\ Inside(s.state) = 1
      BY <1>1, <1>2, <1>3 DEF Inside
    <2> QED  BY <1>1, <1>3, <1>4, <1>6, <2>1 DEF Rooted, lv
  <1>13. Ranked(r, new, ts)
    <2>1. ASSUME NEW i \in 2 .. h + 1, NEW j \in 2 .. h + 1, i < j
          PROVE  \/ new[i] = new[j] /\ i = j - 1 /\ r[j].state = "DICT_VALUE"
                 \/ new[i] < new[j] /\ lv[new[i]] < lv[new[j]]
      <3>0. i \in 2 .. h
        BY <1>1, <2>1
      <3>3. \A k \in 2 .. h : i < k =>
                \/ own[i] = own[k] /\ i = k - 1 /\ p[k].state = "DICT_VALUE"
                \/ own[i] < own[k] /\ lv[own[i]] < lv[own[k]]
        BY <1>0, <3>0 DEF Ranked, h, lv
      <3>1. CASE j \in 2 .. h
        BY <1>3, <1>4, <1>9, <2>1, <3>0, <3>1, <3>3
      <3>2. CASE j = h + 1
        <4>1. CASE i = h
          <5>1. i = j - 1 /\ r[j] = s
            BY <1>1, <1>3, <3>2, <4>1
          <5> QED  BY <1>1, <1>2, <1>4, <3>2, <4>1, <5>1
        <4>2. CASE i # h
          <5>1. i < h
            BY <1>1, <3>0, <4>2
          <5>2. own[i] < x /\ lv[own[i]] < lv[x]
            BY <1>1, <1>5, <3>3, <5>1
          <5> QED  BY <1>4, <3>0, <3>2, <5>2
        <4> QED  BY <4>1, <4>2
      <3> QED  BY <1>8, <3>1, <3>2
    <2> QED  BY <1>3, <2>1 DEF Ranked, lv
  <1>14. Tallied(r, new, ts, FALSE)
    <2>1. Settled(s, ts, x)
      BY <1>2, <1>7 DEF Settled
    <2>2. ASSUME NEW i \in 2 .. (h + 1) - 1
          PROVE  r[i].state = "DICT_KEY" \/ Behind(r[i], ts, new[i])
      <3>1. i \in 2 .. h /\ (i \in 2 .. h - 1 \/ i = h)
        BY <1>1
      <3>2. p[i].state = "DICT_KEY" \/ Behind(p[i], ts, own[i])
        BY <1>0, <1>5, <3>1 DEF Tallied, h
      <3> QED  BY <1>3, <1>4, <1>9, <3>1, <3>2
    <2> QED  BY <1>3, <1>4, <2>1, <2>2 DEF Tallied
  <1> QED  BY <1>10, <1>11, <1>12, <1>13, <1>14 DEF Spells, Owned, h, r, new, s

\* Another struct in use, of the same state, that knows of all children.
LEMMA SwitchInPlace ==
    ASSUME NEW p \in Seq(ujo_state), NEW r \in Seq(ujo_state), NEW own, NEW ts \in Seq(Nat),
           Len(p) >= 1, Len(r) = Len(p), \A i \in 1 .. Len(p) - 1 : r[i] = p[i],
           r[Len(p)].state = p[Len(p)].state,
           Spells(p, own, ts, TRUE),
           Len(p) > 1 => Settled(r[Len(p)], ts, own[Len(p)])
    PROVE  Spells(r, own, ts, FALSE)
  <1> DEFINE h == Len(p)
  <1>0. Owned(p, own, ts) /\ Ranked(p, own, ts) /\ Rooted(p, own, ts) /\ Tallied(p, own, ts, TRUE)
    BY DEF Spells
  <1>1. h \in Nat /\ h >= 1
    OBVIOUS
  <1>2. \A i \in 1 .. h : r[i].state = p[i].state
    <2>1. \A i \in 1 .. h : i \in 1 .. h - 1 \/ i = h
      BY <1>1
    <2> QED  BY <2>1
  <1>3. Len(r) = h /\ \A i \in 1 .. h - 1 : r[i] = p[i]
    OBVIOUS
  <1>4. h > 1 => Settled(r[h], ts, own[h])
    OBVIOUS
  <1> HIDE DEF h
  <1>5. \A i \in 2 .. h : i \in 1 .. h
    BY <1>1
  <1>6. \A i \in 3 .. h : i \in 1 .. h
    BY <1>1
  <1>7. Linked(r, own, ts)
    BY <1>0, <1>2, <1>3, <1>5, <1>6 DEF Linked, Owned, h
  <1>8. Enclosing(ts) = {own[i] : i \in 2 .. Len(r)}
    BY <1>0, <1>3 DEF Owned, h
  <1>9. Rooted(r, own, ts)
    <2>1. 1 \in 1 .. h /\ h \in 1 .. h
      BY <1>1
    <2> QED  BY <1>0, <1>2, <1>3, <2>1 DEF Rooted, h
  <1>10. Ranked(r, own, ts)
    BY <1>0, <1>2, <1>3, <1>5 DEF Ranked, h
  <1>11. Tallied(r, own, ts, FALSE)
    <2>1. \A i \in 2 .. h - 1 : p[i].state = "DICT_KEY" \/ Behind(p[i], ts, own[i])
      BY <1>0 DEF Tallied, h
    <2>2. \A i \in 2 .. h - 1 : r[i] = p[i]
      BY <1>1, <1>3
    <2> QED  BY <1>3, <1>4, <2>1, <2>2 DEF Tallied
  <1> QED  BY <1>7, <1>8, <1>9, <1>10, <1>11 DEF Spells, Owned

-----------------------------------------------------------------------------
(* The functions of ujo_state.c on paths.                                   *)

\* The length of a path, and the struct in use on top of it.
LEMMA PathTop ==
    ASSUME NEW m \in Machines
    PROVE  /\ Path(m) \in Seq(ujo_state) /\ Len(Path(m)) \in Nat /\ Len(Path(m)) >= 1
           /\ Path(m)[Len(Path(m))] = m.cur /\ m.cur \in ujo_state
           /\ m.items # <<>> <=> Len(Path(m)) >= 2
  <1>1. Len(Path(m)) = Len(m.items) + 1 /\ Path(m)[Len(m.items) + 1] = m.cur
    BY PathIs
  <1>2. Len(m.items) \in Nat /\ m.cur \in ujo_state /\ m.items \in Seq(ujo_state)
    BY DEF Machines
  <1>3. m.items # <<>> <=> Len(m.items) >= 1
    BY <1>2
  <1> QED  BY <1>1, <1>2, <1>3, PathIs

\* Leaving a state: the path is shorter, a root that is reached is closed.
LEMMA PathPrev ==
    ASSUME NEW m \in Machines, Nested(m), m.items # <<>>
    PROVE  LET p == Path(m)
               r == Path(ujo_state_prev(m))
           IN  /\ ujo_state_prev(m) \in Machines
               /\ r \in Seq(ujo_state) /\ Len(r) = Len(p) - 1
               /\ \A i \in 2 .. Len(p) - 1 : r[i] = p[i]
               /\ Len(r) = 1 => r[1].state = "CLOSED"
               /\ Len(r) > 1 => r[1] = p[1]
  <1> DEFINE p == Path(m)
             w == ujo_state_prev(m)
             r == Path(w)
             n == Len(m.items)
             top == m.items[n]
  <1>1. /\ w \in Machines
        /\ w.items = SubSeq(m.items, 1, n - 1)
        /\ w.cur = IF top.state = "ROOT" THEN [top EXCEPT !.state = "CLOSED"] ELSE top
    BY PrevIsMachine
  <1>2. /\ n \in Nat \ {0} /\ m.items \in Seq(ujo_state) /\ top \in ujo_state
    BY DEF Machines
  <1>3. /\ Len(w.items) = n - 1
        /\ \A i \in 1 .. n - 1 : w.items[i] = m.items[i]
    BY <1>1, <1>2
  <1>4. Len(p) = n + 1 /\ \A i \in 1 .. n : p[i] = m.items[i]
    BY PathIs
  <1>5. /\ r \in Seq(ujo_state) /\ Len(r) = n /\ r[n] = w.cur
        /\ \A i \in 1 .. n - 1 : r[i] = p[i]
    <2>1. /\ r \in Seq(ujo_state) /\ Len(r) = Len(w.items) + 1 /\ r[Len(w.items) + 1] = w.cur
          /\ \A i \in 1 .. Len(w.items) : r[i] = w.items[i]
      BY <1>1, PathIs
    <2> QED  BY <1>2, <1>3, <1>4, <2>1
  <1>6. p[n] = top
    BY <1>2, <1>4
  <1>7. (top.state = "ROOT" => w.cur.state = "CLOSED") /\ (top.state # "ROOT" => w.cur = top)
    BY <1>1, <1>2 DEF ujo_state
  <1>8. Stacked(p)
    BY DEF Nested
  <1> HIDE DEF p, w, r, n, top
  <1>9. top.state = "ROOT" <=> n = 1
    BY <1>2, <1>4, <1>6, <1>8 DEF Stacked, ContainerStates
  <1>10. \A i \in 2 .. n : r[i] = p[i]
    BY <1>2, <1>5, <1>6, <1>7, <1>9
  <1>11. Len(r) = 1 => r[1].state = "CLOSED"
    BY <1>5, <1>7, <1>9
  <1>12. Len(r) > 1 => r[1] = p[1]
    BY <1>2, <1>5
  <1>13. Len(r) = Len(p) - 1 /\ Len(p) - 1 = n
    BY <1>2, <1>4, <1>5
  <1> QED  BY <1>1, <1>5, <1>10, <1>11, <1>12, <1>13 DEF p, w, r

\* Entering a state: a fresh struct is on top, unless the push was dropped.
LEMMA PathNext ==
    ASSUME NEW m \in Machines, NEW s \in ujoDocState, NEW grow \in BOOLEAN,
           ~ujo_state_next(s, m, grow).lost
    PROVE  /\ Path(ujo_state_next(s, m, grow)) = Append(Path(m), NewState(s))
           /\ ~m.lost
  BY NextIsMachine DEF Path

\* Another struct in use.
LEMMA PathCur ==
    ASSUME NEW m \in Machines, NEW s \in ujo_state
    PROVE  LET p == Path(m)
               r == Path([m EXCEPT !.cur = s])
           IN  /\ [m EXCEPT !.cur = s] \in Machines
               /\ r \in Seq(ujo_state) /\ Len(r) = Len(p) /\ r[Len(p)] = s
               /\ \A i \in 1 .. Len(p) - 1 : r[i] = p[i]
  <1> DEFINE w == [m EXCEPT !.cur = s]
             n == Len(m.items)
  <1>1. w \in Machines /\ w.items = m.items /\ w.cur = s /\ n \in Nat
    BY DEF Machines
  <1>2. /\ Len(Path(m)) = n + 1 /\ \A i \in 1 .. n : Path(m)[i] = m.items[i]
    BY PathIs
  <1> HIDE DEF w
  <1>3. /\ Path(w) \in Seq(ujo_state) /\ Len(Path(w)) = n + 1 /\ Path(w)[n + 1] = s
        /\ \A i \in 1 .. n : Path(w)[i] = m.items[i]
    BY <1>1, PathIs
  <1>4. (n + 1) - 1 = n
    BY <1>1
  <1> QED  BY <1>1, <1>2, <1>3, <1>4 DEF w

\* A table that counts one more column, or one more cell.
LEMMA TableCatchesUp ==
    ASSUME NEW s \in ujo_state, NEW ts, NEW q, Behind(s, ts, q)
    PROVE  /\ s.state = "TABLE_COLUMNS" => Settled([s EXCEPT !.columns = s.columns + 1], ts, q)
           /\ s.state = "TABLE_VALUES" => Settled(NextCell(s), ts, q)
  <1>1. ASSUME s.state = "TABLE_COLUMNS"
        PROVE  Settled([s EXCEPT !.columns = s.columns + 1], ts, q)
    <2> DEFINE w == [s EXCEPT !.columns = s.columns + 1]
    <2>1. w.state = "TABLE_COLUMNS" /\ w.columns = s.columns + 1
      BY <1>1 DEF ujo_state
    <2>2. Kids(ts, q) = Cols(ts, q) /\ Cardinality(Cols(ts, q)) = s.columns + 1
      BY <1>1 DEF Behind
    <2> HIDE DEF w
    <2>3. Settled(w, ts, q)
      BY <2>1, <2>2 DEF Settled
    <2> QED  BY <2>3 DEF w
  <1>2. ASSUME s.state = "TABLE_VALUES"
        PROVE  Settled(NextCell(s), ts, q)
    <2>1. NextCell(s).state = "TABLE_VALUES" /\ NextCell(s).columns = s.columns
      BY <1>2, NextCellIs
    <2>2. /\ Cardinality(Cols(ts, q)) = s.columns
          /\ Cardinality(Kids(ts, q) \ Cols(ts, q)) % Cardinality(Cols(ts, q))
                 = NextCell(s).column
      BY <1>2, Zenon DEF Behind
    <2> DEFINE w == NextCell(s)
    <2> HIDE DEF w
    <2>3. w.state = "TABLE_VALUES" /\ w.columns = s.columns
      BY <2>1 DEF w
    <2>4. /\ Cardinality(Cols(ts, q)) = w.columns
          /\ Cardinality(Kids(ts, q) \ Cols(ts, q)) % Cardinality(Cols(ts, q)) = w.column
      BY <2>2, <2>3, Zenon DEF w
    <2>5. Settled(w, ts, q)
      BY <2>3, <2>4, Zenon DEF Settled
    <2> QED  BY <2>5 DEF w
  <1> QED  BY <1>1, <1>2

\* ujo_state_switch: a machine that is behind by the last element knows of it
\* afterwards, if the event is one of the state it is in.
LEMMA SpellsSwitch ==
    ASSUME NEW m \in Machines, Nested(m), NEW e, NEW grow \in BOOLEAN, NEW own,
           NEW ts \in Seq(Nat), Spells(Path(m), own, ts, TRUE),
           m.cur.state = "DICT_KEY" => e # "CONTAINER_CLOSED",
           m.cur.state = "TABLE_COLUMNS" => e = "STRING_FOUND",
           m.cur.state # "NULL",
           ~ujo_state_switch(e, m, grow).lost
    PROVE  \E new : Spells(Path(ujo_state_switch(e, m, grow)), new, ts, FALSE)
  <1> DEFINE w == ujo_state_switch(e, m, grow)
             p == Path(m)
             h == Len(p)
  <1>1. /\ p \in Seq(ujo_state) /\ h \in Nat /\ h >= 1 /\ p[h] = m.cur
        /\ m.cur \in ujo_state /\ (m.items # <<>> <=> h >= 2)
    BY PathTop
  <1>2. Stacked(p) /\ Counted(p)
    BY DEF Nested
  <1>3. m.cur.state \notin {"ROOT", "CLOSED"} => h >= 2
    BY <1>1, NestedHasParent
  <1>4. h > 1 => Behind(m.cur, ts, own[h])
    BY <1>1 DEF Spells, Tallied
  <1>5. CASE m.cur.state = "DICT_VALUE"
    <2>1. w = ujo_state_prev(m)
      BY <1>5 DEF ujo_state_switch
    <2>2. /\ Path(w) \in Seq(ujo_state) /\ Len(Path(w)) = h - 1
          /\ \A i \in 2 .. h - 1 : Path(w)[i] = p[i]
          /\ Len(Path(w)) > 1 => Path(w)[1] = p[1]
      BY <1>1, <1>3, <1>5, <2>1, PathPrev
    <2>3. h >= 3
      <3>1. h \in 2 .. h /\ p[h - 1].state = "DICT_KEY"
        BY <1>1, <1>2, <1>3, <1>5 DEF Stacked
      <3>2. p[1].state # "DICT_KEY"
        BY <1>2 DEF Stacked
      <3> QED  BY <1>1, <3>1, <3>2
    <2>4. \A i \in 1 .. h - 1 : Path(w)[i] = p[i]
      BY <1>1, <2>2, <2>3
    <2> HIDE DEF w
    <2>5. Spells(Path(w), own, ts, FALSE)
      BY <1>1, <1>2, <1>3, <1>5, <2>2, <2>3, <2>4, SwitchFromValue
    <2> QED  BY <2>5 DEF w
  <1>6. CASE m.cur.state = "DICT_KEY"
    <2>1. w = ujo_state_next("DICT_VALUE", m, grow)
      BY <1>6 DEF ujo_state_switch
    <2>2. Path(w) = Append(p, NewState("DICT_VALUE"))
      BY <2>1, PathNext DEF ujoDocState
    <2>3. Spells(Append(p, NewState("DICT_VALUE")), Joined(own, h, own[h]), ts, FALSE)
      BY <1>1, <1>3, <1>6, SwitchFromKey
    <2> QED  BY <2>2, <2>3, Zenon
  <1>7. ASSUME NEW s \in ujo_state, w = [m EXCEPT !.cur = s], s.state = m.cur.state,
               h > 1 => Settled(s, ts, own[h])
        PROVE  Spells(Path(w), own, ts, FALSE)
    <2>1. /\ Path(w) \in Seq(ujo_state) /\ Len(Path(w)) = h /\ Path(w)[h] = s
          /\ \A i \in 1 .. h - 1 : Path(w)[i] = p[i]
      BY <1>7, PathCur
    <2> HIDE DEF w
    <2>2. Path(w)[h].state = p[h].state /\ (h > 1 => Settled(Path(w)[h], ts, own[h]))
      BY <1>1, <1>7, <2>1
    <2> QED  BY <1>1, <2>1, <2>2, SwitchInPlace
  <1>8. CASE m.cur.state = "TABLE_COLUMNS"
    <2> DEFINE c == m.cur.columns + 1
               s == [m.cur EXCEPT !.columns = c]
    <2>1. c \in Nat
      BY <1>1 DEF ujo_state
    <2>2. w = [m EXCEPT !.cur.columns = c]
      BY <1>8 DEF ujo_state_switch
    <2>3. h > 1 => Settled(s, ts, own[h])
      BY <1>1, <1>4, <1>8, TableCatchesUp
    <2> HIDE DEF c, w
    <2>4. s \in ujo_state /\ s.state = m.cur.state
      BY <1>1, <2>1 DEF ujo_state
    <2>5. w = [m EXCEPT !.cur = s]
      BY <2>1, <2>2 DEF Machines
    <2> HIDE DEF s
    <2>6. Spells(Path(w), own, ts, FALSE)
      BY <1>7, <2>3, <2>4, <2>5
    <2> QED  BY <2>6 DEF w
  <1>9. CASE m.cur.state = "TABLE_VALUES"
    <2> DEFINE s == NextCell(m.cur)
    <2>1. w = [m EXCEPT !.cur = s]
      BY <1>9 DEF ujo_state_switch
    <2>2. s \in ujo_state /\ s.state = m.cur.state
      BY <1>1, NextCellIs
    <2>3. h > 1 => Settled(s, ts, own[h])
      BY <1>1, <1>4, <1>9, TableCatchesUp
    <2> HIDE DEF s, w
    <2>4. Spells(Path(w), own, ts, FALSE)
      BY <1>7, <2>1, <2>2, <2>3
    <2> QED  BY <2>4 DEF w
  <1>10. CASE m.cur.state \in {"ROOT", "CLOSED", "LIST"}
    <2>1. w = m
      BY <1>10 DEF ujo_state_switch
    <2>2. h > 1 => Settled(m.cur, ts, own[h])
      BY <1>10 DEF Settled
    <2>3. Spells(p, own, ts, FALSE)
      BY <1>1, <2>2, SwitchInPlace
    <2> QED  BY <2>1, <2>3, Zenon
  <1>11. m.cur.state \in {"ROOT", "CLOSED", "LIST", "DICT_KEY", "DICT_VALUE",
                         "TABLE_COLUMNS", "TABLE_VALUES"}
    BY <1>1 DEF ujo_state, ujoDocState
  <1> QED  BY <1>5, <1>6, <1>8, <1>9, <1>10, <1>11

-----------------------------------------------------------------------------
(* The machine against the grammar.                                         *)

\* What a machine with the struct s in use accepts: the guards of the calls.
Accepted(s, t) ==
    CASE s.state = "ROOT" -> t \in ContainerTypes
      [] s.state = "LIST" -> TRUE
      [] s.state = "DICT_KEY" -> t \notin ContainerTypes
      [] s.state = "DICT_VALUE" -> t # UJO_TERMINATOR
      [] s.state = "TABLE_COLUMNS" ->
            t = UJO_TYPE_STRING \/ (t = UJO_TERMINATOR /\ s.columns > 0)
      [] s.state = "TABLE_VALUES" -> t = UJO_TERMINATOR => s.column = 0
      [] OTHER -> FALSE

LEMMA AcceptedIs ==
    ASSUME NEW s, NEW t
    PROVE  /\ s.state = "ROOT" => (Accepted(s, t) <=> t \in ContainerTypes)
           /\ s.state = "LIST" => Accepted(s, t)
           /\ s.state = "DICT_KEY" => (Accepted(s, t) <=> t \notin ContainerTypes)
           /\ s.state = "DICT_VALUE" => (Accepted(s, t) <=> t # UJO_TERMINATOR)
           /\ s.state = "TABLE_COLUMNS" => (Accepted(s, t) <=>
                  (t = UJO_TYPE_STRING \/ (t = UJO_TERMINATOR /\ s.columns > 0)))
           /\ s.state = "TABLE_VALUES" => (Accepted(s, t) <=>
                  (t = UJO_TERMINATOR => s.column = 0))
           /\ s.state = "CLOSED" => ~Accepted(s, t)
  BY DEF Accepted

\* What the structs of a nested machine can be.
LEMMA NestedStates ==
    ASSUME NEW m \in Machines, Nested(m)
    PROVE  /\ m.cur.state \in {"ROOT", "CLOSED"} <=> Len(Path(m)) = 1
           /\ m.cur.state \in {"ROOT", "CLOSED"} \cup ContainerStates
           /\ Len(Path(m)) >= 2 => m.cur.state \in ContainerStates
  <1> DEFINE p == Path(m)
             h == Len(p)
  <1>1. h \in Nat /\ h >= 1 /\ p[h] = m.cur
    BY PathTop
  <1>2. Stacked(p)
    BY DEF Nested
  <1> HIDE DEF p, h
  <1>3. h = 1 => m.cur.state \in {"ROOT", "CLOSED"}
    BY <1>1, <1>2 DEF Stacked
  <1>4. h >= 2 => m.cur.state \in ContainerStates
    <2>1. h >= 2 => h \in 2 .. h
      BY <1>1
    <2> QED  BY <1>1, <1>2, <2>1 DEF Stacked, h
  <1>5. h = 1 \/ h >= 2
    BY <1>1
  <1> QED  BY <1>3, <1>4, <1>5 DEF ContainerStates, p, h

\* A set of positions is empty exactly when it has no members to count.
LEMMA NoneCounted ==
    ASSUME NEW n \in Nat, NEW A, A \subseteq 1 .. n
    PROVE  Cardinality(A) \in Nat /\ (A # {} <=> Cardinality(A) > 0)
  <1>1. IsFiniteSet(A) /\ Cardinality(A) \in Nat
    BY OneMore
  <1>2. Cardinality(A) = 0 <=> A = {}
    BY <1>1, FS_EmptySet
  <1> DEFINE c == Cardinality(A)
  <1>3. c \in Nat /\ (c = 0 <=> A = {})
    BY <1>1, <1>2
  <1> HIDE DEF c
  <1>4. c # 0 <=> c > 0
    BY <1>3
  <1> QED  BY <1>3, <1>4, Zenon DEF c

\* A column's name, or the end of columns that are not none.
IsColumn(ts, q, t) == t = UJO_TYPE_STRING \/ (t = UJO_TERMINATOR /\ Cols(ts, q) # {})

\* What may stand in the innermost container, by its type.
LEMMA StandsIs ==
    ASSUME NEW ts, NEW t, NEW q, Enclosing(ts) # {}, Max(Enclosing(ts)) = q
    PROVE  /\ ts[q] = UJO_TYPE_LIST => Stands(ts, t)
           /\ ts[q] = UJO_TYPE_MAP => (Stands(ts, t) <=>
                 /\ t \in ContainerTypes => Cardinality(Kids(ts, q)) % 2 = 1
                 /\ t = UJO_TERMINATOR => ~(Cardinality(Kids(ts, q)) % 2 = 1))
           /\ ts[q] = UJO_TYPE_TABLE /\ Level(ts) = Levels(ts)[q] + 2 => 
                 (Stands(ts, t) <=> IsColumn(ts, q, t))
           /\ ts[q] = UJO_TYPE_TABLE /\ Level(ts) # Levels(ts)[q] + 2 => (Stands(ts, t) <=>
                 (t = UJO_TERMINATOR =>
                     Cardinality(Kids(ts, q) \ Cols(ts, q)) % Cardinality(Cols(ts, q)) = 0))
  <1> DEFINE L == ts[q] = UJO_TYPE_LIST
             M == ts[q] = UJO_TYPE_MAP
             C == ts[q] = UJO_TYPE_TABLE /\ Level(ts) = Levels(ts)[q] + 2
             odd == Cardinality(Kids(ts, q)) % 2 = 1
             inMap == (t \in ContainerTypes => odd) /\ (t = UJO_TERMINATOR => ~odd)
             inColumns == IsColumn(ts, q, t)
             inRows == t = UJO_TERMINATOR =>
                           Cardinality(Kids(ts, q) \ Cols(ts, q)) % Cardinality(Cols(ts, q)) = 0
  <1>1. Stands(ts, t) <=> CASE L -> TRUE [] M -> inMap [] C -> inColumns [] OTHER -> inRows
    BY Zenon DEF Stands, IsColumn
  <1>2. /\ M => ~L /\ ~C
        /\ C => ~L /\ ~M
        /\ ts[q] = UJO_TYPE_TABLE /\ Level(ts) # Levels(ts)[q] + 2 => ~L /\ ~M /\ ~C
    BY Tokens3
  <1>3. L \in BOOLEAN /\ M \in BOOLEAN /\ C \in BOOLEAN
        /\ inMap \in BOOLEAN /\ inColumns \in BOOLEAN /\ inRows \in BOOLEAN
    BY DEF IsColumn
  <1> HIDE DEF L, M, C, inMap, inColumns, inRows
  <1>4. L => ~M /\ ~C
    BY <1>2
  <1>5. /\ L => Stands(ts, t)
        /\ M => (Stands(ts, t) <=> inMap)
        /\ C => (Stands(ts, t) <=> inColumns)
        /\ ~L /\ ~M /\ ~C => (Stands(ts, t) <=> inRows)
    BY <1>1, <1>2, <1>3, <1>4
  <1> QED  BY <1>2, <1>5, Zenon DEF L, M, C, inMap, inColumns, inRows

\* What the grammar has follow is what the machine accepts.
LEMMA FollowsIs ==
    ASSUME NEW m \in Machines, Nested(m), NEW own, NEW ts \in Seq(Nat),
           Spells(Path(m), own, ts, FALSE), NEW t \in Nat
    PROVE  Follows(ts, t) <=> Accepted(m.cur, t)
  <1> DEFINE p == Path(m)
             h == Len(p)
             q == own[h]
             s == m.cur
             rest == Cardinality(Kids(ts, q)) % 2
             odd == rest = 1
  <1>1. /\ p \in Seq(ujo_state) /\ h \in Nat /\ h >= 1 /\ p[h] = s /\ s \in ujo_state
    BY PathTop
  <1>2. /\ s.state \in {"ROOT", "CLOSED"} <=> h = 1
        /\ s.state \in {"ROOT", "CLOSED"} \cup ContainerStates
    BY NestedStates
  <1>3. Owned(p, own, ts) /\ Ranked(p, own, ts) /\ Rooted(p, own, ts) /\ Tallied(p, own, ts, FALSE)
    BY DEF Spells
  <1>4. Follows(ts, t) <=> IF ts = <<>> THEN t \in ContainerTypes ELSE Stands(ts, t)
    BY PrefixAppend
  <1>5. CASE h = 1
    <2>1. s.state = "ROOT" <=> ts = <<>>
      BY <1>1, <1>3, <1>5 DEF Rooted
    <2>2. Enclosing(ts) = {}
      <3> HIDE DEF p, h
      <3>1. Enclosing(ts) = {own[i] : i \in 2 .. h}
        BY <1>3 DEF Owned, h
      <3>2. \A i \in 2 .. h : FALSE
        BY <1>5
      <3> QED  BY <3>1, <3>2
    <2>3. ~Stands(ts, t)
      BY <2>2, Zenon DEF Stands
    <2>4. s.state = "ROOT" \/ s.state = "CLOSED"
      BY <1>2, <1>5
    <2>5. CASE s.state = "ROOT"
      BY <1>4, <2>1, <2>5, AcceptedIs
    <2>6. CASE s.state = "CLOSED"
      BY <1>4, <2>1, <2>3, <2>6, AcceptedIs
    <2> QED  BY <2>4, <2>5, <2>6
  <1>6. CASE h >= 2
    <2>1. /\ q \in 1 .. Len(ts) /\ Enclosing(ts) # {} /\ Max(Enclosing(ts)) = q
      BY <1>1, <1>3, <1>6, TopOwner
    <2>2. ts # <<>>
      BY <2>1
    <2>3. ts[q] = TypeOf(s.state)
      <3>1. h \in 2 .. h
        BY <1>1, <1>6
      <3> QED  BY <1>1, <1>3, <3>1 DEF Owned, Linked
    <2>4. Level(ts) = Levels(ts)[q] + Inside(s.state) /\ Levels(ts)[q] \in Int
      <3>1. Levels(ts)[q] \in Int
        BY <2>1, Appended
      <3> QED  BY <1>1, <1>3, <1>6, <3>1, LevelIs
    <2>5. Settled(s, ts, q)
      BY <1>1, <1>3, <1>6 DEF Tallied
    <2>6. /\ Cardinality(Kids(ts, q)) \in Nat
          /\ Cols(ts, q) # {} <=> Cardinality(Cols(ts, q)) > 0
      <3>1. Kids(ts, q) \subseteq 1 .. Len(ts) /\ Cols(ts, q) \subseteq Kids(ts, q)
        BY <2>1, KidsAppend
      <3>2. Cols(ts, q) \subseteq 1 .. Len(ts) /\ Len(ts) \in Nat
        BY <3>1
      <3> QED  BY <3>1, <3>2, NoneCounted
    <2> HIDE DEF p, h, q, s
    <2>7. Follows(ts, t) <=> Stands(ts, t)
      BY <1>4, <2>2
    <2>8. ASSUME s.state = "LIST" PROVE Follows(ts, t) <=> Accepted(s, t)
      <3>1. ts[q] = UJO_TYPE_LIST
        BY <2>3, <2>8 DEF TypeOf
      <3> QED  BY <2>1, <2>7, <2>8, <3>1, AcceptedIs, StandsIs
    <2>9. ASSUME s.state = "DICT_KEY" PROVE Follows(ts, t) <=> Accepted(s, t)
      <3>1. ts[q] = UJO_TYPE_MAP /\ ts[q] # UJO_TYPE_LIST
        BY <2>3, <2>9, Tokens3 DEF TypeOf
      <3>2. rest = 0
        BY <2>5, <2>9 DEF Settled
      <3>3. Follows(ts, t) <=> (t \in ContainerTypes => odd) /\ (t = UJO_TERMINATOR => ~odd)
        BY <2>1, <2>7, <3>1, StandsIs
      <3> HIDE DEF rest
      <3> QED  BY <2>9, <3>2, <3>3, AcceptedIs
    <2>10. ASSUME s.state = "DICT_VALUE" PROVE Follows(ts, t) <=> Accepted(s, t)
      <3>1. ts[q] = UJO_TYPE_MAP /\ ts[q] # UJO_TYPE_LIST
        BY <2>3, <2>10, Tokens3 DEF TypeOf
      <3>2. rest = 1
        BY <2>5, <2>10 DEF Settled
      <3>3. Follows(ts, t) <=> (t \in ContainerTypes => odd) /\ (t = UJO_TERMINATOR => ~odd)
        BY <2>1, <2>7, <3>1, StandsIs
      <3> HIDE DEF rest
      <3> QED  BY <2>10, <3>2, <3>3, AcceptedIs
    <2>11. ASSUME s.state = "TABLE_COLUMNS" PROVE Follows(ts, t) <=> Accepted(s, t)
      <3>1. /\ ts[q] = UJO_TYPE_TABLE /\ ts[q] # UJO_TYPE_LIST /\ ts[q] # UJO_TYPE_MAP
            /\ Level(ts) = Levels(ts)[q] + 2
        BY <2>3, <2>4, <2>11, Tokens3 DEF TypeOf, Inside
      <3>2. Cols(ts, q) # {} <=> s.columns > 0
        BY <2>5, <2>6, <2>11 DEF Settled
      <3>3. Stands(ts, t) <=> IsColumn(ts, q, t)
        BY <2>1, <3>1, StandsIs
      <3>4. Accepted(s, t) <=> (t = UJO_TYPE_STRING \/ (t = UJO_TERMINATOR /\ s.columns > 0))
        BY <2>11, AcceptedIs
      <3> QED  BY <2>7, <3>2, <3>3, <3>4, Zenon DEF IsColumn
    <2>12. ASSUME s.state = "TABLE_VALUES" PROVE Follows(ts, t) <=> Accepted(s, t)
      <3>1. /\ ts[q] = UJO_TYPE_TABLE /\ ts[q] # UJO_TYPE_LIST /\ ts[q] # UJO_TYPE_MAP
            /\ Level(ts) # Levels(ts)[q] + 2
        BY <2>3, <2>4, <2>12, Tokens3 DEF TypeOf, Inside
      <3>2. Cardinality(Kids(ts, q) \ Cols(ts, q)) % Cardinality(Cols(ts, q)) = s.column
        BY <2>5, <2>12, Zenon DEF Settled
      <3>3. Follows(ts, t) <=> (t = UJO_TERMINATOR =>
                Cardinality(Kids(ts, q) \ Cols(ts, q)) % Cardinality(Cols(ts, q)) = 0)
        BY <2>1, <2>7, <3>1, StandsIs
      <3>4. Follows(ts, t) <=> (t = UJO_TERMINATOR => s.column = 0)
        BY <3>2, <3>3, Zenon
      <3> QED  BY <2>12, <3>4, AcceptedIs, Zenon
    <2>13. s.state \in ContainerStates
      BY <1>2, <1>6 DEF ContainerStates
    <2>14. Follows(ts, t) <=> Accepted(s, t)
      BY <2>8, <2>9, <2>10, <2>11, <2>12, <2>13 DEF ContainerStates
    <2> QED  BY <2>14 DEF s
  <1>7. h = 1 \/ h >= 2
    <2> HIDE DEF h
    <2> QED  BY <1>1
  <1> QED  BY <1>5, <1>6, <1>7

\* The document is complete exactly when it is closed.
LEMMA CompleteIs ==
    ASSUME NEW m \in Machines, Nested(m), NEW own, NEW ts \in Seq(Nat),
           Spells(Path(m), own, ts, FALSE), WellFormedPrefix(ts)
    PROVE  Complete(ts) <=> m.cur.state = "CLOSED"
  <1> DEFINE p == Path(m)
             h == Len(p)
             q == own[h]
             lv == Levels(ts)
  <1>1. /\ p \in Seq(ujo_state) /\ h \in Nat /\ h >= 1 /\ p[h] = m.cur
    BY PathTop
  <1>2. m.cur.state \in {"ROOT", "CLOSED"} <=> h = 1
    BY NestedStates
  <1>3. Owned(p, own, ts) /\ Ranked(p, own, ts) /\ Rooted(p, own, ts)
    BY DEF Spells
  <1>4. Complete(ts) <=> ts # <<>> /\ Level(ts) = 0
    <2>1. Len(ts) > 0 <=> ts # <<>>
      OBVIOUS
    <2> QED  BY <2>1 DEF Complete, Level
  <1>5. CASE h = 1
    <2>1. Level(ts) = 0 /\ (m.cur.state = "ROOT" <=> ts = <<>>)
      BY <1>1, <1>3, <1>5 DEF Rooted
    <2> QED  BY <1>2, <1>4, <1>5, <2>1
  <1>6. CASE h >= 2
    <2>1. q \in 1 .. Len(ts) /\ lv[q] \in Int
      <3>1. q \in 1 .. Len(ts)
        BY <1>1, <1>3, <1>6, TopOwner
      <3> QED  BY <3>1, Appended
    <2>2. lv[own[2]] = 0 /\ Level(ts) = lv[q] + Inside(p[h].state)
      BY <1>1, <1>3, <1>6, LevelIs
    <2>3. Inside(p[h].state) \in {1, 2}
      BY DEF Inside
    <2>4. lv[q] >= 0
      <3>1. CASE h = 2
        <4>1. own[2] = q
          BY <3>1
        <4> HIDE DEF h, p, q, lv
        <4> QED  BY <2>1, <2>2, <4>1
      <3>2. CASE h # 2
        <4>1. 2 \in 2 .. h - 1
          <5> HIDE DEF h
          <5> QED  BY <1>1, <1>6, <3>2
        <4>2. (own[2] < q /\ lv[own[2]] < lv[q]) \/ own[2] = q
          BY <1>1, <1>3, <1>6, <4>1, TopOwner
        <4> HIDE DEF h, p, q, lv
        <4> QED  BY <2>1, <2>2, <4>2
      <3> QED  BY <3>1, <3>2
    <2> HIDE DEF h, p, q, lv
    <2>5. Level(ts) # 0
      BY <2>1, <2>2, <2>3, <2>4
    <2>6. m.cur.state # "CLOSED"
      BY <1>2, <1>6
    <2> QED  BY <1>4, <2>5, <2>6
  <1>7. h = 1 \/ h >= 2
    <2> HIDE DEF h
    <2> QED  BY <1>1
  <1> QED  BY <1>5, <1>6, <1>7

-----------------------------------------------------------------------------
(* A call that accepts an element.                                          *)

\* The type of an element, of a null that of nothing.
Token(e) == IF e.data = {<<"null", 1>>} THEN UJO_TYPE_NONE ELSE e.type

\* A value is of an atomic type, and a string where it is taken for one.
LEMMA ValueToken ==
    ASSUME NEW e, NEW ws, Coded(e, ws), Valued(e)
    PROVE  /\ Token(e) \in AtomicTypes
           /\ Event(e) = "STRING_FOUND" => Token(e) = UJO_TYPE_STRING
  <1>0. UJO_TYPE_NONE \in AtomicTypes
    BY DEF AtomicTypes, UJO_TYPE_NONE, UJO_TYPE_FLOAT64, UJO_TYPE_TIMESTAMP
  <1>1. e.data = {<<"null", 1>>} \/ e.type \in AtomicTypes
    <2>1. CASE CodedTag(e, ws)
      <3>1. e.data = {}
        BY <2>1 DEF CodedTag, Element
      <3> QED  BY <1>0, <3>1 DEF Valued
    <2>2. CASE CodedScalar(e, ws)
      BY <2>2 DEF CodedScalar, ScalarTypes, Element
    <2>3. CASE CodedDate(e, ws) \/ CodedTime(e, ws) \/ CodedTimestamp(e, ws)
      <3>1. e.type \in {UJO_TYPE_DATE, UJO_TYPE_TIME, UJO_TYPE_TIMESTAMP}
        BY <2>3 DEF CodedDate, CodedTime, CodedTimestamp, Element
      <3> QED  BY <3>1 DEF AtomicTypes, UJO_TYPE_DATE, UJO_TYPE_TIME, UJO_TYPE_TIMESTAMP,
                           UJO_TYPE_FLOAT64
    <2>4. CASE CodedSized(e, ws)
      <3>1. e.type \in {UJO_TYPE_STRING, UJO_TYPE_BIN}
        BY <2>4 DEF CodedSized, SizedTypes, Element
      <3> QED  BY <3>1 DEF AtomicTypes, UJO_TYPE_STRING, UJO_TYPE_BIN, UJO_TYPE_FLOAT64,
                           UJO_TYPE_TIMESTAMP
    <2>5. CASE CodedNull(e, ws)
      BY <2>5 DEF CodedNull, Element
    <2> QED  BY <2>1, <2>2, <2>3, <2>4, <2>5 DEF Coded
  <1>2. Event(e) = "STRING_FOUND" => e.type = UJO_TYPE_STRING /\ e.data # {<<"null", 1>>}
    BY DEF Event
  <1> QED  BY <1>0, <1>1, <1>2 DEF Token

\* The machine knows of every element of ts, and ts is the start of a document.
Grammared(m, ts) ==
    WellFormedPrefix(ts) /\ \E own : Spells(Path(m), own, ts, FALSE)

\* A push that was not dropped leaves no earlier one dropped.
LEMMA SwitchLost ==
    ASSUME NEW m \in Machines, NEW e, NEW grow \in BOOLEAN, m.lost
    PROVE  ujo_state_switch(e, m, grow).lost
  <1> DEFINE w == ujo_state_switch(e, m, grow)
  <1>1. CASE m.cur.state = "DICT_VALUE"
    <2>1. w = ujo_state_prev(m)
      BY <1>1 DEF ujo_state_switch
    <2>2. ujo_state_prev(m).lost
      BY PrevIsMachine
    <2> QED  BY <2>1, <2>2
  <1>2. CASE m.cur.state = "DICT_KEY" /\ e # "CONTAINER_CLOSED"
    <2>1. w = ujo_state_next("DICT_VALUE", m, grow)
      BY <1>2 DEF ujo_state_switch
    <2>2. "DICT_VALUE" \in ujoDocState
      BY DEF ujoDocState
    <2>3. \/ ujo_state_next("DICT_VALUE", m, grow).lost
          \/ ujo_state_next("DICT_VALUE", m, grow).lost = m.lost
      BY <2>2, NextIsMachine
    <2>4. ujo_state_next("DICT_VALUE", m, grow).lost
      BY <2>3, Zenon
    <2> QED  BY <2>1, <2>4, Zenon
  <1>3. CASE m.cur.state = "TABLE_COLUMNS" /\ e = "STRING_FOUND"
    <2>1. w = [m EXCEPT !.cur.columns = m.cur.columns + 1]
      BY <1>3 DEF ujo_state_switch
    <2> QED  BY <2>1 DEF Machines
  <1>4. CASE m.cur.state = "TABLE_VALUES"
    <2>1. w = [m EXCEPT !.cur = NextCell(m.cur)]
      BY <1>4 DEF ujo_state_switch
    <2> QED  BY <2>1 DEF Machines
  <1>5. CASE /\ m.cur.state \notin {"DICT_VALUE", "TABLE_VALUES"}
             /\ ~(m.cur.state = "DICT_KEY" /\ e # "CONTAINER_CLOSED")
             /\ ~(m.cur.state = "TABLE_COLUMNS" /\ e = "STRING_FOUND")
    BY <1>5 DEF ujo_state_switch
  <1> QED  BY <1>1, <1>2, <1>3, <1>4, <1>5

LEMMA MovesLost ==
    ASSUME NEW m \in Machines, NEW e, NEW r, Moves(e, m, r), ~r.lost
    PROVE  ~m.lost
  <1> SUFFICES ASSUME m.lost PROVE FALSE
    OBVIOUS
  <1>1. CASE MovesValue(e, m, r)
    BY <1>1, SwitchLost DEF MovesValue
  <1>2. CASE MovesIn(e, m, r)
    <2>1. PICK p \in Enters, grow \in BOOLEAN : r = ujo_state_next(p[2], m, grow)
      BY <1>2 DEF MovesIn
    <2>2. p[2] \in ujoDocState
      BY DEF Enters, ujoDocState
    <2> QED  BY <2>1, <2>2, NextIsMachine
  <1>3. CASE MovesOut(e, m, r)
    <2>1. PICK grow \in BOOLEAN :
              r = ujo_state_switch("CONTAINER_CLOSED", ujo_state_prev(m), grow)
      BY <1>3 DEF MovesOut
    <2>2. ujo_state_prev(m) \in Machines /\ ujo_state_prev(m).lost
      BY PrevIsMachine
    <2> QED  BY <2>1, <2>2, SwitchLost
  <1>4. CASE MovesToRows(e, m, r)
    <2>1. r.lost = m.lost
      BY <1>4 DEF MovesToRows, Machines
    <2> QED  BY <2>1
  <1> QED  BY <1>1, <1>2, <1>3, <1>4 DEF Moves

\* A call that adds a value.
LEMMA ValueSpells ==
    ASSUME NEW m \in Machines, Nested(m), NEW e, NEW r, MovesValue(e, m, r), ~r.lost,
           Token(e) \in AtomicTypes, Event(e) = "STRING_FOUND" => Token(e) = UJO_TYPE_STRING,
           NEW ts \in Seq(Nat), NEW own, Spells(Path(m), own, ts, FALSE)
    PROVE  /\ Accepted(m.cur, Token(e))
           /\ \E new : Spells(Path(r), new, Append(ts, Token(e)), FALSE)
  <1> DEFINE t == Token(e)
             p == Path(m)
  <1>1. t \notin ContainerTypes \cup {UJO_TERMINATOR} /\ t \in Nat
    BY Tokens3
  <1>2. m.cur.state \in {"DICT_KEY", "DICT_VALUE", "LIST", "TABLE_VALUES"}
        \/ (m.cur.state = "TABLE_COLUMNS" /\ Event(e) = "STRING_FOUND")
    BY DEF MovesValue, ujo_state_allow_string, ujo_state_allow_atomic
  <1>3. Accepted(m.cur, t)
    BY <1>1, <1>2, AcceptedIs
  <1>4. p \in Seq(ujo_state) /\ Len(p) >= 2 /\ Stacked(p) /\ Counted(p)
    <2>1. m.items # <<>>
      BY <1>2, NestedHasParent
    <2> QED  BY <2>1, PathTop DEF Nested
  <1>5. Spells(p, own, Append(ts, t), TRUE)
    BY <1>1, <1>4, SpellsValue
  <1>6. PICK grow \in BOOLEAN : r = ujo_state_switch(Event(e), m, grow)
    BY DEF MovesValue
  <1>7. Event(e) # "CONTAINER_CLOSED"
    BY DEF Event
  <1>8. Append(ts, t) \in Seq(Nat)
    BY <1>1
  <1> HIDE DEF t
  <1>9. \E new : Spells(Path(r), new, Append(ts, t), FALSE)
    BY <1>2, <1>5, <1>6, <1>7, <1>8, SpellsSwitch
  <1> QED  BY <1>3, <1>9 DEF t

\* A call that opens a container.
LEMMA InSpells ==
    ASSUME NEW m \in Machines, Nested(m), NEW e, NEW r, MovesIn(e, m, r), ~r.lost,
           NEW ts \in Seq(Nat), NEW own, Spells(Path(m), own, ts, FALSE)
    PROVE  /\ Accepted(m.cur, Token(e)) /\ Token(e) \in Nat
           /\ \E new : Spells(Path(r), new, Append(ts, Token(e)), FALSE)
  <1>1. PICK c \in Enters, grow \in BOOLEAN :
            /\ e = Element(c[1], {}) /\ ujo_state_allow_container(m.cur.state)
            /\ r = ujo_state_next(c[2], m, grow)
    BY DEF MovesIn
  <1>2. Token(e) = c[1]
    BY <1>1 DEF Token, Element
  <1>3. c[1] \in ContainerTypes /\ c[2] \in ujoDocState
    BY DEF Enters, ContainerTypes, ujoDocState
  <1>4. Accepted(m.cur, c[1])
    BY <1>1, <1>3, Tokens3, AcceptedIs DEF ujo_state_allow_container
  <1>5. Path(r) = Append(Path(m), NewState(c[2]))
    BY <1>1, <1>3, PathNext
  <1>6. Spells(Append(Path(m), NewState(c[2])), Joined(own, Len(Path(m)), Len(ts) + 1),
               Append(ts, c[1]), FALSE)
    <2>1. /\ Path(m) \in Seq(ujo_state) /\ Len(Path(m)) >= 1 /\ Path(m)[Len(Path(m))] = m.cur
          /\ Stacked(Path(m)) /\ Counted(Path(m))
      BY PathTop DEF Nested
    <2>2. ujo_state_allow_container(Path(m)[Len(Path(m))].state)
      BY <1>1, <2>1
    <2> QED  BY <2>1, <2>2, SpellsIn
  <1> QED  BY <1>2, <1>3, <1>4, <1>5, <1>6, Tokens3

\* A call that closes a container.
LEMMA OutSpells ==
    ASSUME NEW m \in Machines, Nested(m), NEW e, NEW r, MovesOut(e, m, r), ~r.lost,
           NEW ts \in Seq(Nat), NEW own, Spells(Path(m), own, ts, FALSE)
    PROVE  /\ Accepted(m.cur, Token(e)) /\ Token(e) = UJO_TERMINATOR
           /\ \E new : Spells(Path(r), new, Append(ts, UJO_TERMINATOR), FALSE)
  <1> DEFINE w == ujo_state_prev(m)
             p == Path(m)
             h == Len(p)
             us == Append(ts, UJO_TERMINATOR)
  <1>1. /\ m.items # <<>>
        /\ \/ m.cur.state \in {"LIST", "DICT_KEY"}
           \/ m.cur.state = "TABLE_VALUES" /\ m.cur.column = 0
    BY DEF MovesOut
  <1>2. Token(e) = UJO_TERMINATOR
    BY DEF MovesOut, Terminator, Token, Element
  <1>3. Accepted(m.cur, UJO_TERMINATOR)
    BY <1>1, Tokens3, AcceptedIs
  <1>4. PICK grow \in BOOLEAN : r = ujo_state_switch("CONTAINER_CLOSED", w, grow)
    BY DEF MovesOut
  <1>5. /\ p \in Seq(ujo_state) /\ h \in Nat /\ h >= 2 /\ p[h] = m.cur /\ Stacked(p)
    BY <1>1, PathTop DEF Nested
  <1>6. /\ w \in Machines /\ Path(w) \in Seq(ujo_state) /\ Len(Path(w)) = h - 1
        /\ \A i \in 2 .. h - 1 : Path(w)[i] = p[i]
        /\ Len(Path(w)) = 1 => Path(w)[1].state = "CLOSED"
    BY <1>1, PathPrev
  <1>7. Nested(w)
    BY <1>1, PrevNests
  <1> HIDE DEF w, p, h, us
  <1>8. Spells(Path(w), own, us, TRUE)
    BY <1>1, <1>5, <1>6, SpellsOut DEF p, h, us
  <1>9. w.cur.state \notin {"DICT_KEY", "TABLE_COLUMNS", "NULL"}
    <2>1. Path(w)[h - 1] = w.cur
      BY <1>6, PathTop
    <2>2. CASE h = 2
      <3>1. Len(Path(w)) = 1
        BY <1>5, <1>6, <2>2
      <3>2. h - 1 = 1
        BY <1>5, <2>2
      <3> QED  BY <1>6, <2>1, <3>1, <3>2
    <2>3. CASE h # 2
      <3>1. h - 1 \in 2 .. h - 1 /\ h - 1 \in 2 .. h /\ h \in 2 .. h
        BY <1>5, <2>3
      <3>2. w.cur = p[h - 1]
        BY <1>6, <2>1, <3>1
      <3>3. p[h - 1].state # "TABLE_COLUMNS" /\ p[h - 1].state \in ContainerStates
        BY <1>5, <3>1 DEF Stacked, h
      <3>4. p[h - 1].state # "DICT_KEY"
        <4>1. p[h].state # "DICT_VALUE"
          BY <1>1, <1>5
        <4> QED  BY <1>5, <3>1, <4>1 DEF Stacked, h
      <3> QED  BY <3>2, <3>3, <3>4 DEF ContainerStates
    <2> QED  BY <2>2, <2>3
  <1>10. us \in Seq(Nat)
    BY Tokens3 DEF us
  <1>11. \E new : Spells(Path(r), new, us, FALSE)
    BY <1>4, <1>6, <1>7, <1>8, <1>9, <1>10, SpellsSwitch
  <1> QED  BY <1>2, <1>3, <1>11 DEF us

\* The call that ends the columns of a table.
LEMMA RowsSpell ==
    ASSUME NEW m \in Machines, Nested(m), NEW e, NEW r, MovesToRows(e, m, r),
           NEW ts \in Seq(Nat), NEW own, Spells(Path(m), own, ts, FALSE)
    PROVE  /\ Accepted(m.cur, Token(e)) /\ Token(e) = UJO_TERMINATOR
           /\ Spells(Path(r), own, Append(ts, UJO_TERMINATOR), FALSE)
  <1> DEFINE s == [m.cur EXCEPT !.state = "TABLE_VALUES"]
             p == Path(m)
  <1>1. m.cur.state = "TABLE_COLUMNS" /\ m.cur.columns > 0
    BY DEF MovesToRows
  <1>2. Token(e) = UJO_TERMINATOR
    BY DEF MovesToRows, Terminator, Token, Element
  <1>3. Accepted(m.cur, UJO_TERMINATOR)
    BY <1>1, AcceptedIs
  <1>4. m.cur \in ujo_state /\ s \in ujo_state
    BY DEF Machines, ujo_state, ujoDocState
  <1>5. r = [m EXCEPT !.cur = s]
    BY DEF MovesToRows, Machines
  <1>6. /\ p \in Seq(ujo_state) /\ Len(p) >= 2 /\ p[Len(p)] = m.cur /\ Stacked(p) /\ Counted(p)
    <2>1. m.items # <<>>
      BY <1>1, NestedHasParent
    <2> QED  BY <2>1, PathTop DEF Nested
  <1>7. /\ Path(r) \in Seq(ujo_state) /\ Len(Path(r)) = Len(p) /\ Path(r)[Len(p)] = s
        /\ \A i \in 1 .. Len(p) - 1 : Path(r)[i] = p[i]
    BY <1>4, <1>5, PathCur
  <1> HIDE DEF p
  <1>8. Spells(Path(r), own, Append(ts, UJO_TERMINATOR), FALSE)
    BY <1>1, <1>6, <1>7, SpellsRows DEF p
  <1> QED  BY <1>2, <1>3, <1>8

\* A call that accepts an element keeps the document grammatical.
LEMMA MovesGrammared ==
    ASSUME NEW m \in Machines, Nested(m), NEW e, NEW ws, Coded(e, ws),
           NEW r, Moves(e, m, r), ~r.lost, NEW ts \in Seq(Nat), Grammared(m, ts)
    PROVE  Grammared(r, Append(ts, Token(e)))
  <1>1. PICK own : Spells(Path(m), own, ts, FALSE)
    BY DEF Grammared
  <1>2. /\ Accepted(m.cur, Token(e)) /\ Token(e) \in Nat
        /\ \E new : Spells(Path(r), new, Append(ts, Token(e)), FALSE)
    <2>1. CASE MovesValue(e, m, r)
      <3>1. /\ Token(e) \in AtomicTypes
            /\ Event(e) = "STRING_FOUND" => Token(e) = UJO_TYPE_STRING
        BY <2>1, ValueToken DEF MovesValue
      <3> QED  BY <1>1, <2>1, <3>1, ValueSpells, Tokens3
    <2>2. CASE MovesIn(e, m, r)
      BY <1>1, <2>2, InSpells
    <2>3. CASE MovesOut(e, m, r)
      BY <1>1, <2>3, OutSpells, Tokens3
    <2>4. CASE MovesToRows(e, m, r)
      BY <1>1, <2>4, RowsSpell, Tokens3
    <2> QED  BY <2>1, <2>2, <2>3, <2>4 DEF Moves
  <1>3. Follows(ts, Token(e))
    BY <1>1, <1>2, FollowsIs
  <1>4. WellFormedPrefix(Append(ts, Token(e)))
    BY <1>2, <1>3, PrefixAppend DEF Grammared
  <1> QED  BY <1>2, <1>4 DEF Grammared

-----------------------------------------------------------------------------
(* The writer.                                                              *)

TokensOf(es) == [i \in 1 .. Len(es) |-> Token(es[i])]

\* While no call has reported a failed put and no push was dropped, the machine
\* knows of every accepted element, and they are the start of a document.
GInv == IInv /\ (~reported /\ ~doc.lost => Grammared(doc, TokensOf(acked)))

\* The tokens of a list of elements, and of a longer one.
LEMMA TokensAre ==
    ASSUME NEW es \in Seq(Elements)
    PROVE  /\ TokensOf(es) \in Seq(Nat)
           /\ \A e \in Elements : TokensOf(Append(es, e)) = Append(TokensOf(es), Token(e))
  <1>1. \A e \in Elements : Token(e) \in Nat
    <2>1. ASSUME NEW e \in Elements
          PROVE  e.type \in Nat
      <3>1. e.type \in 0 .. 255
        BY Zenon DEF Elements
      <3>2. \A n : n \in 0 .. 255 => n \in Nat
        OBVIOUS
      <3> QED  BY <3>1, <3>2, Zenon
    <2>2. UJO_TYPE_NONE \in Nat
      BY DEF UJO_TYPE_NONE
    <2> QED  BY <2>1, <2>2 DEF Token
  <1>2. Len(es) \in Nat /\ \A i \in 1 .. Len(es) : es[i] \in Elements
    OBVIOUS
  <1>3. TokensOf(es) \in [1 .. Len(es) -> Nat]
    BY <1>1, <1>2 DEF TokensOf
  <1>4. TokensOf(es) \in Seq(Nat) /\ Len(TokensOf(es)) = Len(es)
    BY <1>2, <1>3
  <1>5. ASSUME NEW e \in Elements
        PROVE  TokensOf(Append(es, e)) = Append(TokensOf(es), Token(e))
    <2> DEFINE fs == Append(es, e)
               a == TokensOf(fs)
               b == Append(TokensOf(es), Token(e))
    <2>1. /\ fs \in Seq(Elements) /\ Len(fs) = Len(es) + 1 /\ fs[Len(es) + 1] = e
          /\ \A i \in 1 .. Len(es) : fs[i] = es[i]
      OBVIOUS
    <2> HIDE DEF fs
    <2>2. a = [i \in 1 .. Len(es) + 1 |-> Token(fs[i])]
      BY <2>1 DEF TokensOf
    <2>3. b \in Seq(Nat) /\ Len(b) = Len(es) + 1
      BY <1>1, <1>4
    <2>4. \A i \in 1 .. Len(es) : b[i] = Token(es[i])
      BY <1>4 DEF TokensOf
    <2>5. b[Len(es) + 1] = Token(e)
      BY <1>1, <1>4
    <2> HIDE DEF b
    <2>6. \A i \in 1 .. Len(es) + 1 : b[i] = Token(fs[i])
      <3>1. \A i \in 1 .. Len(es) + 1 : i \in 1 .. Len(es) \/ i = Len(es) + 1
        BY <1>2
      <3> QED  BY <2>1, <2>4, <2>5, <3>1
    <2>7. b = [i \in 1 .. Len(es) + 1 |-> b[i]]
      BY <2>3
    <2>8. a = b
      BY <2>2, <2>6, <2>7
    <2> QED  BY <2>8 DEF fs, b
  <1> QED  BY <1>4, <1>5

\* A new writer has accepted nothing.
LEMMA InitGrammared ==
    ASSUME WInit
    PROVE  GInv
  <1> DEFINE p == Path(doc)
             own == <<>>
  <1>1. IInv
    BY InitKeeps
  <1>2. acked = <<>> /\ doc = NewMachine
    BY DEF WInit
  <1>3. TokensOf(acked) = <<>>
    BY <1>2 DEF TokensOf
  <1>4. doc \in Machines
    BY <1>1 DEF IInv, TypeOK
  <1>5. Len(p) = 1 /\ p[1].state = "ROOT"
    <2>1. doc.items = <<>> /\ doc.cur = NewState("ROOT")
      BY <1>2 DEF NewMachine
    <2>2. Path(doc) = Append(<<>>, NewState("ROOT"))
      BY <2>1 DEF Path
    <2>3. NewState("ROOT").state = "ROOT"
      BY DEF NewState
    <2> QED  BY <2>2, <2>3
  <1>6. Climbs(Levels(<<>>), <<>>)
    <2>1. <<>> \in Seq(Nat) /\ 0 \in Nat
      OBVIOUS
    <2> QED  BY <2>1, LevelsGrow
  <1>7. Level(<<>>) = 0 /\ Enclosing(<<>>) = {}
    <2>1. Levels(<<>>)[1] = 0 /\ Len(<<>>) + 1 = 1
      BY <1>6 DEF Climbs
    <2>2. Around(<<>>, Levels(<<>>), 1) = {}
      BY DEF Around
    <2> QED  BY <2>1, <2>2 DEF Level, Enclosing
  <1> HIDE DEF p, own
  <1>8. Spells(p, own, <<>>, FALSE)
    <2>1. /\ \A i \in 2 .. 1 : FALSE
          /\ \A i \in 3 .. 1 : FALSE
          /\ \A i \in 2 .. 1 - 1 : FALSE
      OBVIOUS
    <2>2. Owned(p, own, <<>>)
      BY <1>5, <1>7, <2>1 DEF Owned, Linked
    <2>3. Rooted(p, own, <<>>) /\ Ranked(p, own, <<>>) /\ Tallied(p, own, <<>>, FALSE)
      BY <1>5, <1>7, <2>1 DEF Rooted, Ranked, Tallied
    <2> QED  BY <2>2, <2>3 DEF Spells
  <1>9. WellFormedPrefix(<<>>)
    BY DEF WellFormedPrefix
  <1> QED  BY <1>1, <1>3, <1>8, <1>9 DEF GInv, Grammared, p

\* Every call keeps the document grammatical.
LEMMA CalledGrammared ==
    ASSUME GInv, Called, ~reported', ~doc'.lost
    PROVE  Grammared(doc', TokensOf(acked'))
  <1>1. doc \in Machines /\ acked \in Seq(Elements) /\ Kept(doc) /\ reported \in BOOLEAN
    BY DEF GInv, IInv, TypeOK
  <1>2. ASSUME NEW e, NEW ws, Coded(e, ws), Moves(e, doc, doc'), acked' = Append(acked, e),
               UNCHANGED reported
        PROVE  Grammared(doc', TokensOf(acked'))
    <2>1. ~doc.lost /\ ~reported
      BY <1>1, <1>2, MovesLost
    <2>2. Nested(doc) /\ Grammared(doc, TokensOf(acked))
      BY <1>1, <2>1 DEF Kept, GInv
    <2>3. e \in Elements
      BY <1>2, CodedFits DEF Fits
    <2>4. TokensOf(acked) \in Seq(Nat) /\ TokensOf(acked') = Append(TokensOf(acked), Token(e))
      BY <1>1, <1>2, <2>3, TokensAre
    <2> QED  BY <1>1, <1>2, <2>2, <2>4, MovesGrammared
  <1>3. ASSUME NEW e, NEW ws, Accepts(e, ws)
        PROVE  Grammared(doc', TokensOf(acked'))
    BY <1>2, <1>3 DEF Accepts
  <1>4. CASE Reports
    BY <1>4 DEF Reports
  <1>5. CASE Rests
    <2>1. CASE doc' = doc
      BY <1>5, <2>1 DEF Rests, GInv
    <2>2. CASE doc.items = <<>> /\ doc.cur.state \in ContainerStates /\ doc' = ujo_state_prev(doc)
      <3>1. ~doc.lost
        BY <1>1, <2>2, PrevIsMachine
      <3>2. Nested(doc) /\ doc.cur.state \notin {"ROOT", "CLOSED"}
        BY <1>1, <2>2, <3>1 DEF Kept, ContainerStates
      <3> QED  BY <1>1, <2>2, <3>2, NestedHasParent
    <2> QED  BY <1>5, <2>1, <2>2 DEF Rests
  <1>6. CASE Overlooks
    BY <1>2, <1>6, TerminatorCoded DEF Overlooks
  <1> QED  BY <1>3, <1>4, <1>5, <1>6 DEF Called

\* What the machine accepts, by the functions the calls ask.
LEMMA AcceptedGuards ==
    ASSUME NEW s, s.state \in {"ROOT", "CLOSED"} \cup ContainerStates
    PROVE  /\ ujo_state_allow_atomic(s.state) <=> Accepted(s, UJO_TYPE_INT8)
           /\ ujo_state_allow_string(s.state) <=> Accepted(s, UJO_TYPE_STRING)
           /\ ujo_state_allow_container(s.state) <=> Accepted(s, UJO_TYPE_LIST)
           /\ Accepted(s, UJO_TERMINATOR) <=>
                 \/ s.state \in {"LIST", "DICT_KEY"}
                 \/ s.state = "TABLE_COLUMNS" /\ s.columns > 0
                 \/ s.state = "TABLE_VALUES" /\ s.column = 0
  <1>1. UJO_TYPE_LIST \in ContainerTypes /\ UJO_TYPE_LIST # UJO_TERMINATOR
        /\ UJO_TYPE_LIST # UJO_TYPE_STRING
    BY Tokens3
  <1>2. s.state \in {"ROOT", "CLOSED", "LIST", "DICT_KEY", "DICT_VALUE", "TABLE_COLUMNS",
                     "TABLE_VALUES"}
    BY DEF ContainerStates
  <1> USE DEF ujo_state_allow_atomic, ujo_state_allow_string, ujo_state_allow_container
  <1>3. ujo_state_allow_atomic(s.state) <=> Accepted(s, UJO_TYPE_INT8)
    BY <1>2, Tokens3, AcceptedIs
  <1>4. ujo_state_allow_string(s.state) <=> Accepted(s, UJO_TYPE_STRING)
    BY <1>2, Tokens3, AcceptedIs
  <1>5. ujo_state_allow_container(s.state) <=> Accepted(s, UJO_TYPE_LIST)
    BY <1>1, <1>2, AcceptedIs
  <1>6. Accepted(s, UJO_TERMINATOR) <=>
                 \/ s.state \in {"LIST", "DICT_KEY"}
                 \/ s.state = "TABLE_COLUMNS" /\ s.columns > 0
                 \/ s.state = "TABLE_VALUES" /\ s.column = 0
    BY <1>2, Tokens3, AcceptedIs
  <1> QED  BY <1>3, <1>4, <1>5, <1>6

\* A machine that knows of all elements says what may follow them.
LEMMA GInvGrammatical ==
    ASSUME GInv
    PROVE  Grammatical
  <1> SUFFICES ASSUME ~reported, ~doc.lost
               PROVE  /\ WellFormedPrefix(Tokens)
                      /\ doc.cur.state = "CLOSED" <=> Complete(Tokens)
                      /\ ujo_state_allow_atomic(doc.cur.state) <=> Follows(Tokens, UJO_TYPE_INT8)
                      /\ ujo_state_allow_string(doc.cur.state) <=> Follows(Tokens, UJO_TYPE_STRING)
                      /\ ujo_state_allow_container(doc.cur.state) <=> Follows(Tokens, UJO_TYPE_LIST)
                      /\ Follows(Tokens, UJO_TERMINATOR) <=>
                            \/ doc.cur.state \in {"LIST", "DICT_KEY"}
                            \/ doc.cur.state = "TABLE_COLUMNS" /\ doc.cur.columns > 0
                            \/ doc.cur.state = "TABLE_VALUES" /\ doc.cur.column = 0
    BY DEF Grammatical
  <1>1. doc \in Machines /\ acked \in Seq(Elements) /\ Nested(doc)
    BY DEF GInv, IInv, TypeOK, Kept
  <1>2. Tokens = TokensOf(acked) /\ Tokens \in Seq(Nat)
    <2>1. Tokens = TokensOf(acked)
      BY DEF Tokens, TokensOf, Token
    <2> QED  BY <1>1, <2>1, TokensAre
  <1>3. WellFormedPrefix(Tokens)
    BY <1>2 DEF GInv, Grammared
  <1>4. PICK own : Spells(Path(doc), own, Tokens, FALSE)
    BY <1>2 DEF GInv, Grammared
  <1>5. \A t \in Nat : Follows(Tokens, t) <=> Accepted(doc.cur, t)
    BY <1>1, <1>2, <1>4, FollowsIs
  <1>6. Complete(Tokens) <=> doc.cur.state = "CLOSED"
    BY <1>1, <1>2, <1>3, <1>4, CompleteIs
  <1>7. doc.cur.state \in {"ROOT", "CLOSED"} \cup ContainerStates
    BY <1>1, NestedStates
  <1>8. UJO_TYPE_INT8 \in Nat /\ UJO_TYPE_STRING \in Nat /\ UJO_TYPE_LIST \in Nat
        /\ UJO_TERMINATOR \in Nat
    BY DEF UJO_TYPE_INT8, UJO_TYPE_STRING, UJO_TYPE_LIST, UJO_TERMINATOR
  <1>9. /\ Follows(Tokens, UJO_TYPE_INT8) <=> Accepted(doc.cur, UJO_TYPE_INT8)
        /\ Follows(Tokens, UJO_TYPE_STRING) <=> Accepted(doc.cur, UJO_TYPE_STRING)
        /\ Follows(Tokens, UJO_TYPE_LIST) <=> Accepted(doc.cur, UJO_TYPE_LIST)
        /\ Follows(Tokens, UJO_TERMINATOR) <=> Accepted(doc.cur, UJO_TERMINATOR)
    BY <1>5, <1>8
  <1> QED  BY <1>3, <1>6, <1>7, <1>9, AcceptedGuards

\* Documents of any depth and any width, after any sequence of accepted and
\* rejected calls: what the writer accepted can be completed to a document of the
\* grammar, it is closed exactly when it is complete, and the writer accepts a
\* value, a string, a container or a close exactly where the grammar has one
\* (ujo_state.c and the guards of the functions of ujo_writer.c).
THEOREM DocumentsAreGrammatical == WSpec => []Grammatical
  <1>1. WInit => GInv
    BY InitGrammared
  <1>2. ASSUME GInv, [WNext]_wvars
        PROVE  GInv'
    <2>1. IInv'
      BY <1>2, NextKeeps DEF GInv
    <2>2. CASE WNext
      <3>1. Called
        BY <2>2, NextCalled
      <3>2. ~reported' /\ ~doc'.lost => Grammared(doc', TokensOf(acked'))
        BY <1>2, <3>1, CalledGrammared
      <3> QED  BY <2>1, <3>2 DEF GInv
    <2>3. CASE UNCHANGED wvars
      BY <1>2, <2>1, <2>3 DEF GInv, wvars
    <2> QED  BY <1>2, <2>2, <2>3
  <1>3. GInv => Grammatical
    BY GInvGrammatical
  <1> QED  BY <1>1, <1>2, <1>3, PTL DEF WSpec
=============================================================================
