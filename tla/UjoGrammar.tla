----------------------------- MODULE UjoGrammar -----------------------------
(***************************************************************************)
(* The structure of a UJO document, stated on the sequence of its elements *)
(* without a stack: depths are counts of openings and terminators.  Taken  *)
(* from what the documentation of the writer's functions says of lists,    *)
(* maps and tables; the reference the state machine is checked against.    *)
(***************************************************************************)
EXTENDS UjoConstants, Integers, SequencesExt

\* Terminators owed after a type: one by a list or a map, two by a table (of
\* its columns and of its body); a terminator pays one.
Owed(t) ==
    CASE t \in {UJO_TYPE_LIST, UJO_TYPE_MAP} -> 1
      [] t = UJO_TYPE_TABLE -> 2
      [] t = UJO_TERMINATOR -> -1
      [] OTHER -> 0

\* The terminators owed before each position, and after the last.
Levels(ts) ==
    LET upto[n \in 0 .. Len(ts)] ==
            IF n = 0 THEN <<0>>
            ELSE LET ls == upto[n - 1] IN Append(ls, ls[n] + Owed(ts[n]))
    IN  upto[Len(ts)]

\* The containers around position i, given the levels lv: the ones whose
\* terminators are owed all the way; the parent is the innermost.
Around(ts, lv, i) ==
    { j \in 1 .. i - 1 : /\ ts[j] \in ContainerTypes
                         /\ \A m \in j + 1 .. i : lv[m] > lv[j] }

Parent(ts, lv, i) == Max(Around(ts, lv, i))

\* The children before i of the container at p.  Of a table's children the ones
\* at the deeper level are columns, the others cells.
Children(ts, lv, p, i) ==
    { k \in p + 1 .. i - 1 : ts[k] # UJO_TERMINATOR /\ Parent(ts, lv, k) = p }

Columns(ts, lv, p, i) == { k \in Children(ts, lv, p, i) : lv[k] = lv[p] + 2 }

\* Whether the element at position i may stand there.
MayStand(ts, lv, i) ==
    LET p == Parent(ts, lv, i)
        children == Children(ts, lv, p, i)
        columns == Columns(ts, lv, p, i)
        cells == children \ columns
        odd == Cardinality(children) % 2 = 1
    IN  /\ Around(ts, lv, i) # {}
        /\ CASE ts[p] = UJO_TYPE_LIST -> TRUE
             [] ts[p] = UJO_TYPE_MAP ->    \* a container is never a key
                   /\ ts[i] \in ContainerTypes => odd
                   /\ ts[i] = UJO_TERMINATOR => ~odd
             [] ts[p] = UJO_TYPE_TABLE /\ lv[i] = lv[p] + 2 ->
                   \/ ts[i] = UJO_TYPE_STRING
                   \/ ts[i] = UJO_TERMINATOR /\ columns # {}
             [] OTHER ->
                   ts[i] = UJO_TERMINATOR =>
                       Cardinality(cells) % Cardinality(columns) = 0

\* ts can be continued to a document: a root container with all else in it.
WellFormedPrefix(ts) ==
    LET lv == Levels(ts)
    IN  \A i \in 1 .. Len(ts) :
            IF i = 1 THEN ts[1] \in ContainerTypes ELSE MayStand(ts, lv, i)

\* The well-formed ts can be continued with t.
Follows(ts, t) ==
    IF ts = <<>> THEN t \in ContainerTypes
    ELSE LET us == Append(ts, t) IN MayStand(us, Levels(us), Len(us))

Complete(ts) == Len(ts) > 0 /\ WellFormedPrefix(ts) /\ Levels(ts)[Len(ts) + 1] = 0

\* The number of octets of an element with n units of string or binary data,
\* as the tests of the repository state them (test02.c, test03.c, test08.c).
FixedSize(t) ==
    CASE t \in {UJO_TERMINATOR, UJO_TYPE_NONE} \cup ContainerTypes -> 1
      [] t \in {UJO_TYPE_INT8, UJO_TYPE_UINT8, UJO_TYPE_BOOL} -> 2
      [] t \in {UJO_TYPE_INT16, UJO_TYPE_UINT16, UJO_TYPE_FLOAT16} -> 3
      [] t = UJO_TYPE_TIME -> 4
      [] t \in {UJO_TYPE_INT32, UJO_TYPE_UINT32, UJO_TYPE_FLOAT32, UJO_TYPE_DATE} -> 5
      [] t \in {UJO_TYPE_STRING, UJO_TYPE_BIN} -> 6
      [] t = UJO_TYPE_TIMESTAMP -> 10
      [] OTHER -> 9

UnitSize(sub) ==
    CASE sub = UJO_SUB_STRING_U16 -> 2 [] sub = UJO_SUB_STRING_U32 -> 4 [] OTHER -> 1
=============================================================================
