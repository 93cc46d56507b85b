--------------------------- MODULE UjoStateProofs ---------------------------
(***************************************************************************)
(* What the functions of ujo_state.c keep, for machines of any depth and   *)
(* tables of any width: lemmas for the proofs about the objects that own a *)
(* machine.                                                                *)
(***************************************************************************)
EXTENDS UjoState, TLAPS

\* What a machine must satisfy unless a push was dropped.
Kept(m) == ~m.lost => Nested(m)

\* The path of a machine, position by position.
LEMMA PathIs ==
    ASSUME NEW m \in Machines
    PROVE  /\ Path(m) \in Seq(ujo_state)
           /\ Len(Path(m)) = Len(m.items) + 1
           /\ Path(m)[Len(m.items) + 1] = m.cur
           /\ \A i \in 1 .. Len(m.items) : Path(m)[i] = m.items[i]
  BY DEF Path, Machines

\* Every struct on the path is a struct ujo_state.
LEMMA ItemsAre ==
    ASSUME NEW m \in Machines
    PROVE  /\ Len(m.items) \in Nat
           /\ \A i \in 1 .. Len(m.items) : m.items[i] \in ujo_state
  BY DEF Machines

\* ujo_stack_push, in the three ways it ends, yields a machine.
LEMMA PushIsMachine ==
    ASSUME NEW m \in Machines, NEW s \in ujo_state, NEW grow \in BOOLEAN
    PROVE  /\ ujo_stack_push(m, s, grow) \in Machines
           /\ \/ ujo_stack_push(m, s, grow).lost
              \/ /\ ujo_stack_push(m, s, grow).items = Append(m.items, s)
                 /\ ujo_stack_push(m, s, grow).lost = m.lost
  <1>1. CASE m.size # Len(m.items)
    <2>1. ujo_stack_push(m, s, grow) = [m EXCEPT !.items = Append(@, s)]
      BY <1>1 DEF ujo_stack_push
    <2> QED  BY <2>1, SMTT(60) DEF Machines
  <1>2. CASE m.size = Len(m.items) /\ grow
    <2> DEFINE its == Append(m.items, s)
               sz  == m.size + 1
    <2>1. ujo_stack_push(m, s, grow) = [m EXCEPT !.items = its, !.size = sz]
      BY <1>2 DEF ujo_stack_push
    <2>2. its \in Seq(ujo_state) /\ sz \in Nat /\ its = Append(m.items, s)
      BY DEF Machines
    <2> HIDE DEF its, sz
    <2> QED  BY <2>1, <2>2 DEF Machines
  <1>3. CASE m.size = Len(m.items) /\ ~grow
    <2>1. ujo_stack_push(m, s, grow) = [m EXCEPT !.lost = TRUE]
      BY <1>3 DEF ujo_stack_push
    <2> QED  BY <2>1 DEF Machines
  <1> QED  BY <1>1, <1>2, <1>3

\* Entering a state yields a machine whose path, if the push was not dropped,
\* is the old one with a fresh struct on top.
LEMMA NextIsMachine ==
    ASSUME NEW m \in Machines, NEW s \in ujoDocState, NEW grow \in BOOLEAN
    PROVE  /\ ujo_state_next(s, m, grow) \in Machines
           /\ ujo_state_next(s, m, grow).cur = NewState(s)
           /\ \/ ujo_state_next(s, m, grow).lost
              \/ /\ ujo_state_next(s, m, grow).items = Append(m.items, m.cur)
                 /\ ujo_state_next(s, m, grow).lost = m.lost
  <1> DEFINE p == ujo_stack_push(m, m.cur, grow)
  <1>1. m.cur \in ujo_state /\ NewState(s) \in ujo_state
    BY DEF Machines, ujo_state, NewState
  <1>2. /\ p \in Machines
        /\ p.lost \/ (p.items = Append(m.items, m.cur) /\ p.lost = m.lost)
    BY <1>1, PushIsMachine
  <1>3. ujo_state_next(s, m, grow) = [p EXCEPT !.cur = NewState(s)]
    BY DEF ujo_state_next
  <1> HIDE DEF p
  <1> QED  BY <1>1, <1>2, <1>3 DEF Machines

\* Leaving a state with something below it yields a machine: the path without
\* its last struct, the root marked as closed when it is reached.
LEMMA PrevIsMachine ==
    ASSUME NEW m \in Machines
    PROVE  /\ ujo_state_prev(m) \in Machines
           /\ ujo_state_prev(m).lost = m.lost
           /\ m.items # <<>> =>
                /\ ujo_state_prev(m).items = SubSeq(m.items, 1, Len(m.items) - 1)
                /\ ujo_state_prev(m).cur =
                      IF m.items[Len(m.items)].state = "ROOT"
                      THEN [m.items[Len(m.items)] EXCEPT !.state = "CLOSED"]
                      ELSE m.items[Len(m.items)]
  <1>1. CASE m.items = <<>>
    BY <1>1 DEF ujo_state_prev, Machines, NullState, NewState, ujo_state
  <1>2. CASE m.items # <<>>
    <2> DEFINE top == m.items[Len(m.items)]
               new == IF top.state = "ROOT" THEN [top EXCEPT !.state = "CLOSED"] ELSE top
               rest == SubSeq(m.items, 1, Len(m.items) - 1)
    <2>1. m.items \in Seq(ujo_state) /\ Len(m.items) \in Nat \ {0}
      BY <1>2 DEF Machines
    <2>2. top \in ujo_state
      BY <2>1
    <2>3. new \in ujo_state
      BY <2>2 DEF ujo_state, ujoDocState
    <2>4. rest \in Seq(ujo_state)
      BY <2>1
    <2>5. ujo_state_prev(m) = [m EXCEPT !.items = rest, !.cur = new]
      BY <1>2 DEF ujo_state_prev
    <2>6. new = IF m.items[Len(m.items)].state = "ROOT"
                THEN [m.items[Len(m.items)] EXCEPT !.state = "CLOSED"]
                ELSE m.items[Len(m.items)]
      OBVIOUS
    <2> HIDE DEF new, rest
    <2>7. /\ ujo_state_prev(m) \in Machines
          /\ ujo_state_prev(m).lost = m.lost
          /\ ujo_state_prev(m).items = rest
          /\ ujo_state_prev(m).cur = new
      BY <2>3, <2>4, <2>5 DEF Machines
    <2> QED  BY <2>6, <2>7 DEF rest
  <1> QED  BY <1>1, <1>2

-----------------------------------------------------------------------------
\* Entering a state that fits on the struct in use keeps the nesting
\* (ujo_state_next, as the open functions and a map's key call it).
LEMMA NextNests ==
    ASSUME NEW m \in Machines, NEW s \in ujoDocState, NEW grow \in BOOLEAN,
           Kept(m),
           s \in {"LIST", "DICT_KEY", "TABLE_COLUMNS", "DICT_VALUE"},
           s = "DICT_VALUE" <=> m.cur.state = "DICT_KEY",
           m.cur.state \notin {"CLOSED", "TABLE_COLUMNS"}
    PROVE  Kept(ujo_state_next(s, m, grow))
  <1> DEFINE r == ujo_state_next(s, m, grow)
             n == Len(m.items)
  <1>1. /\ r \in Machines /\ r.cur = NewState(s)
        /\ r.lost \/ (r.items = Append(m.items, m.cur) /\ r.lost = m.lost)
    BY NextIsMachine
  <1> HIDE DEF r
  <1> SUFFICES ASSUME ~r.lost PROVE Nested(r)
    BY DEF Kept, r
  <1>2. Nested(m)
    BY <1>1 DEF Kept, Machines
  <1>3. r.items = Append(m.items, m.cur)
    BY <1>1
  <1>4. /\ n \in Nat /\ Len(r.items) = n + 1
        /\ \A i \in 1 .. n : r.items[i] = m.items[i]
        /\ r.items[n + 1] = m.cur
    BY <1>3 DEF Machines
  <1>5. /\ Len(Path(m)) = n + 1 /\ Path(m)[n + 1] = m.cur
        /\ \A i \in 1 .. n : Path(m)[i] = m.items[i]
    BY PathIs
  <1>6. /\ Len(Path(r)) = n + 2 /\ Path(r)[n + 2] = NewState(s)
        /\ \A i \in 1 .. n + 1 : Path(r)[i] = Path(m)[i]
    <2>1. /\ Len(Path(r)) = Len(r.items) + 1 /\ Path(r)[Len(r.items) + 1] = r.cur
          /\ \A i \in 1 .. Len(r.items) : Path(r)[i] = r.items[i]
      BY <1>1, PathIs
    <2> HIDE DEF n
    <2> QED  BY <1>1, <1>4, <1>5, <2>1
  <1>7. NewState(s).state = s /\ NewState(s).column = 0
    BY DEF NewState
  <1> HIDE DEF n
  <1>8. Stacked(Path(r))
    <2>1. Stacked(Path(m))
      BY <1>2 DEF Nested
    <2>2. Path(r)[1] = Path(m)[1] /\ Path(m)[1].state \in {"ROOT", "CLOSED"}
      BY <1>4, <1>6, <2>1 DEF Stacked
    <2>3. Path(m)[1].state # "CLOSED"
      BY <1>4, <1>5, <2>1 DEF Stacked
    <2>4. ASSUME NEW i \in 2 .. n + 1
          PROVE  /\ Path(r)[i].state \in ContainerStates
                 /\ Path(r)[i].state = "DICT_VALUE" <=> Path(r)[i-1].state = "DICT_KEY"
                 /\ Path(r)[i-1].state # "TABLE_COLUMNS"
      BY <1>4, <1>5, <1>6, <2>1 DEF Stacked
    <2>5. /\ Path(r)[n + 2].state \in ContainerStates
          /\ Path(r)[n + 2].state = "DICT_VALUE" <=> m.cur.state = "DICT_KEY"
          /\ Path(r)[n + 1] = m.cur /\ m.cur.state # "TABLE_COLUMNS"
      BY <1>4, <1>5, <1>6, <1>7 DEF ContainerStates
    <2>6. \A i \in 2 .. n + 2 : i \in 2 .. n + 1 \/ (i = n + 2 /\ i - 1 = n + 1)
      BY <1>4
    <2> QED  BY <1>6, <2>2, <2>3, <2>4, <2>5, <2>6 DEF Stacked
  <1>9. Counted(Path(r))
    BY <1>2, <1>4, <1>5, <1>6, <1>7 DEF Nested, Counted
  <1> QED  BY <1>8, <1>9 DEF Nested

\* A nested machine that is in a container has the container's parent below.
LEMMA NestedHasParent ==
    ASSUME NEW m \in Machines, Nested(m), m.cur.state \notin {"ROOT", "CLOSED"}
    PROVE  m.items # <<>>
  <1> SUFFICES ASSUME m.items = <<>> PROVE FALSE
    OBVIOUS
  <1>1. Len(m.items) = 0
    OBVIOUS
  <1>2. Path(m)[1] = m.cur
    BY <1>1, PathIs
  <1> QED  BY <1>2 DEF Nested, Stacked

\* Leaving a container keeps the nesting (ujo_state_prev).
LEMMA PrevNests ==
    ASSUME NEW m \in Machines, Nested(m), m.items # <<>>
    PROVE  Nested(ujo_state_prev(m))
  <1> DEFINE r   == ujo_state_prev(m)
             n   == Len(m.items)
             top == m.items[Len(m.items)]
  <1>1. /\ r \in Machines
        /\ r.items = SubSeq(m.items, 1, n - 1)
        /\ r.cur = IF top.state = "ROOT" THEN [top EXCEPT !.state = "CLOSED"] ELSE top
    BY PrevIsMachine
  <1>2. n \in Nat \ {0} /\ m.items \in Seq(ujo_state) /\ top \in ujo_state
    BY DEF Machines
  <1>3. /\ Len(r.items) = n - 1
        /\ \A i \in 1 .. n - 1 : r.items[i] = m.items[i]
    BY <1>1, <1>2
  <1>4. /\ Len(Path(m)) = n + 1
        /\ \A i \in 1 .. n : Path(m)[i] = m.items[i]
    BY PathIs
  <1>5. /\ Len(Path(r)) = n /\ Path(r)[n] = r.cur
        /\ \A i \in 1 .. n - 1 : Path(r)[i] = Path(m)[i]
    <2>1. /\ Len(Path(r)) = Len(r.items) + 1 /\ Path(r)[Len(r.items) + 1] = r.cur
          /\ \A i \in 1 .. Len(r.items) : Path(r)[i] = r.items[i]
      BY <1>1, PathIs
    <2> QED  BY <1>2, <1>3, <1>4, <2>1
  <1>6. Path(m)[n] = top
    BY <1>2, <1>4
  <1>7. /\ top.state = "ROOT" => r.cur.state = "CLOSED"
        /\ top.state # "ROOT" => r.cur = top
    BY <1>1, <1>2 DEF ujo_state
  <1> HIDE DEF r, n, top
  <1>8. top.state # "CLOSED" /\ (top.state = "ROOT" <=> n = 1)
    BY <1>2, <1>4, <1>6 DEF Nested, Stacked, ContainerStates
  <1>9. Stacked(Path(r))
    BY <1>2, <1>4, <1>5, <1>6, <1>7, <1>8 DEF Nested, Stacked
  <1>10. Counted(Path(r))
    BY <1>2, <1>4, <1>5, <1>6, <1>7, <1>8 DEF Nested, Counted
  <1> QED  BY <1>9, <1>10 DEF Nested, r

\* Exchanging the struct in use for another one of the same container keeps
\* the nesting (the table counters, the end of the columns).
LEMMA TopNests ==
    ASSUME NEW m \in Machines, NEW s \in ujo_state, Nested(m),
           m.cur.state \in {"TABLE_COLUMNS", "TABLE_VALUES"},
           s.state \in {"TABLE_COLUMNS", "TABLE_VALUES"},
           s.state = "TABLE_VALUES" => s.column < s.columns,
           s.state = "TABLE_COLUMNS" => s.column = 0
    PROVE  Nested([m EXCEPT !.cur = s])
  <1> DEFINE r == [m EXCEPT !.cur = s]
             n == Len(m.items)
  <1>1. r \in Machines /\ r.items = m.items /\ r.cur = s /\ n \in Nat
    BY DEF Machines
  <1>2. /\ Len(Path(m)) = n + 1 /\ Path(m)[n + 1] = m.cur
        /\ \A i \in 1 .. n : Path(m)[i] = m.items[i]
    BY PathIs
  <1> HIDE DEF r
  <1>3. /\ Len(Path(r)) = n + 1 /\ Path(r)[n + 1] = s
        /\ \A i \in 1 .. n : Path(r)[i] = m.items[i]
    BY <1>1, PathIs
  <1> HIDE DEF n
  <1>4. n # 0
    BY <1>1, <1>2 DEF Nested, Stacked
  <1>5. Stacked(Path(r))
    <2>1. Stacked(Path(m)) /\ Path(r)[1] = Path(m)[1]
      BY <1>1, <1>2, <1>3, <1>4 DEF Nested
    <2>2. ASSUME NEW i \in 2 .. n + 1
          PROVE  /\ Path(r)[i].state \in ContainerStates
                 /\ Path(r)[i].state = "DICT_VALUE" <=> Path(r)[i-1].state = "DICT_KEY"
                 /\ Path(r)[i-1].state # "TABLE_COLUMNS"
      <3>1. Path(r)[i-1] = Path(m)[i-1]
        BY <1>1, <1>2, <1>3
      <3>2. CASE i = n + 1
        BY <1>1, <1>2, <1>3, <2>1, <3>1, <3>2 DEF Stacked, ContainerStates
      <3>3. CASE i # n + 1
        <4>1. Path(r)[i] = Path(m)[i]
          BY <1>1, <1>2, <1>3, <3>3
        <4> QED  BY <1>1, <1>2, <2>1, <3>1, <4>1 DEF Stacked
      <3> QED  BY <3>2, <3>3
    <2> QED  BY <1>1, <1>2, <1>3, <2>1, <2>2 DEF Stacked
  <1>6. Counted(Path(r))
    BY <1>1, <1>2, <1>3 DEF Nested, Counted
  <1> QED  BY <1>5, <1>6 DEF Nested, r

\* The next cell of a row is a struct ujo_state, within the columns of the
\* table whatever cell it was called on.
LEMMA NextCellIs ==
    ASSUME NEW s \in ujo_state
    PROVE  /\ NextCell(s) \in ujo_state /\ NextCell(s).state = s.state
           /\ NextCell(s).columns = s.columns
           /\ s.columns > 0 => NextCell(s).column < s.columns
  <1> DEFINE c == IF s.column + 1 >= s.columns THEN 0 ELSE s.column + 1
  <1>1. s.column \in Nat /\ s.columns \in Nat
    BY DEF ujo_state
  <1>2. c \in Nat /\ (s.columns > 0 => c < s.columns)
    BY <1>1
  <1>3. NextCell(s) = [s EXCEPT !.column = c]
    BY DEF NextCell
  <1> HIDE DEF c
  <1> QED  BY <1>2, <1>3 DEF ujo_state

\* ujo_state_switch yields a machine, whatever state it is called in.
LEMMA SwitchIsMachine ==
    ASSUME NEW m \in Machines, NEW e, NEW grow \in BOOLEAN
    PROVE  ujo_state_switch(e, m, grow) \in Machines
  <1> DEFINE r == ujo_state_switch(e, m, grow)
  <1>1. CASE m.cur.state = "DICT_VALUE"
    BY <1>1, PrevIsMachine DEF ujo_state_switch
  <1>2. CASE m.cur.state = "DICT_KEY" /\ e # "CONTAINER_CLOSED"
    <2>1. r = ujo_state_next("DICT_VALUE", m, grow)
      BY <1>2 DEF ujo_state_switch
    <2> QED  BY <2>1, NextIsMachine DEF ujoDocState
  <1>3. CASE m.cur.state = "TABLE_COLUMNS" /\ e = "STRING_FOUND"
    <2> DEFINE c == m.cur.columns + 1
    <2>1. r = [m EXCEPT !.cur.columns = c]
      BY <1>3 DEF ujo_state_switch
    <2>2. c \in Nat
      BY DEF Machines, ujo_state
    <2> HIDE DEF c, r
    <2> QED  BY <2>1, <2>2 DEF Machines, ujo_state, r
  <1>4. CASE m.cur.state = "TABLE_VALUES"
    <2>1. r = [m EXCEPT !.cur = NextCell(m.cur)]
      BY <1>4 DEF ujo_state_switch
    <2>2. NextCell(m.cur) \in ujo_state
      BY NextCellIs DEF Machines
    <2> QED  BY <2>1, <2>2 DEF Machines
  <1>5. CASE /\ m.cur.state \notin {"DICT_VALUE", "TABLE_VALUES"}
             /\ ~(m.cur.state = "DICT_KEY" /\ e # "CONTAINER_CLOSED")
             /\ ~(m.cur.state = "TABLE_COLUMNS" /\ e = "STRING_FOUND")
    BY <1>5 DEF ujo_state_switch
  <1> QED  BY <1>1, <1>2, <1>3, <1>4, <1>5

\* ujo_state_switch keeps the nesting in every state and for every event.
LEMMA SwitchNests ==
    ASSUME NEW m \in Machines, NEW e, NEW grow \in BOOLEAN, Kept(m)
    PROVE  Kept(ujo_state_switch(e, m, grow))
  <1> DEFINE r == ujo_state_switch(e, m, grow)
  <1>1. CASE m.cur.state = "DICT_VALUE"
    <2>1. r = ujo_state_prev(m) /\ r.lost = m.lost
      BY <1>1, PrevIsMachine DEF ujo_state_switch
    <2>2. CASE m.lost
      BY <2>1, <2>2 DEF Kept
    <2>3. CASE ~m.lost
      <3>1. Nested(m) /\ m.items # <<>>
        BY <1>1, <2>3, NestedHasParent DEF Kept
      <3> QED  BY <2>1, <3>1, PrevNests DEF Kept
    <2> QED  BY <2>2, <2>3
  <1>2. CASE m.cur.state = "DICT_KEY" /\ e # "CONTAINER_CLOSED"
    <2>1. r = ujo_state_next("DICT_VALUE", m, grow)
      BY <1>2 DEF ujo_state_switch
    <2>2. Kept(ujo_state_next("DICT_VALUE", m, grow))
      BY <1>2, NextNests DEF ujoDocState
    <2> QED  BY <2>1, <2>2
  <1>3. CASE m.cur.state = "TABLE_COLUMNS" /\ e = "STRING_FOUND"
    <2> DEFINE c == m.cur.columns + 1
               s == [m.cur EXCEPT !.columns = c]
    <2>1. c \in Nat /\ m.cur \in ujo_state
      BY DEF Machines, ujo_state
    <2>2. r = [m EXCEPT !.cur.columns = c]
      BY <1>3 DEF ujo_state_switch
    <2> HIDE DEF c, r
    <2>3. s \in ujo_state /\ s.state = "TABLE_COLUMNS" /\ s.column = m.cur.column
      BY <1>3, <2>1 DEF ujo_state
    <2>4. r = [m EXCEPT !.cur = s] /\ r.lost = m.lost
      BY <2>1, <2>2 DEF Machines
    <2> HIDE DEF s
    <2>5. Nested(m) => m.cur.column = 0
      <3>1. /\ Len(m.items) + 1 \in 1 .. Len(Path(m))
            /\ Path(m)[Len(m.items) + 1] = m.cur
        BY PathIs, ItemsAre
      <3> QED  BY <1>3, <3>1 DEF Nested, Counted
    <2>6. Nested(m) => Nested(r)
      BY <1>3, <2>3, <2>4, <2>5, TopNests
    <2> QED  BY <2>4, <2>6 DEF Kept, r
  <1>4. CASE m.cur.state = "TABLE_VALUES"
    <2> DEFINE s == NextCell(m.cur)
    <2>1. r = [m EXCEPT !.cur = s] /\ r.lost = m.lost
      BY <1>4 DEF ujo_state_switch, Machines
    <2>2. /\ s \in ujo_state /\ s.state = "TABLE_VALUES" /\ s.columns = m.cur.columns
          /\ m.cur.columns > 0 => s.column < s.columns
      BY <1>4, NextCellIs DEF Machines
    <2>3. Nested(m) => m.cur.columns > 0
      <3>1. /\ Len(m.items) + 1 \in 1 .. Len(Path(m))
            /\ Path(m)[Len(m.items) + 1] = m.cur
        BY PathIs, ItemsAre
      <3>2. Nested(m) => m.cur.column < m.cur.columns
        BY <1>4, <3>1 DEF Nested, Counted
      <3> QED  BY <3>2 DEF Machines, ujo_state
    <2> HIDE DEF s, r
    <2>4. Nested(m) => Nested(r)
      BY <1>4, <2>1, <2>2, <2>3, TopNests
    <2> QED  BY <2>1, <2>4 DEF Kept, r
  <1>5. CASE /\ m.cur.state \notin {"DICT_VALUE", "TABLE_VALUES"}
             /\ ~(m.cur.state = "DICT_KEY" /\ e # "CONTAINER_CLOSED")
             /\ ~(m.cur.state = "TABLE_COLUMNS" /\ e = "STRING_FOUND")
    BY <1>5 DEF ujo_state_switch
  <1> QED  BY <1>1, <1>2, <1>3, <1>4, <1>5
=============================================================================
