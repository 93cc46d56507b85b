------------------------------ MODULE UjoState ------------------------------
(***************************************************************************)
(* The document state machine shared by writer and reader (ujo_state.c) on *)
(* the growing stack of ujo_stack.c.  A machine m is a record:             *)
(*   cur    the struct ujo_state in use: its state and table counters      *)
(*   items  the stacked structs, the outermost first                       *)
(*   size   the number of slots the stack array has                        *)
(*   lost   whether a push was ever dropped (the code keeps no such flag)  *)
(* The operators are the C functions; grow says whether the allocator has  *)
(* memory if the push needs a bigger array.                                *)
(***************************************************************************)
EXTENDS Naturals, Sequences

ujoDocState == {"ROOT", "LIST", "DICT_KEY", "DICT_VALUE", "CLOSED",
                "TABLE_COLUMNS", "TABLE_VALUES"}

\* A freshly calloc'ed struct ujo_state.
NewState(s) == [state |-> s, columns |-> 0, column |-> 0]

\* The pointer ujo_stack_pop returns for an empty stack.  The caller
\* dereferences it, so no operation follows.
NullState == NewState("NULL")

NewMachine == [cur |-> NewState("ROOT"), items |-> <<>>, size |-> 0, lost |-> FALSE]

\* The counters are uint32_t: numbers stand for them in tables of fewer than 2^32
\* columns.
ujo_state == [state : ujoDocState \cup {"NULL"}, columns : Nat, column : Nat]

Machines == [cur : ujo_state, items : Seq(ujo_state), size : Nat, lost : BOOLEAN]

-----------------------------------------------------------------------------
ujo_state_allow_atomic(s) == s \in {"DICT_KEY", "DICT_VALUE", "LIST", "TABLE_VALUES"}

\* Mutants: a container as a key, a container after the document.
AllowContainerAsKey(s) == s \in {"ROOT", "DICT_KEY", "DICT_VALUE", "LIST", "TABLE_VALUES"}
AllowContainerAtEnd(s) == s \in {"ROOT", "DICT_VALUE", "LIST", "TABLE_VALUES", "CLOSED"}

ujo_state_allow_container(s) == s \in {"ROOT", "DICT_VALUE", "LIST", "TABLE_VALUES"}

ujo_state_allow_string(s) == ujo_state_allow_atomic(s) \/ s = "TABLE_COLUMNS"

\* ujo_stack_push: the array grows by one slot when it is full.  If it cannot
\* grow, the function logs and returns: the state is dropped.
ujo_stack_push(m, s, grow) ==
    CASE m.size # Len(m.items) -> [m EXCEPT !.items = Append(@, s)]
      [] m.size = Len(m.items) /\ grow ->
            [m EXCEPT !.items = Append(@, s), !.size = @ + 1]
      [] OTHER -> [m EXCEPT !.lost = TRUE]

\* Entering state s: the current struct is pushed, a new one takes its place.
ujo_state_next(s, m, grow) ==
    [ujo_stack_push(m, m.cur, grow) EXCEPT !.cur = NewState(s)]

ujo_clear_stack(m) == [m EXCEPT !.items = <<>>]

\* Leaving a state: the struct below is in use again; back at the root the
\* document is closed.
ujo_state_prev(m) ==
    IF m.items = <<>> THEN [m EXCEPT !.cur = NullState]
    ELSE LET top == m.items[Len(m.items)]
         IN  [m EXCEPT !.items = SubSeq(@, 1, Len(@) - 1),
                       !.cur = IF top.state = "ROOT"
                               THEN [top EXCEPT !.state = "CLOSED"] ELSE top]

\* Mutants: the wrap one cell late, the cell counted down.
NextCellLate(s) == [s EXCEPT !.column = IF @ + 1 > s.columns THEN 0 ELSE @ + 1]
NextCellDown(s) == [s EXCEPT !.column = IF @ >= s.columns THEN 0 ELSE @ - 1]

\* The next cell of a table row, wrapping at the number of columns.
NextCell(s) == [s EXCEPT !.column = IF @ + 1 >= s.columns THEN 0 ELSE @ + 1]

\* Mutant: a map does not learn that a container it has as a value was closed.
SwitchForgetsContainer(e, m, grow) ==
    CASE m.cur.state = "DICT_VALUE" /\ e # "CONTAINER_CLOSED" -> ujo_state_prev(m)
      [] m.cur.state = "DICT_KEY" /\ e # "CONTAINER_CLOSED" ->
            ujo_state_next("DICT_VALUE", m, grow)
      [] m.cur.state = "TABLE_COLUMNS" /\ e = "STRING_FOUND" ->
            [m EXCEPT !.cur.columns = @ + 1]
      [] m.cur.state = "TABLE_VALUES" -> [m EXCEPT !.cur = NextCell(@)]
      [] OTHER -> m

ujo_state_switch(e, m, grow) ==
    CASE m.cur.state = "DICT_VALUE" -> ujo_state_prev(m)
      [] m.cur.state = "DICT_KEY" /\ e # "CONTAINER_CLOSED" ->
            ujo_state_next("DICT_VALUE", m, grow)
      [] m.cur.state = "TABLE_COLUMNS" /\ e = "STRING_FOUND" ->
            [m EXCEPT !.cur.columns = @ + 1]
      [] m.cur.state = "TABLE_VALUES" -> [m EXCEPT !.cur = NextCell(@)]
      [] OTHER -> m

-----------------------------------------------------------------------------
\* The structs from the outermost to the one in use.
Path(m) == Append(m.items, m.cur)

ContainerStates == {"LIST", "DICT_KEY", "DICT_VALUE", "TABLE_COLUMNS", "TABLE_VALUES"}

\* How structs may lie on each other: the root at the bottom, closed only when
\* nothing is left on it; every container above; a map's value state exactly on
\* its key state; an open column section only on top.
Stacked(p) ==
    /\ p[1].state \in {"ROOT", "CLOSED"}
    /\ p[1].state = "CLOSED" => Len(p) = 1
    /\ \A i \in 2 .. Len(p) : /\ p[i].state \in ContainerStates
                              /\ p[i].state = "DICT_VALUE" <=> p[i-1].state = "DICT_KEY"
                              /\ p[i-1].state # "TABLE_COLUMNS"

\* Table counters: a started row never reaches the number of columns, so a
\* body exists only for tables with a column.
Counted(p) ==
    \A i \in 1 .. Len(p) :
        /\ p[i].state = "TABLE_VALUES" => p[i].column < p[i].columns
        /\ p[i].state = "TABLE_COLUMNS" => p[i].column = 0

Nested(m) == Stacked(Path(m)) /\ Counted(Path(m))
=============================================================================
