---------------------------- MODULE UjoDocument -----------------------------
(***************************************************************************)
(* The writer against the grammar and the sizes of the format.             *)
(***************************************************************************)
EXTENDS UjoWriter, UjoGrammar, UjoSums

\* The types of the elements the application was told are written.  A null
\* stands for an atomic value of whatever type it was given.
Tokens ==
    [i \in 1 .. Len(acked) |->
        IF acked[i].data = {<<"null", 1>>} THEN UJO_TYPE_NONE ELSE acked[i].type]

\* As long as no put or push has failed, the calls the writer accepts spell a
\* UJO document: what it wrote can be completed, it is closed exactly when it
\* is complete, and in every state it accepts a value, a string, a container or
\* a close exactly where the grammar allows one (allow_atomic, allow_string,
\* allow_container, the guards of the closes and the counting of columns).
Grammatical ==
    ~reported /\ ~doc.lost =>
        LET s == doc.cur
        IN  /\ WellFormedPrefix(Tokens)
            /\ s.state = "CLOSED" <=> Complete(Tokens)
            /\ ujo_state_allow_atomic(s.state) <=> Follows(Tokens, UJO_TYPE_INT8)
            /\ ujo_state_allow_string(s.state) <=> Follows(Tokens, UJO_TYPE_STRING)
            /\ ujo_state_allow_container(s.state) <=> Follows(Tokens, UJO_TYPE_LIST)
            /\ Follows(Tokens, UJO_TERMINATOR) <=>
                  \/ s.state \in {"LIST", "DICT_KEY"}
                  \/ s.state = "TABLE_COLUMNS" /\ s.columns > 0
                  \/ s.state = "TABLE_VALUES" /\ s.column = 0

\* The member of a value that has the name f.
Named(data, f) == CHOOSE k \in {p[2] : p \in data} : <<f, k>> \in data

\* The octets the format has for an element.
Octets(e) ==
    IF e.data = {<<"null", 1>>} THEN 1
    ELSE IF e.type \notin {UJO_TYPE_STRING, UJO_TYPE_BIN} THEN FixedSize(e.type)
    ELSE FixedSize(e.type) + Named(e.data, "n") *
           (IF e.type = UJO_TYPE_STRING THEN UnitSize(Named(e.data, "type")) ELSE 1)

\* As long as no call has returned a put error and no length was beyond 32
\* bits, the destination holds the header and every accepted element in full:
\* no octet is missing, none is written twice (the put sequences of the add,
\* open and close functions).
WireHoldsAcked ==
    ~reported /\ Countable =>
        Bytes(wire) = 7 + Sum([i \in 1 .. Len(acked) |-> Octets(acked[i])])

\* Whichever put fails, at whichever octet and of whichever call, the call says
\* so: without a reported error everything accepted is at the destination.  The
\* close of a table is excepted (return_on_err in the other functions).
FailuresReported ==
    (\A i \in 1 .. Len(acked) : acked[i].type # UJO_TYPE_TABLE) => WireHoldsAcked
=============================================================================
