------------------------------ MODULE UjoSums -------------------------------
(***************************************************************************)
(* Sums over sequences, for counts of octets.                              *)
(***************************************************************************)
EXTENDS Naturals, Sequences

Sum(s) ==
    LET upto[i \in 0 .. Len(s)] == IF i = 0 THEN 0 ELSE upto[i - 1] + s[i]
    IN  upto[Len(s)]

\* The octets of a sequence of chunks.
Bytes(ws) == Sum([i \in 1 .. Len(ws) |-> ws[i].size])
=============================================================================
