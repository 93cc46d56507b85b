------------------------------ MODULE UjoSink -------------------------------
(***************************************************************************)
(* What the writer's handlers rely on when they put octets into memory: a  *)
(* log that a successful put extends by exactly its argument and a failed  *)
(* put leaves alone.                                                       *)
(***************************************************************************)
EXTENDS UjoConstants, Sequences

VARIABLES log,   \* the octets put so far
          arg,   \* the argument of the last put
          code   \* what it returned

Init == log = <<>> /\ arg = <<>> /\ code = UJO_SUCCESS

Put == \/ code' = UJO_SUCCESS /\ log' = log \o arg'
       \/ code' = UJO_ERR_ALLOCATION /\ log' = log

Spec == Init /\ [][Put]_<<log, arg, code>>
=============================================================================
