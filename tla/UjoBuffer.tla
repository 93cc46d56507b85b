----------------------------- MODULE UjoBuffer ------------------------------
(***************************************************************************)
(* The buffer of a memory writer, octet by octet: _ujo_writer_put_memory   *)
(* with its realloc, and the pointer ujo_writer_get_buffer hands out.      *)
(***************************************************************************)
EXTENDS UjoConstants, Sequences

CONSTANTS UJO_DEFAULT_BUFSIZE,
          Octets,       \* the values an octet is written with
          Lengths,      \* the lengths of the sequences put
          Addresses,    \* where the allocator may place the buffer
          MaxBytes      \* bound on the octets put

ASSUME BufferAssumption ==
    /\ UJO_DEFAULT_BUFSIZE \in Nat \ {0}
    /\ Octets \subseteq 0 .. 255 /\ Lengths \subseteq Nat
    /\ MaxBytes \in Nat

VARIABLES buffer,      \* w->buffer: its octets, from offset 0
          buffersize,  \* w->buffersize
          bytes,       \* w->bytes
          address,     \* where the buffer is, "freed" after ujo_free_writer
          view,        \* the address the application has from get_buffer
          arg, code    \* argument and result of the last put

bvars == <<buffer, buffersize, bytes, address, view, arg, code>>

\* What no octet of the document is.
Uninitialised == 256

\* ujo_new_memory_writer: ujo_new is calloc, but no octet counts before it is put.
Init ==
    /\ buffersize = UJO_DEFAULT_BUFSIZE
    /\ buffer = [i \in 0 .. buffersize - 1 |-> Uninitialised]
    /\ bytes = 0
    /\ address \in Addresses
    /\ view = "none"
    /\ arg = <<>> /\ code = UJO_SUCCESS

\* The size after growing for n octets; a mutant does not round up.
newbufsizeShort(n) == buffersize + (n \div UJO_DEFAULT_BUFSIZE) * UJO_DEFAULT_BUFSIZE

newbufsize(n) ==
    buffersize + ((n \div UJO_DEFAULT_BUFSIZE) + 1) * UJO_DEFAULT_BUFSIZE

\* Mutant: a bigger buffer is a new one, without the octets of the old.
CopiedAnew(size, s) ==
    [i \in 0 .. size - 1 |->
        IF i \in bytes .. bytes + Len(s) - 1 THEN s[i - bytes + 1]
        ELSE IF size = buffersize THEN buffer[i] ELSE 0]

Copied(size, s) ==
    [i \in 0 .. size - 1 |->
        IF i \in bytes .. bytes + Len(s) - 1 THEN s[i - bytes + 1]
        ELSE IF i < buffersize THEN buffer[i] ELSE Uninitialised]

\* Mutant: the size of the grown buffer is not kept.
StoreForgetsSize(s, size) ==
    /\ buffersize' = buffersize
    /\ buffer' = Copied(size, s)
    /\ bytes' = bytes + Len(s)
    /\ code' = UJO_SUCCESS

\* memcpy of s behind what is there, in a buffer of the given size.
Store(s, size) ==
    /\ buffersize' = size
    /\ buffer' = Copied(size, s)
    /\ bytes' = bytes + Len(s)
    /\ code' = UJO_SUCCESS

\* realloc keeps the octets, and the address only if it likes; if it fails
\* the old buffer stays.
ujo_writer_put_memory(s) ==
    /\ address # "freed" /\ bytes + Len(s) <= MaxBytes
    /\ arg' = s
    /\ \/ /\ bytes + Len(s) <= buffersize
          /\ Store(s, buffersize)
          /\ UNCHANGED address
       \/ /\ bytes + Len(s) > buffersize
          /\ Store(s, newbufsize(Len(s)))
          /\ address' \in Addresses
       \/ /\ bytes + Len(s) > buffersize
          /\ code' = UJO_ERR_ALLOCATION
          /\ UNCHANGED <<buffer, buffersize, bytes, address>>
    /\ UNCHANGED view

ujo_writer_get_buffer ==
    /\ address # "freed"
    /\ view' = address
    /\ UNCHANGED <<buffer, buffersize, bytes, address, arg, code>>

ujo_free_writer ==
    /\ address # "freed"
    /\ address' = "freed"
    /\ UNCHANGED <<buffer, buffersize, bytes, view, arg, code>>

Puts == \E n \in Lengths : \E s \in [1 .. n -> Octets] : ujo_writer_put_memory(s)

Next == Puts \/ ujo_writer_get_buffer \/ ujo_free_writer

Spec == Init /\ [][Next]_bvars

-----------------------------------------------------------------------------
\* The buffer has a value at exactly its buffersize offsets, also after a
\* reallocation that failed (w->buffersize, _ujo_writer_put_memory).
BufferTypeOK ==
    /\ buffersize \in Nat /\ bytes \in Nat
    /\ buffer \in [0 .. buffersize - 1 -> Octets \cup {Uninitialised}]
    /\ address \in Addresses \cup {"freed"}
    /\ view \in Addresses \cup {"none"}
    /\ arg \in Seq(Octets)
    /\ code \in UjoErrors

\* memcpy stays inside the buffer for every length, also for those that are
\* longer than a growth step or end exactly at a boundary, and everything up
\* to w->bytes has been written (_ujo_writer_put_memory).
InBounds ==
    /\ bytes <= buffersize
    /\ \A i \in 0 .. bytes - 1 : buffer[i] \in Octets

\* The octets put, as the format sees them.
Written == [i \in 1 .. bytes |-> buffer[i - 1]]

Sink == INSTANCE UjoSink WITH log <- Written

\* Growing, moving and failing to grow are invisible: the buffer is the log
\* of the successful puts (_ujo_writer_put_memory).
BufferIsSink == Sink!Spec

\* "The writer memory buffer can be accessed directly as long as the writer
\* intance exists." (ujo_writer_get_buffer)
ViewStaysValid == view = "none" \/ address \in {view, "freed"}
=============================================================================
