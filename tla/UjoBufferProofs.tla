-------------------------- MODULE UjoBufferProofs ---------------------------
(***************************************************************************)
(* The memory buffer never overflows and is, behind its reallocations, an  *)
(* append-only log: for every growth step, every length put and any number *)
(* of puts.                                                                *)
(***************************************************************************)
EXTENDS UjoBuffer, SequenceTheorems, TLAPS

\* The inductive invariant.
BInv == BufferTypeOK /\ InBounds

\* Rounding n up by a growth step B gives more than n.
LEMMA GrowthStep ==
    ASSUME NEW n \in Nat, NEW B \in Nat \ {0}
    PROVE  ((n \div B) + 1) * B \in Nat /\ ((n \div B) + 1) * B > n
  <1>1. n \div B \in Nat
    OBVIOUS
  <1>2. n = B * (n \div B) + (n % B) /\ n % B \in 0 .. B - 1
    OBVIOUS
  <1> QED  BY <1>1, <1>2, Z3

\* A buffer grown for n octets has room for them behind what it holds.
LEMMA GrownFits ==
    ASSUME BInv, NEW n \in Nat
    PROVE  newbufsize(n) \in Nat /\ newbufsize(n) > buffersize + n
  <1> DEFINE step == ((n \div UJO_DEFAULT_BUFSIZE) + 1) * UJO_DEFAULT_BUFSIZE
  <1>1. step \in Nat /\ step > n
    BY GrowthStep, BufferAssumption
  <1>2. newbufsize(n) = buffersize + step /\ buffersize \in Nat
    BY DEF newbufsize, BInv, BufferTypeOK
  <1> HIDE DEF step
  <1> QED  BY <1>1, <1>2

\* memcpy into a buffer with room for s: the invariant holds of the result, and
\* the octets written are the old ones followed by s.
LEMMA StoreAppends ==
    ASSUME BInv, NEW s \in Seq(Octets), NEW STATE size, size \in Nat,
           size >= buffersize, bytes + Len(s) <= size, Store(s, size)
    PROVE  /\ buffersize' \in Nat /\ bytes' \in Nat
           /\ buffer' \in [0 .. buffersize' - 1 -> Octets \cup {Uninitialised}]
           /\ InBounds'
           /\ Written' = Written \o s
  <1>1. /\ bytes \in Nat /\ buffersize \in Nat /\ bytes <= buffersize
        /\ buffer \in [0 .. buffersize - 1 -> Octets \cup {Uninitialised}]
        /\ \A i \in 0 .. bytes - 1 : buffer[i] \in Octets
        /\ Len(s) \in Nat
    BY DEF BInv, BufferTypeOK, InBounds
  <1>2. /\ buffersize' = size /\ bytes' = bytes + Len(s)
        /\ buffer' = [i \in 0 .. size - 1 |->
             IF i \in bytes .. bytes + Len(s) - 1 THEN s[i - bytes + 1]
             ELSE IF i < buffersize THEN buffer[i] ELSE Uninitialised]
    BY DEF Store, Copied
  <1>3. ASSUME NEW i \in 0 .. size - 1
        PROVE  buffer'[i] \in Octets \cup {Uninitialised}
    <2>1. CASE i \in bytes .. bytes + Len(s) - 1
      <3>1. i - bytes + 1 \in 1 .. Len(s)
        BY <1>1, <2>1
      <3>2. s[i - bytes + 1] \in Octets
        BY <3>1
      <3> QED  BY <1>2, <2>1, <3>2
    <2>2. CASE i \notin bytes .. bytes + Len(s) - 1 /\ i < buffersize
      <3>1. i \in 0 .. buffersize - 1
        BY <1>1, <2>2
      <3> QED  BY <1>1, <1>2, <2>2, <3>1
    <2>3. CASE i \notin bytes .. bytes + Len(s) - 1 /\ ~(i < buffersize)
      BY <1>2, <2>3
    <2> QED  BY <2>1, <2>2, <2>3
  <1>4. buffer' \in [0 .. buffersize' - 1 -> Octets \cup {Uninitialised}]
    BY <1>2, <1>3
  <1>5. ASSUME NEW i \in 0 .. bytes - 1
        PROVE  buffer'[i] = buffer[i]
    <2>1. i \in 0 .. size - 1 /\ i \notin bytes .. bytes + Len(s) - 1 /\ i < buffersize
      BY <1>1
    <2> QED  BY <1>2, <2>1
  <1>6. ASSUME NEW i \in bytes .. bytes + Len(s) - 1
        PROVE  buffer'[i] = s[i - bytes + 1] /\ s[i - bytes + 1] \in Octets
    <2>1. i \in 0 .. size - 1 /\ i - bytes + 1 \in 1 .. Len(s)
      BY <1>1
    <2>2. s[i - bytes + 1] \in Octets
      BY <2>1
    <2> QED  BY <1>2, <2>1, <2>2
  <1>7. InBounds'
    <2>1. \A i \in 0 .. bytes' - 1 : i \in 0 .. bytes - 1 \/ i \in bytes .. bytes + Len(s) - 1
      BY <1>1, <1>2
    <2>2. \A i \in 0 .. bytes' - 1 : buffer'[i] \in Octets
      BY <1>1, <1>5, <1>6, <2>1
    <2> QED  BY <1>2, <2>2 DEF InBounds
  <1>8. Written' = Written \o s
    <2>1. Written = [i \in 1 .. bytes |-> buffer[i - 1]]
      BY DEF Written
    <2>2. Written \in Seq(Octets) /\ Len(Written) = bytes
      <3>1. \A i \in 1 .. bytes : i - 1 \in 0 .. bytes - 1
        BY <1>1
      <3>2. \A i \in 1 .. bytes : buffer[i - 1] \in Octets
        BY <1>1, <3>1
      <3> QED  BY <1>1, <2>1, <3>2
    <2>3. Written' = [i \in 1 .. bytes + Len(s) |-> buffer'[i - 1]]
      BY <1>2 DEF Written
    <2>4. /\ Written \o s \in Seq(Octets) /\ Len(Written \o s) = bytes + Len(s)
          /\ \A i \in 1 .. bytes + Len(s) :
                (Written \o s)[i] = IF i <= bytes THEN Written[i] ELSE s[i - bytes]
      BY <1>1, <2>2, ConcatProperties
    <2>5. ASSUME NEW i \in 1 .. bytes + Len(s)
          PROVE  buffer'[i - 1] = (Written \o s)[i]
      <3>1. CASE i <= bytes
        <4>1. i - 1 \in 0 .. bytes - 1 /\ i \in 1 .. bytes
          BY <1>1, <3>1
        <4> QED  BY <1>5, <2>1, <2>4, <3>1, <4>1
      <3>2. CASE ~(i <= bytes)
        <4>1. i - 1 \in bytes .. bytes + Len(s) - 1 /\ (i - 1) - bytes + 1 = i - bytes
          BY <1>1, <3>2
        <4>2. buffer'[i - 1] = s[(i - 1) - bytes + 1]
          BY <1>6, <4>1
        <4> QED  BY <2>4, <3>2, <4>1, <4>2
      <3> QED  BY <3>1, <3>2
    <2>6. Written \o s = [i \in 1 .. bytes + Len(s) |-> (Written \o s)[i]]
      <3> DEFINE w == Written \o s
      <3>1. w \in Seq(Octets) /\ Len(w) = bytes + Len(s)
        BY <2>4
      <3> HIDE DEF w
      <3>2. w = [i \in 1 .. bytes + Len(s) |-> w[i]]
        BY <3>1
      <3> QED  BY <3>2 DEF w
    <2> QED  BY <2>3, <2>5, <2>6
  <1> QED  BY <1>1, <1>2, <1>4, <1>7, <1>8

\* One put: it appends its argument or fails and leaves everything, and the
\* invariant holds either way.
LEMMA PutKeeps ==
    ASSUME BInv, NEW s \in Seq(Octets), ujo_writer_put_memory(s)
    PROVE  /\ BInv'
           /\ \/ code' = UJO_SUCCESS /\ Written' = Written \o arg'
              \/ code' = UJO_ERR_ALLOCATION /\ Written' = Written
  <1>1. arg' = s /\ view' \in Addresses \cup {"none"}
    BY DEF ujo_writer_put_memory, BInv, BufferTypeOK
  <1>2. UJO_SUCCESS \in UjoErrors /\ UJO_ERR_ALLOCATION \in UjoErrors
    BY DEF UjoErrors
  <1>3. bytes \in Nat /\ buffersize \in Nat /\ bytes <= buffersize /\ Len(s) \in Nat
    BY DEF BInv, BufferTypeOK, InBounds
  <1>4. CASE bytes + Len(s) <= buffersize /\ Store(s, buffersize) /\ UNCHANGED address
    <2>1. code' = UJO_SUCCESS /\ address' \in Addresses \cup {"freed"}
      BY <1>4 DEF Store, BInv, BufferTypeOK
    <2>2. /\ buffersize' \in Nat /\ bytes' \in Nat
          /\ buffer' \in [0 .. buffersize' - 1 -> Octets \cup {Uninitialised}]
          /\ InBounds' /\ Written' = Written \o s
      BY <1>3, <1>4, StoreAppends
    <2> QED  BY <1>1, <1>2, <2>1, <2>2 DEF BInv, BufferTypeOK
  <1>5. CASE /\ bytes + Len(s) > buffersize /\ Store(s, newbufsize(Len(s)))
             /\ address' \in Addresses
    <2>1. code' = UJO_SUCCESS
      BY <1>5 DEF Store
    <2>2. /\ newbufsize(Len(s)) \in Nat /\ newbufsize(Len(s)) >= buffersize
          /\ bytes + Len(s) <= newbufsize(Len(s))
      <3>1. newbufsize(Len(s)) \in Nat /\ newbufsize(Len(s)) > buffersize + Len(s)
        BY <1>3, GrownFits
      <3> QED  BY <1>3, <3>1
    <2>3. /\ buffersize' \in Nat /\ bytes' \in Nat
          /\ buffer' \in [0 .. buffersize' - 1 -> Octets \cup {Uninitialised}]
          /\ InBounds' /\ Written' = Written \o s
      BY <1>5, <2>2, StoreAppends
    <2> QED  BY <1>1, <1>2, <1>5, <2>1, <2>3 DEF BInv, BufferTypeOK
  <1>6. CASE /\ code' = UJO_ERR_ALLOCATION
             /\ UNCHANGED <<buffer, buffersize, bytes, address>>
    BY <1>1, <1>2, <1>6 DEF BInv, BufferTypeOK, InBounds, Written
  <1> QED  BY <1>4, <1>5, <1>6 DEF ujo_writer_put_memory

\* A step on the buffer keeps the invariant and is a put of the abstract log
\* or invisible to it.
LEMMA StepKeeps ==
    ASSUME BInv, [Next]_bvars
    PROVE  BInv' /\ [Sink!Put]_<<Written, arg, code>>
  <1>1. CASE Puts
    <2>1. PICK n \in Lengths : \E s \in [1 .. n -> Octets] : ujo_writer_put_memory(s)
      BY <1>1 DEF Puts
    <2>2. PICK s \in [1 .. n -> Octets] : ujo_writer_put_memory(s)
      BY <2>1
    <2>3. s \in Seq(Octets)
      BY BufferAssumption
    <2>4. /\ BInv'
          /\ \/ code' = UJO_SUCCESS /\ Written' = Written \o arg'
             \/ code' = UJO_ERR_ALLOCATION /\ Written' = Written
      BY <2>2, <2>3, PutKeeps
    <2> QED  BY <2>4 DEF Sink!Put, Sink!UJO_SUCCESS, Sink!UJO_ERR_ALLOCATION,
                         UJO_SUCCESS, UJO_ERR_ALLOCATION
  <1>2. CASE ujo_writer_get_buffer
    BY <1>2 DEF ujo_writer_get_buffer, BInv, BufferTypeOK, InBounds, Written
  <1>3. CASE ujo_free_writer
    BY <1>3 DEF ujo_free_writer, BInv, BufferTypeOK, InBounds, Written
  <1>4. CASE UNCHANGED bvars
    BY <1>4 DEF bvars, BInv, BufferTypeOK, InBounds, Written
  <1> QED  BY <1>1, <1>2, <1>3, <1>4 DEF Next

\* A new writer's buffer satisfies the invariant and is the empty log.
LEMMA InitKeeps == Init => BInv /\ Sink!Init
  <1> SUFFICES ASSUME Init PROVE BInv /\ Sink!Init
    OBVIOUS
  <1>1. BufferTypeOK
    BY BufferAssumption DEF Init, BufferTypeOK, UjoErrors
  <1>2. InBounds
    BY BufferAssumption DEF Init, InBounds
  <1>3. Written = <<>>
    BY DEF Init, Written
  <1> QED  BY <1>1, <1>2, <1>3 DEF BInv, Sink!Init, Init, Sink!UJO_SUCCESS, UJO_SUCCESS

-----------------------------------------------------------------------------
\* The writer's buffer, its size, its fill and what the application holds of
\* it are of their types after any sequence of puts.
THEOREM BufferTypeCorrect == Spec => []BufferTypeOK
  <1>1. BInv => BufferTypeOK
    BY DEF BInv
  <1> QED  BY <1>1, InitKeeps, StepKeeps, PTL DEF Spec

\* For every growth step and every length put, no put leaves the buffer, and
\* nothing uninitialised is handed out (_ujo_writer_put_memory).
THEOREM NoOverflow == Spec => []InBounds
  <1>1. BInv => InBounds
    BY DEF BInv
  <1> QED  BY <1>1, InitKeeps, StepKeeps, PTL DEF Spec

\* The buffer implements the append-only log: growing, moving and failing to
\* grow never lose, repeat or reorder an octet (_ujo_writer_put_memory).
THEOREM BufferImplementsSink == Spec => BufferIsSink
  <1> QED  BY InitKeeps, StepKeeps, PTL DEF Spec, BufferIsSink, Sink!Spec
=============================================================================
