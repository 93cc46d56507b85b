------------------------------ MODULE UjoEndian ------------------------------
(***************************************************************************)
(* ujo_endian.h: the swap functions and the macros that apply them on big  *)
(* endian hosts.  A word of 2, 4 or 8 octets is the sequence of its octets *)
(* from the least to the most significant.                                 *)
(***************************************************************************)
EXTENDS Naturals, Sequences

Octet == 0 .. 255
Words(n) == [1 .. n -> Octet]

ujo_uint16_swap(v) == <<v[2], v[1]>>
ujo_uint32_swap(v) == <<v[4], v[3], v[2], v[1]>>
ujo_uint64_swap(v) == <<v[8], v[7], v[6], v[5], v[4], v[3], v[2], v[1]>>

\* The swap of a float is that of the integer it shares a union with.
ujo_float32_swap(v) == ujo_uint32_swap(v)
ujo_float64_swap(v) == ujo_uint64_swap(v)

UJO_UINT16_SWAP(v, host)  == IF host = "BE" THEN ujo_uint16_swap(v) ELSE v
UJO_UINT32_SWAP(v, host)  == IF host = "BE" THEN ujo_uint32_swap(v) ELSE v
UJO_UINT64_SWAP(v, host)  == IF host = "BE" THEN ujo_uint64_swap(v) ELSE v
UJO_FLOAT32_SWAP(v, host) == IF host = "BE" THEN ujo_float32_swap(v) ELSE v
UJO_FLOAT64_SWAP(v, host) == IF host = "BE" THEN ujo_float64_swap(v) ELSE v

\* The octets of a word as they lie in memory, and the word that lies there.
Memory(v, host) == IF host = "BE" THEN [i \in 1 .. Len(v) |-> v[Len(v) + 1 - i]] ELSE v
=============================================================================
