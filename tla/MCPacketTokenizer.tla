-------------------------- MODULE MCPacketTokenizer --------------------------
(***************************************************************************)
(* PacketTokenizer for TLC: two kinds of bytes and an end mark that begins *)
(* with a repeated byte, as EOF_VALUE begins with four zero bytes; ownBuffer*)
(* holds CAPACITY bytes and a Buffer one byte less than the longest packet.*)
(* MaxBytes bounds the bytes that put gets between two flushes.            *)
(***************************************************************************)
EXTENDS PacketTokenizer

CONSTANTS MaxBytes, MaxChunk

MCEof == <<0, 0, 1>>
MCChunk == UNION {[1..n -> Byte] : n \in 1..MaxChunk}

MCNext ==
  \/ \E bytes \in Chunk : /\ Len(received) + Len(bytes) <= MaxBytes
                          /\ Overflow(bytes) \/ Copy(bytes)
  \/ Find \/ Advance \/ Return
  \/ get \/ flush

MCSpec == Init /\ [][MCNext]_vars
=============================================================================
