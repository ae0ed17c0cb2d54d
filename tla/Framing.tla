------------------------------- MODULE Framing -------------------------------
(***************************************************************************)
(* The format of a stream of bytes that carries packets: its sender ends   *)
(* each packet with EOF_VALUE, and a packet is kept in a Buffer.           *)
(***************************************************************************)
EXTENDS Naturals, Sequences

CONSTANTS EOF_VALUE,        \* the bytes of the end mark
          VOICE_DATA_SIZE   \* the size of the Buffers packets are put in

Size == Len(EOF_VALUE)

\* An end mark begins at the position p, counted from 0, of the bytes b.
EofAt(b, p) ==
  /\ p + Size <= Len(b)
  /\ \A k \in 1..Size : b[p + k] = EOF_VALUE[k]

\* A packet is cut off at the size of the Buffer it is put in: the loop that
\* would fill further Buffers ends, because the limit is still lowered when its
\* condition is evaluated.
InBuffer(packet) == SubSeq(packet, 1, IF Len(packet) < VOICE_DATA_SIZE
                                        THEN Len(packet) ELSE VOICE_DATA_SIZE)

\* An empty packet takes no Buffer.
Offer(queue, packet) ==
  IF packet = << >> THEN queue ELSE Append(queue, InBuffer(packet))
=============================================================================
