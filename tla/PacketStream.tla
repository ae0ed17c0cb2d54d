----------------------------- MODULE PacketStream -----------------------------
(***************************************************************************)
(* What a tokenizer promises to the thread that uses it, without saying    *)
(* how it searches: the bytes received so far are cut at the first end     *)
(* mark, always, before anything else is received or taken.                *)
(*                                                                         *)
(* Only a packet that is too long for the tokenizer's buffer breaks the    *)
(* promise.  Then bytes are lost, and until the next flush end marks may   *)
(* be overlooked.                                                          *)
(***************************************************************************)
EXTENDS Framing

CONSTANTS CAPACITY,   \* how many bytes an unfinished packet may have
          Chunk       \* what is received at once

VARIABLES rest,       \* the bytes received and not yet cut into packets
          packets,    \* the packets cut off and not yet taken
          lost        \* bytes were lost since the last flush

vars == <<rest, packets, lost>>

\* The promise allows that the tokenizer goes on: no packet is complete in rest.
Ready == lost \/ \A p \in 0..Len(rest) : ~EofAt(rest, p)

Init == rest = << >> /\ packets = << >> /\ lost = FALSE

Receive(bytes) ==
  /\ Ready
  /\ Len(rest) + Len(bytes) <= CAPACITY
  /\ rest' = rest \o bytes
  /\ UNCHANGED <<packets, lost>>

\* The end of the chunk is lost, or all that is unfinished.
Lose(bytes) ==
  /\ Ready
  /\ Len(rest) + Len(bytes) > CAPACITY
  /\ rest' \in {<< >>, rest \o SubSeq(bytes, 1, CAPACITY - Len(rest))}
  /\ lost' = TRUE
  /\ UNCHANGED packets

Cut ==
  /\ \E p \in 0..Len(rest) :
       /\ EofAt(rest, p)
       /\ lost \/ \A q \in 0..Len(rest) : q < p => ~EofAt(rest, q)
       /\ packets' = Offer(packets, SubSeq(rest, 1, p))
       /\ rest' = SubSeq(rest, p + Size + 1, Len(rest))
  /\ UNCHANGED lost

Take ==
  /\ Ready
  /\ packets # << >>
  /\ packets' = Tail(packets)
  /\ UNCHANGED <<rest, lost>>

Flush ==
  /\ Ready
  /\ rest' = << >> /\ packets' = << >> /\ lost' = FALSE

Next ==
  \/ \E bytes \in Chunk : Receive(bytes) \/ Lose(bytes)
  \/ Cut \/ Take \/ Flush

Spec == Init /\ [][Next]_vars
=============================================================================
