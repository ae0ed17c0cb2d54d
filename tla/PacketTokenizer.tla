--------------------------- MODULE PacketTokenizer ---------------------------
(***************************************************************************)
(* The tokenizer that both ends use to cut the bytes of a TCP connection   *)
(* into packets, each of which its sender ended with EOF_VALUE.  The same  *)
(* code is in server/voice and client/network.  One thread calls it.       *)
(***************************************************************************)
EXTENDS Framing

CONSTANTS Byte,      \* what is in a buffer
          CAPACITY,  \* the size of ownBuffer
          Chunk      \* the inputs of put: what one read of a socket gives

ASSUME EofAssumption ==
  /\ EOF_VALUE \in Seq(Byte) /\ EOF_VALUE # << >>
  /\ CAPACITY \in Nat /\ Len(EOF_VALUE) <= CAPACITY
  /\ VOICE_DATA_SIZE \in Nat \ {0}
  /\ Chunk \subseteq Seq(Byte) \ {<< >>}

\* Two end marks never overlap: shifted by less than its length, EOF_VALUE, the
\* bytes 00 00 00 00 54 F9 A3 2B, does not match itself.
ASSUME ShiftAssumption ==
  \A d \in 1..(Size - 1) : \E k \in 1..(Size - d) : EOF_VALUE[k + d] # EOF_VALUE[k]

VARIABLES
  ownBuffer,       \* the bytes of ownBuffer up to its position
  prevPosition,    \* where the next search for an end mark begins
  ownBufferQueue,  \* the packets found and not yet taken
  searching,       \* put has copied its input and searches for end marks
  i,               \* put's search position
  received,        \* history: every byte given to put since the last flush
  delivered,       \* history: every packet found since the last flush
  lost             \* history: put has thrown away bytes since the last flush

vars == <<ownBuffer, prevPosition, ownBufferQueue, searching, i, received, delivered, lost>>
history == <<received, delivered, lost>>

Init ==
  /\ ownBuffer = << >> /\ prevPosition = 0 /\ ownBufferQueue = << >>
  /\ searching = FALSE /\ i = 0
  /\ received = << >> /\ delivered = << >> /\ lost = FALSE

(***************************************************************************)
(* put: with ownBuffer full it empties it and returns false.  Otherwise it *)
(* copies what fits; the rest of the input is not read again, because the  *)
(* input's limit is still lowered when the loop's condition is evaluated.  *)
(***************************************************************************)
\* (with one byte of room left: for the mutation of Overflow)
OverflowEarly(bytes) ==
  /\ ~searching
  /\ Len(ownBuffer) + 1 >= CAPACITY
  /\ ownBuffer' = << >>
  /\ received' = received \o bytes
  /\ lost' = TRUE
  /\ UNCHANGED <<prevPosition, ownBufferQueue, searching, i, delivered>>

Overflow(bytes) ==
  /\ ~searching
  /\ Len(ownBuffer) = CAPACITY
  /\ ownBuffer' = << >>
  /\ received' = received \o bytes
  /\ lost' = TRUE
  /\ UNCHANGED <<prevPosition, ownBufferQueue, searching, i, delivered>>

\* (without lowering the limit of the input: for the mutation of Copy)
CopyAll(bytes) ==
  /\ ~searching
  /\ Len(ownBuffer) < CAPACITY
  /\ ownBuffer' = ownBuffer \o bytes
  /\ searching' = TRUE /\ i' = prevPosition
  /\ received' = received \o bytes
  /\ UNCHANGED <<prevPosition, ownBufferQueue, delivered, lost>>

Copy(bytes) ==
  /\ ~searching
  /\ Len(ownBuffer) < CAPACITY
  /\ LET room == CAPACITY - Len(ownBuffer) IN
       /\ ownBuffer' = ownBuffer \o IF Len(bytes) > room THEN SubSeq(bytes, 1, room)
                                                         ELSE bytes
       /\ lost' = (lost \/ Len(bytes) > room)
  /\ searching' = TRUE /\ i' = prevPosition
  /\ received' = received \o bytes
  /\ UNCHANGED <<prevPosition, ownBufferQueue, delivered>>

\* The search has reached an end mark: the packet before it is queued, what is
\* behind it moves to the front, and the search begins again there.
Find ==
  /\ searching
  /\ EofAt(ownBuffer, i)
  /\ ownBufferQueue' = Offer(ownBufferQueue, SubSeq(ownBuffer, 1, i))
  /\ delivered' = Offer(delivered, SubSeq(ownBuffer, 1, i))
  /\ ownBuffer' = SubSeq(ownBuffer, i + Size + 1, Len(ownBuffer))
  /\ i' = 0
  /\ UNCHANGED <<prevPosition, searching, received, lost>>

Advance ==
  /\ searching
  /\ i + Size <= Len(ownBuffer)
  /\ ~EofAt(ownBuffer, i)
  /\ i' = i + 1
  /\ UNCHANGED <<ownBuffer, prevPosition, ownBufferQueue, searching, history>>

\* (goes on behind the last byte, as if no end mark were cut in two: for the
\* mutation of Return)
ReturnAtEnd ==
  /\ searching
  /\ i + Size > Len(ownBuffer)
  /\ prevPosition' = Len(ownBuffer)
  /\ searching' = FALSE /\ i' = 0
  /\ UNCHANGED <<ownBuffer, ownBufferQueue, history>>

Return ==
  /\ searching
  /\ i + Size > Len(ownBuffer)
  /\ prevPosition' = i
  /\ searching' = FALSE /\ i' = 0
  /\ UNCHANGED <<ownBuffer, ownBufferQueue, history>>

\* (keeps the bytes of the packet that has not ended: for the mutation of flush)
flushQueue ==
  /\ ~searching
  /\ prevPosition' = 0
  /\ ownBufferQueue' = << >>
  /\ received' = << >> /\ delivered' = << >> /\ lost' = FALSE
  /\ UNCHANGED <<ownBuffer, searching, i>>

get ==
  /\ ~searching
  /\ ownBufferQueue # << >>
  /\ ownBufferQueue' = Tail(ownBufferQueue)
  /\ UNCHANGED <<ownBuffer, prevPosition, searching, i, history>>

flush ==
  /\ ~searching
  /\ ownBuffer' = << >> /\ prevPosition' = 0 /\ ownBufferQueue' = << >>
  /\ received' = << >> /\ delivered' = << >> /\ lost' = FALSE
  /\ UNCHANGED <<searching, i>>

Next ==
  \/ \E bytes \in Chunk : Overflow(bytes) \/ Copy(bytes)
  \/ Find \/ Advance \/ Return
  \/ get \/ flush

Spec == Init /\ [][Next]_vars

-----------------------------------------------------------------------------
(***************************************************************************)
(* Properties.                                                             *)
(***************************************************************************)
\* Every variable has the type of the field it stands for.
TypeOK ==
  /\ ownBuffer \in Seq(Byte) /\ Len(ownBuffer) <= CAPACITY
  /\ prevPosition \in Nat
  /\ ownBufferQueue \in Seq(Seq(Byte))
  /\ searching \in BOOLEAN /\ i \in Nat
  /\ received \in Seq(Byte)
  /\ delivered \in Seq(Seq(Byte))
  /\ lost \in BOOLEAN

NothingLeft == \A p \in 0..Len(ownBuffer) : ~EofAt(ownBuffer, p)

\* The comment of put's overflow, "can't find EOF -> tokenizer flush": when put
\* has returned, whatever happened before, no complete packet is left in
\* ownBuffer that get would not return.
NothingLeftUnfound == ~searching => NothingLeft

\* The same as long as no byte has been thrown away.  The next search begins
\* behind the bytes searched before, so this needs an end mark that two reads of
\* the socket cut in two to be found by the second one.
NothingLeftUnlessLost == ~searching /\ ~lost => NothingLeft

(***************************************************************************)
(* What the tokenizer promises, defined from the bytes alone: the end      *)
(* marks of a stream cut it into packets, which are delivered in order.    *)
(***************************************************************************)
\* Where the end marks of a stream begin, and behind which positions the packets
\* begin that begin before p: its start and the ends of the end marks before p.
Marks(stream) == {p \in 0..Len(stream) : EofAt(stream, p)}

Previous(stream, p) == {q + Size : q \in {r \in Marks(stream) : r < p}} \cup {0}

\* The packet that the end mark at p ends.
PacketAt(stream, p) ==
  LET start == CHOOSE q \in Previous(stream, p) : \A r \in Previous(stream, p) : r <= q
  IN  SubSeq(stream, start + 1, p)

\* The bytes of the stream behind its last end mark.
Unfinished(stream) ==
  LET starts == Previous(stream, Len(stream))
      start == CHOOSE q \in starts : \A r \in starts : r <= q
  IN  SubSeq(stream, start + 1, Len(stream))

NonEmptyMarks(stream) == {p \in Marks(stream) : PacketAt(stream, p) # << >>}

\* As long as nothing has been thrown away, put delivers, however the network cut
\* the stream into chunks, exactly the stream's packets, in order and each cut off
\* at VOICE_DATA_SIZE; and ownBuffer holds exactly the unfinished one.
PacketsExact ==
  ~searching /\ ~lost =>
    /\ ownBuffer = Unfinished(received)
    /\ \E order \in [1..Len(delivered) -> NonEmptyMarks(received)] :
         /\ \A m, n \in DOMAIN order : m < n => order[m] < order[n]
         /\ \A p \in NonEmptyMarks(received) : \E n \in DOMAIN order : order[n] = p
         /\ \A n \in DOMAIN order : delivered[n] = InBuffer(PacketAt(received, order[n]))

\* Bytes are thrown away only while a packet is unfinished that, with the chunk
\* that arrives, is longer than ownBuffer: shorter packets are never lost.
LostOnlyWhenTooLong ==
  [][~lost /\ lost' =>
       \E bytes \in Chunk : /\ received' = received \o bytes
                            /\ Len(Unfinished(received)) + Len(bytes) > CAPACITY]_vars

-----------------------------------------------------------------------------
(***************************************************************************)
(* The tokenizer implements PacketStream: its search position, and where   *)
(* the next search begins, are its own affair.                             *)
(***************************************************************************)
Stream == INSTANCE PacketStream WITH rest <- ownBuffer, packets <- ownBufferQueue

\* put, get and flush, one byte at a time and with a search that resumes where the
\* last one ended, do what a tokenizer promises that always cuts at the first end
\* mark; and after a loss they still cut at end marks only.
Tokenizes == Stream!Spec
=============================================================================
