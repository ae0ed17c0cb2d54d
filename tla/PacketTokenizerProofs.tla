----------------------- MODULE PacketTokenizerProofs -----------------------
(***************************************************************************)
(* No complete packet is left unfound, for every end mark, every size of   *)
(* the buffers and every way the network cuts the stream into chunks, as   *)
(* long as no byte has been thrown away.                                   *)
(***************************************************************************)
EXTENDS PacketTokenizer, TLAPS

\* The bytes before p hold no beginning of an end mark.
NoneBefore(p) == \A q \in 0..p : q < p => ~EofAt(ownBuffer, q)

\* A search has found nothing before its position, and begins no further behind
\* than an end mark whose last byte is still missing can begin.
Position(p) == p \in Nat /\ (p = 0 \/ p + Size <= Len(ownBuffer) + 1)

SearchInv ==
  ~lost => IF searching THEN Position(i) /\ NoneBefore(i)
                        ELSE Position(prevPosition) /\ NothingLeft

Inv == TypeOK /\ SearchInv

LEMMA SizeIsNat == Size \in Nat /\ Size >= 1
BY EofAssumption DEF Size

LEMMA EmptyTypes == /\ << >> \in Seq(Byte) /\ Len(<< >>) = 0
                    /\ << >> \in Seq(Seq(Byte))
<1>1. \A S : << >> \in Seq(S)
  OBVIOUS
<1>2. QED
  BY <1>1

LEMMA InitInv == Init => Inv
<1> SUFFICES ASSUME Init PROVE Inv
  OBVIOUS
<1>1. TypeOK
  <2>1. ownBuffer \in Seq(Byte) /\ Len(ownBuffer) <= CAPACITY
    BY EofAssumption, EmptyTypes DEF Init
  <2>2. ownBufferQueue \in Seq(Seq(Byte)) /\ delivered \in Seq(Seq(Byte))
    BY EmptyTypes DEF Init
  <2>3. received \in Seq(Byte)
    BY EmptyTypes DEF Init
  <2>4. QED
    BY <2>1, <2>2, <2>3 DEF Init, TypeOK
<1>2. NothingLeft
  BY SizeIsNat DEF Init, NothingLeft, EofAt
<1>3. QED
  BY <1>1, <1>2 DEF Init, Inv, SearchInv, Position

LEMMA OfferType ==
  ASSUME NEW queue \in Seq(Seq(Byte)), NEW packet \in Seq(Byte)
  PROVE  Offer(queue, packet) \in Seq(Seq(Byte))
<1>1. InBuffer(packet) \in Seq(Byte)
  BY EofAssumption DEF InBuffer
<1>2. QED
  BY <1>1 DEF Offer

LEMMA CopyInv ==
  ASSUME Inv, NEW bytes \in Chunk, Copy(bytes)
  PROVE  Inv'
<1>0. /\ bytes \in Seq(Byte) /\ CAPACITY \in Nat
      /\ TypeOK /\ SearchInv /\ ~searching
      /\ Size \in Nat /\ Size >= 1
  BY EofAssumption, SizeIsNat DEF Inv, Copy
<1> DEFINE room == CAPACITY - Len(ownBuffer)
            taken == IF Len(bytes) > room THEN SubSeq(bytes, 1, room) ELSE bytes
<1>a. ownBuffer \in Seq(Byte) /\ Len(ownBuffer) \in Nat /\ room \in Nat /\ Len(bytes) \in Nat
  BY <1>0 DEF TypeOK
<1>b. taken \in Seq(Byte) /\ Len(taken) <= room
  <2>1. CASE Len(bytes) > room
    <3>1. /\ SubSeq(bytes, 1, room) \in Seq(Byte)
          /\ Len(SubSeq(bytes, 1, room)) = room
      BY <1>0, <1>a, <2>1
    <3>2. QED
      BY <1>a, <2>1, <3>1
  <2>2. CASE ~(Len(bytes) > room)
    BY <1>0, <1>a, <2>2
  <2>3. QED
    BY <2>1, <2>2
<1>c. ownBuffer' = ownBuffer \o taken
  BY DEF Copy
<1> HIDE DEF taken
<1>1. PICK more \in Seq(Byte) : /\ ownBuffer' = ownBuffer \o more
                                /\ Len(more) <= CAPACITY - Len(ownBuffer)
  BY <1>b, <1>c
<1>2. TypeOK'
  BY <1>0, <1>1 DEF TypeOK, Copy
<1>3. ASSUME ~lost' PROVE Position(i)' /\ NoneBefore(i)'
  <2>1. ~lost
    BY <1>3 DEF Copy
  <2>2. Position(prevPosition) /\ NothingLeft
    BY <1>0, <2>1 DEF SearchInv
  <2>3. i' = prevPosition
    BY DEF Copy
  <2>4. Position(i)'
    BY <1>0, <1>1, <2>2, <2>3 DEF Position, TypeOK, Size
  <2>5. ASSUME NEW q \in Nat, q < prevPosition PROVE ~EofAt(ownBuffer', q)
    <3>1. q + Size <= Len(ownBuffer)
      BY <1>0, <2>2, <2>5 DEF Position, TypeOK
    <3>2. ~EofAt(ownBuffer, q)
      BY <1>0, <2>2, <3>1 DEF NothingLeft, TypeOK
    <3>3. PICK k \in 1..Size : ownBuffer[q + k] # EOF_VALUE[k]
      BY <3>1, <3>2 DEF EofAt
    <3>4. ownBuffer'[q + k] = ownBuffer[q + k]
      BY <1>0, <1>1, <3>1 DEF TypeOK
    <3>5. QED
      BY <3>3, <3>4 DEF EofAt
  <2>6. NoneBefore(i)'
    BY <2>2, <2>3, <2>5 DEF NoneBefore, Position, EofAt, Size
  <2>7. QED
    BY <2>4, <2>6
<1>4. QED
  BY <1>2, <1>3 DEF Inv, SearchInv, Copy

LEMMA FindInv ==
  ASSUME Inv, Find
  PROVE  Inv'
<1>0. TypeOK /\ Size \in Nat /\ Size >= 1 /\ CAPACITY \in Nat /\ i \in Nat
  BY EofAssumption, SizeIsNat DEF Inv, TypeOK
<1>1. i + Size <= Len(ownBuffer)
  BY DEF Find, EofAt
<1>2. /\ SubSeq(ownBuffer, 1, i) \in Seq(Byte)
      /\ SubSeq(ownBuffer, i + Size + 1, Len(ownBuffer)) \in Seq(Byte)
      /\ Len(SubSeq(ownBuffer, i + Size + 1, Len(ownBuffer))) <= CAPACITY
  BY <1>0, <1>1 DEF TypeOK
<1>3. TypeOK'
  BY <1>0, <1>2, OfferType DEF TypeOK, Find
<1>4. (Position(i) /\ NoneBefore(i))'
  BY DEF Position, NoneBefore, Find
<1>5. QED
  BY <1>3, <1>4 DEF Inv, SearchInv, Find

LEMMA AdvanceInv ==
  ASSUME Inv, Advance
  PROVE  Inv'
<1>0. TypeOK /\ Size \in Nat /\ i \in Nat /\ Len(ownBuffer) \in Nat
  BY SizeIsNat DEF Inv, TypeOK
<1>1. TypeOK'
  BY <1>0 DEF TypeOK, Advance, history
<1>2. ASSUME ~lost PROVE (Position(i) /\ NoneBefore(i))'
  <2>1. NoneBefore(i)
    BY <1>2 DEF Inv, SearchInv, Advance
  <2>2. \A q \in 0..i : ~EofAt(ownBuffer, q)
    BY <1>0, <2>1 DEF NoneBefore, Advance
  <2>3. /\ i' = i + 1 /\ ownBuffer' = ownBuffer
        /\ i + Size <= Len(ownBuffer)
    BY DEF Advance
  <2>4. Position(i)'
    BY <1>0, <2>3 DEF Position, Size
  <2>5. ASSUME NEW q \in 0..i', q < i' PROVE ~EofAt(ownBuffer', q)
    BY <1>0, <2>2, <2>3, <2>5
  <2>6. QED
    BY <2>4, <2>5 DEF NoneBefore, EofAt, Size
<1>3. QED
  BY <1>1, <1>2 DEF Inv, SearchInv, Advance, history

LEMMA ReturnInv ==
  ASSUME Inv, Return
  PROVE  Inv'
<1>0. TypeOK /\ Size \in Nat /\ i \in Nat /\ Len(ownBuffer) \in Nat
  BY SizeIsNat DEF Inv, TypeOK
<1>1. TypeOK'
  BY <1>0 DEF TypeOK, Return, history
<1>2. ASSUME ~lost PROVE Position(i) /\ NothingLeft
  <2>1. NoneBefore(i) /\ Position(i)
    BY <1>2 DEF Inv, SearchInv, Return
  <2>2. \A p \in Nat : p >= i => ~EofAt(ownBuffer, p)
    BY <1>0 DEF EofAt, Return
  <2>3. QED
    BY <1>0, <2>1, <2>2 DEF NoneBefore, NothingLeft
<1>3. QED
  BY <1>1, <1>2 DEF Inv, SearchInv, Position, NothingLeft, EofAt, Return, history

LEMMA NextInv == Inv /\ [Next]_vars => Inv'
<1> SUFFICES ASSUME Inv, [Next]_vars PROVE Inv'
  OBVIOUS
<1>0. TypeOK /\ CAPACITY \in Nat /\ Size \in Nat /\ Size >= 1
  BY EofAssumption, SizeIsNat DEF Inv
<1>1. ASSUME NEW bytes \in Chunk, Overflow(bytes) PROVE Inv'
  <2>1. bytes \in Seq(Byte)
    BY EofAssumption
  <2>2. QED
    BY <1>0, <1>1, <2>1 DEF Inv, TypeOK, SearchInv, Overflow
<1>2. ASSUME NEW bytes \in Chunk, Copy(bytes) PROVE Inv'
  BY <1>2, CopyInv
<1>3. CASE Find
  BY <1>3, FindInv
<1>4. CASE Advance
  BY <1>4, AdvanceInv
<1>5. CASE Return
  BY <1>5, ReturnInv
<1>6. CASE get
  <2>1. Tail(ownBufferQueue) \in Seq(Seq(Byte))
    BY <1>0, <1>6 DEF TypeOK, get
  <2>2. QED
    BY <1>0, <1>6, <2>1 DEF Inv, TypeOK, SearchInv, Position, NothingLeft, EofAt, Size,
       NoneBefore, get, history
<1>7. CASE flush
  <2>1. NothingLeft'
    BY <1>0, <1>7 DEF NothingLeft, EofAt, flush, Size
  <2>2. TypeOK'
    <3>1. ownBuffer' \in Seq(Byte) /\ Len(ownBuffer') <= CAPACITY
      BY <1>0, <1>7, EmptyTypes DEF flush
    <3>2. ownBufferQueue' \in Seq(Seq(Byte)) /\ delivered' \in Seq(Seq(Byte))
      BY <1>7, EmptyTypes DEF flush
    <3>3. received' \in Seq(Byte)
      BY <1>7, EmptyTypes DEF flush
    <3>4. QED
      BY <1>0, <1>7, <3>1, <3>2, <3>3 DEF TypeOK, flush
  <2>3. SearchInv'
    <3>1. prevPosition' = 0 /\ searching' = FALSE
      BY <1>0, <1>7 DEF flush, TypeOK
    <3>2. QED
      BY <2>1, <3>1 DEF SearchInv, Position
  <2>4. QED
    BY <2>2, <2>3 DEF Inv
<1>8. CASE UNCHANGED vars
  BY <1>8 DEF Inv, TypeOK, SearchInv, Position, NothingLeft, EofAt, Size, NoneBefore, vars
<1>9. QED
  BY <1>1, <1>2, <1>3, <1>4, <1>5, <1>6, <1>7, <1>8 DEF Next

\* Whatever the network makes of the stream, a packet that is complete in
\* ownBuffer has been queued when put returns, unless bytes were thrown away.
THEOREM PacketsFound == Spec => []NothingLeftUnlessLost
<1>1. Inv => NothingLeftUnlessLost
  BY DEF Inv, SearchInv, NothingLeftUnlessLost
<1>2. QED
  BY <1>1, InitInv, NextInv, PTL DEF Spec

\* However much is put, ownBuffer never holds more than its capacity, and positions and
\* packets keep their types.
THEOREM TokenizerTyped == Spec => []TypeOK
<1>1. Inv => TypeOK
  BY DEF Inv
<1>2. QED
  BY <1>1, InitInv, NextInv, PTL DEF Spec

(***************************************************************************)
(* The packets delivered are those of the stream.                          *)
(***************************************************************************)
\* The packet that ends at p begins at start.
IsStart(b, start, p) ==
  /\ start = 0 \/ \E q \in Marks(b) : start = q + Size
  /\ start <= p
  /\ \A q \in Marks(b) : q < p => q + Size <= start

\* The bytes of the stream behind base are in ownBuffer, and the n-th packet that
\* was found is the one that ends at order[n].
Cuts(base, order) ==
  /\ base = 0 \/ \E p \in Marks(received) : base = p + Size
  /\ Len(ownBuffer) = Len(received) - base
  /\ \A k \in 1..Len(ownBuffer) : ownBuffer[k] = received[base + k]
  /\ \A p \in Marks(received) :
       p + Size <= base => \E start \in 0..p : IsStart(received, start, p)
  /\ \A m, n \in 1..Len(delivered) : m < n => order[m] < order[n]
  /\ \A p \in NonEmptyMarks(received) :
       p + Size <= base => \E n \in 1..Len(delivered) : order[n] = p
  /\ \A n \in 1..Len(delivered) :
       /\ order[n] + Size <= base
       /\ delivered[n] = InBuffer(PacketAt(received, order[n]))

CutInv ==
  ~lost => \E base \in 0..Len(received),
              order \in [1..Len(delivered) -> NonEmptyMarks(received)] : Cuts(base, order)

LEMMA NoOverlap ==
  ASSUME NEW b, NEW p \in Nat, NEW q \in Nat, EofAt(b, p), EofAt(b, q), p < q
  PROVE  p + Size <= q
<1> SUFFICES ASSUME q < p + Size  PROVE FALSE
  BY SizeIsNat
<1>1. q - p \in 1..(Size - 1)
  BY SizeIsNat
<1>2. PICK k \in 1..(Size - (q - p)) : EOF_VALUE[k + (q - p)] # EOF_VALUE[k]
  BY <1>1, ShiftAssumption
<1>3. b[q + k] = EOF_VALUE[k]
  BY <1>1, SizeIsNat DEF EofAt
<1>4. b[p + (k + (q - p))] = EOF_VALUE[k + (q - p)]
  BY <1>1, SizeIsNat DEF EofAt
<1>5. p + (k + (q - p)) = q + k
  BY <1>1, SizeIsNat
<1>6. QED
  BY <1>2, <1>3, <1>4, <1>5

LEMMA Greatest ==
  ASSUME NEW S \in SUBSET Nat, NEW m \in S, \A r \in S : r <= m
  PROVE  (CHOOSE q \in S : \A r \in S : r <= q) = m
<1>1. \A q \in S : (\A r \in S : r <= q) => q = m
  OBVIOUS
<1>2. QED
  BY <1>1

\* What Unfinished and PacketAt choose.
LEMMA StartChosen ==
  ASSUME NEW b \in Seq(Byte), NEW p \in Nat, NEW start \in Nat, IsStart(b, start, p),
         p \in Marks(b) \/ p = Len(b)
  PROVE  (CHOOSE q \in Previous(b, p) : \A r \in Previous(b, p) : r <= q) = start
<1>1. Previous(b, p) \in SUBSET Nat
  BY SizeIsNat DEF Previous, Marks
<1>2. start \in Previous(b, p)
  BY SizeIsNat DEF Previous, Marks, IsStart
<1>3. \A r \in Previous(b, p) : r <= start
  BY DEF Previous, IsStart
<1>4. QED
  BY <1>1, <1>2, <1>3, Greatest

LEMMA PacketIs ==
  ASSUME NEW b \in Seq(Byte), NEW p \in Marks(b), NEW start \in Nat, IsStart(b, start, p)
  PROVE  PacketAt(b, p) = SubSeq(b, start + 1, p)
<1>1. p \in Nat
  BY DEF Marks
<1>2. QED
  BY <1>1, StartChosen DEF PacketAt

LEMMA MarkStays ==
  ASSUME NEW b \in Seq(Byte), NEW more \in Seq(Byte), NEW p \in Nat, p + Size <= Len(b)
  PROVE  p \in Marks(b \o more) <=> p \in Marks(b)
<1>1. \A k \in 1..Size : (b \o more)[p + k] = b[p + k]
  BY SizeIsNat
<1>2. Len(b \o more) = Len(b) + Len(more)
  OBVIOUS
<1>3. EofAt(b \o more, p) <=> EofAt(b, p)
  BY <1>1, <1>2, SizeIsNat DEF EofAt
<1>4. QED
  BY <1>2, <1>3, SizeIsNat DEF Marks

LEMMA PacketStays ==
  ASSUME NEW b \in Seq(Byte), NEW more \in Seq(Byte), NEW p \in Marks(b),
         NEW start \in Nat, IsStart(b, start, p)
  PROVE  /\ p \in Marks(b \o more) /\ IsStart(b \o more, start, p)
         /\ PacketAt(b \o more, p) = PacketAt(b, p)
<1>1. p \in 0..Len(b) /\ p + Size <= Len(b)
  BY DEF Marks, EofAt
<1>2. \A q \in Nat : q <= p => (q \in Marks(b \o more) <=> q \in Marks(b))
  BY <1>1, MarkStays, SizeIsNat
<1>3. Marks(b \o more) \subseteq Nat /\ Marks(b) \subseteq Nat
  BY DEF Marks
<1>4. p \in Marks(b \o more) /\ IsStart(b \o more, start, p)
  BY <1>1, <1>2, <1>3, SizeIsNat DEF IsStart
<1>5. SubSeq(b \o more, start + 1, p) = SubSeq(b, start + 1, p)
  BY <1>1, SizeIsNat DEF IsStart
<1>6. b \o more \in Seq(Byte)
  OBVIOUS
<1>7. QED
  BY <1>4, <1>5, <1>6, PacketIs

\* What holds of the marks of the stream, given where it is cut.
LEMMA MarksCut ==
  ASSUME Inv, NEW base \in 0..Len(received), NEW order, Cuts(base, order)
  PROVE  /\ \A q \in Marks(received) : q < base => q + Size <= base
         /\ \A q \in Nat : base + q \in Marks(received) <=> EofAt(ownBuffer, q)
<1>1. received \in Seq(Byte) /\ ownBuffer \in Seq(Byte) /\ Marks(received) \subseteq Nat
  BY DEF Inv, TypeOK, Marks
<1>2. ASSUME NEW q \in Marks(received), q < base  PROVE q + Size <= base
  <2>1. PICK p \in Marks(received) : base = p + Size
    BY <1>1, <1>2 DEF Cuts
  <2>2. EofAt(received, q) /\ EofAt(received, p) /\ q \in Nat /\ p \in Nat
    BY <1>1 DEF Marks
  <2>3. CASE p < q
    BY <1>2, <2>1, <2>2, <2>3, NoOverlap, SizeIsNat
  <2>4. CASE q <= p
    BY <2>1, <2>2, <2>4, SizeIsNat
  <2>5. QED
    BY <2>2, <2>3, <2>4
<1>3. ASSUME NEW q \in Nat  PROVE base + q \in Marks(received) <=> EofAt(ownBuffer, q)
  <2>1. base + q + Size <= Len(received) <=> q + Size <= Len(ownBuffer)
    BY <1>1, SizeIsNat DEF Cuts
  <2>2. ASSUME q + Size <= Len(ownBuffer)
        PROVE  \A k \in 1..Size : received[base + q + k] = ownBuffer[q + k]
    BY <1>1, <2>2, SizeIsNat DEF Cuts
  <2>3. EofAt(received, base + q) <=> EofAt(ownBuffer, q)
    BY <2>1, <2>2 DEF EofAt
  <2>4. EofAt(received, base + q) => base + q \in 0..Len(received)
    BY <1>1, SizeIsNat DEF EofAt
  <2>5. QED
    BY <2>3, <2>4 DEF Marks
<1>4. QED
  BY <1>2, <1>3

LEMMA ConcatLength ==
  ASSUME NEW b \in Seq(Byte), NEW more \in Seq(Byte)
  PROVE  Len(b \o more) = Len(b) + Len(more)
OBVIOUS

LEMMA SuffixGrows ==
  ASSUME NEW a \in Seq(Byte), NEW b \in Seq(Byte), NEW more \in Seq(Byte),
         NEW base \in 0..Len(a), Len(b) = Len(a) - base,
         \A k \in 1..Len(b) : b[k] = a[base + k]
  PROVE  \A k \in 1..Len(b \o more) : (b \o more)[k] = (a \o more)[base + k]
<1> SUFFICES ASSUME NEW k \in 1..Len(b \o more)
             PROVE  (b \o more)[k] = (a \o more)[base + k]
  OBVIOUS
<1>a. Len(a) \in Nat /\ Len(b) \in Nat /\ Len(more) \in Nat
  OBVIOUS
<1>b. Len(b \o more) = Len(b) + Len(more)
  BY ConcatLength
<1>1. /\ Len(b \o more) = Len(b) + Len(more) /\ Len(a) \in Nat /\ Len(b) \in Nat
      /\ Len(more) \in Nat
  BY <1>a, <1>b
<1>2. CASE k <= Len(b)
  <2>1. (b \o more)[k] = b[k]
    BY <1>2
  <2>2. (a \o more)[base + k] = a[base + k]
    BY <1>1, <1>2
  <2>3. QED
    BY <1>1, <1>2, <2>1, <2>2
<1>3. CASE k > Len(b)
  <2>1. (b \o more)[k] = more[k - Len(b)]
    BY <1>1, <1>3
  <2>2. (a \o more)[base + k] = more[base + k - Len(a)]
    BY <1>1, <1>3
  <2>3. QED
    BY <1>1, <2>1, <2>2
<1>4. QED
  BY <1>1, <1>2, <1>3

LEMMA CopyCuts ==
  ASSUME Inv, CutInv, NEW bytes \in Chunk, Copy(bytes)
  PROVE  CutInv'
<1> SUFFICES ASSUME ~lost'  PROVE CutInv'
  BY DEF CutInv
<1>1. /\ bytes \in Seq(Byte) /\ received \in Seq(Byte) /\ ownBuffer \in Seq(Byte)
      /\ lost \in BOOLEAN
  BY EofAssumption DEF Inv, TypeOK
<1>2. /\ ~lost /\ ownBuffer' = ownBuffer \o bytes /\ received' = received \o bytes
      /\ delivered' = delivered
  BY <1>1 DEF Copy
<1>3. PICK base \in 0..Len(received),
           order \in [1..Len(delivered) -> NonEmptyMarks(received)] : Cuts(base, order)
  BY <1>2 DEF CutInv
<1>4. ASSUME NEW p \in Marks(received), p + Size <= base
      PROVE  /\ p \in Marks(received') /\ PacketAt(received', p) = PacketAt(received, p)
             /\ \E start \in 0..p : IsStart(received', start, p)
  BY <1>1, <1>2, <1>3, <1>4, PacketStays DEF Cuts
<1>5. ASSUME NEW p \in Marks(received'), p + Size <= base  PROVE p \in Marks(received)
  BY <1>1, <1>2, <1>5, MarkStays, SizeIsNat DEF Marks
<1>6. \A p : p + Size <= base => (p \in NonEmptyMarks(received') <=> p \in NonEmptyMarks(received))
  BY <1>4, <1>5 DEF NonEmptyMarks
<1>7. base \in 0..Len(received') /\ Len(received') = Len(received) + Len(bytes)
      /\ Len(ownBuffer') = Len(ownBuffer) + Len(bytes)
  BY <1>1, <1>2
<1>8. order \in [1..Len(delivered) -> NonEmptyMarks(received')]
  BY <1>3, <1>6 DEF Cuts
<1>9. \A k \in 1..Len(ownBuffer') : ownBuffer'[k] = received'[base + k]
  <2>1. /\ Len(ownBuffer) = Len(received) - base
        /\ \A k \in 1..Len(ownBuffer) : ownBuffer[k] = received[base + k]
    BY <1>3 DEF Cuts
  <2>2. QED
    BY <1>1, <1>2, <2>1, SuffixGrows
<1>10. base = 0 \/ \E p \in Marks(received') : base = p + Size
  BY <1>3, <1>4 DEF Cuts
<1>11. \A n \in 1..Len(delivered) :
         delivered[n] = InBuffer(PacketAt(received', order[n]))
  BY <1>3, <1>4 DEF Cuts, NonEmptyMarks
<1>a. Len(ownBuffer') = Len(received') - base
  <2>1. Len(ownBuffer) = Len(received) - base
    BY <1>3 DEF Cuts
  <2>2. base \in Nat /\ Len(received) \in Nat /\ Len(bytes) \in Nat
    BY <1>1
  <2>3. QED
    BY <1>7, <2>1, <2>2
<1>12. /\ \A m, n \in 1..Len(delivered) : m < n => order[m] < order[n]
       /\ \A n \in 1..Len(delivered) : order[n] + Size <= base
  BY <1>3 DEF Cuts
<1>13. \A p \in Marks(received') :
         p + Size <= base => \E start \in 0..p : IsStart(received', start, p)
  BY <1>4, <1>5
<1>14. \A p \in NonEmptyMarks(received') :
         p + Size <= base => \E n \in 1..Len(delivered) : order[n] = p
  BY <1>3, <1>6 DEF Cuts
<1>15. Cuts(base, order)'
  BY <1>2, <1>a, <1>9, <1>10, <1>11, <1>12, <1>13, <1>14 DEF Cuts
<1>16. QED
  BY <1>2, <1>7, <1>8, <1>15 DEF CutInv

LEMMA SamePart ==
  ASSUME NEW a \in Seq(Byte), NEW b \in Seq(Byte), NEW base \in Nat, NEW n \in Nat,
         base + n <= Len(a), n <= Len(b), \A k \in 1..n : b[k] = a[base + k]
  PROVE  SubSeq(a, base + 1, base + n) = SubSeq(b, 1, n)
OBVIOUS

LEMMA SuffixIs ==
  ASSUME NEW b \in Seq(Byte), NEW from \in Nat, from <= Len(b)
  PROVE  /\ Len(SubSeq(b, from + 1, Len(b))) = Len(b) - from
         /\ \A k \in 1..(Len(b) - from) : SubSeq(b, from + 1, Len(b))[k] = b[from + k]
OBVIOUS

LEMMA FindCuts ==
  ASSUME Inv, CutInv, Find
  PROVE  CutInv'
<1> SUFFICES ASSUME ~lost'  PROVE CutInv'
  BY DEF CutInv
<1>1. /\ received \in Seq(Byte) /\ ownBuffer \in Seq(Byte) /\ i \in Nat
      /\ delivered \in Seq(Seq(Byte)) /\ Marks(received) \subseteq Nat
  BY DEF Inv, TypeOK, Marks
<1>2. /\ ~lost /\ EofAt(ownBuffer, i) /\ received' = received
      /\ ownBuffer' = SubSeq(ownBuffer, i + Size + 1, Len(ownBuffer))
      /\ delivered' = Offer(delivered, SubSeq(ownBuffer, 1, i))
      /\ NoneBefore(i)
  BY DEF Find, Inv, SearchInv
<1>3. PICK base \in 0..Len(received),
           order \in [1..Len(delivered) -> NonEmptyMarks(received)] : Cuts(base, order)
  BY <1>2 DEF CutInv
<1>4. /\ \A q \in Marks(received) : q < base => q + Size <= base
      /\ \A q \in Nat : base + q \in Marks(received) <=> EofAt(ownBuffer, q)
  BY <1>3, MarksCut
<1>a. PICK mark \in Nat : mark = base + i
  BY <1>1
<1>b. PICK next \in Nat : next = mark + Size
  BY SizeIsNat
<1>5. /\ mark \in Marks(received)
      /\ i + Size <= Len(ownBuffer)
  BY <1>1, <1>2, <1>4, <1>a DEF EofAt
<1>6. ASSUME NEW q \in Marks(received), q < mark  PROVE q + Size <= base
  <2>1. CASE q < base
    BY <1>4, <2>1
  <2>2. CASE q >= base
    <3>1. q - base \in 0..i /\ q - base < i /\ q = base + (q - base)
      BY <1>1, <1>6, <2>2, <1>a
    <3>2. QED
      BY <1>2, <1>4, <3>1 DEF NoneBefore
  <2>3. QED
    BY <1>1, <2>1, <2>2
<1>7. IsStart(received, base, mark)
  BY <1>1, <1>3, <1>6, <1>a DEF IsStart, Cuts
<1>8. ASSUME NEW q \in Marks(received), q + Size <= next
      PROVE  q = mark \/ q + Size <= base
  BY <1>1, <1>6, <1>8, <1>b, SizeIsNat
<1>9. PacketAt(received, mark) = SubSeq(ownBuffer, 1, i)
  <2>1. PacketAt(received, mark) = SubSeq(received, base + 1, mark)
    BY <1>1, <1>5, <1>7, PacketIs
  <2>2. SubSeq(received, base + 1, mark) = SubSeq(ownBuffer, 1, i)
    <3>1. /\ base \in Nat /\ i <= Len(ownBuffer) /\ base + i <= Len(received)
          /\ \A k \in 1..i : ownBuffer[k] = received[base + k]
      BY <1>1, <1>3, <1>5, SizeIsNat DEF Cuts
    <3>2. QED
      BY <1>1, <1>a, <3>1, SamePart
  <2>3. QED
    BY <2>1, <2>2
<1>10. /\ next = base + i + Size /\ next <= Len(received)
       /\ Len(ownBuffer) = Len(received) - base /\ Len(received) \in Nat
  BY <1>1, <1>3, <1>5, <1>a, <1>b, SizeIsNat DEF Cuts
<1>11. /\ Len(ownBuffer') = Len(received) - next
       /\ \A k \in 1..Len(ownBuffer') : ownBuffer'[k] = ownBuffer[i + Size + k]
  <2>1. i + Size \in Nat /\ Len(ownBuffer) - (i + Size) = Len(received) - next
    BY <1>1, <1>10, SizeIsNat
  <2>2. QED
    BY <1>1, <1>2, <1>5, <2>1, SuffixIs
<1>12. \A k \in 1..Len(ownBuffer') : ownBuffer'[k] = received[next + k]
  <2>1. ASSUME NEW k \in 1..Len(ownBuffer')  PROVE ownBuffer'[k] = received[next + k]
    <3>1. i + Size + k \in 1..Len(ownBuffer) /\ base + (i + Size + k) = next + k
      BY <1>1, <1>10, <1>11, SizeIsNat
    <3>2. ownBuffer[i + Size + k] = received[base + (i + Size + k)]
      BY <1>3, <3>1 DEF Cuts
    <3>3. QED
      BY <1>11, <3>1, <3>2
  <2>2. QED
    BY <2>1
<1>13. \A p \in Marks(received) :
         p + Size <= next => \E start \in 0..p : IsStart(received, start, p)
  <2>1. base \in 0..mark
    BY <1>1, <1>a
  <2>2. QED
    BY <1>3, <1>7, <1>8, <2>1 DEF Cuts
<1>14. next = 0 \/ \E p \in Marks(received) : next = p + Size
  BY <1>5, <1>b
<1>15. base <= next
  BY <1>1, <1>10, SizeIsNat
<1>16. \A n \in 1..Len(delivered) :
         /\ order[n] \in Marks(received) /\ order[n] \in Nat
         /\ order[n] + Size <= base /\ order[n] < mark
         /\ delivered[n] = InBuffer(PacketAt(received, order[n]))
  <2>1. ASSUME NEW n \in 1..Len(delivered)
        PROVE  /\ order[n] \in Marks(received) /\ order[n] + Size <= base
               /\ delivered[n] = InBuffer(PacketAt(received, order[n]))
    BY <1>3 DEF Cuts, NonEmptyMarks
  <2>2. QED
    BY <1>1, <1>a, <2>1, SizeIsNat
<1>17. CASE i = 0
  <2>1. SubSeq(ownBuffer, 1, i) = << >>
    BY <1>1, <1>17
  <2>2. delivered' = delivered /\ mark \notin NonEmptyMarks(received)
    BY <1>2, <1>9, <2>1 DEF Offer, NonEmptyMarks
  <2>3. \A n \in 1..Len(delivered) : order[n] + Size <= next
    BY <1>15, <1>16, SizeIsNat
  <2>4. \A p \in NonEmptyMarks(received) : p + Size <= next => p + Size <= base
    BY <1>8, <2>2 DEF NonEmptyMarks
  <2>5. Cuts(next, order)'
    BY <1>2, <1>3, <1>11, <1>12, <1>13, <1>14, <1>16, <2>2, <2>3, <2>4 DEF Cuts
  <2>6. QED
    BY <1>2, <1>10, <2>2, <2>5 DEF CutInv
<1>18. CASE i # 0
  <2>1. SubSeq(ownBuffer, 1, i) # << >>
    <3>1. Len(SubSeq(ownBuffer, 1, i)) = i
      BY <1>1, <1>5, SizeIsNat
    <3>2. Len(<< >>) = 0
      OBVIOUS
    <3>3. QED
      BY <1>18, <3>1, <3>2
  <2>2. delivered' = Append(delivered, InBuffer(PacketAt(received, mark)))
    BY <1>2, <1>9, <2>1 DEF Offer
  <2>3. InBuffer(PacketAt(received, mark)) \in Seq(Byte)
    <3>1. SubSeq(ownBuffer, 1, i) \in Seq(Byte)
      BY <1>1, <1>5, SizeIsNat
    <3>2. QED
      BY <1>9, <3>1, EofAssumption DEF InBuffer
  <2>a. PICK N \in Nat : N = Len(delivered)
    BY <1>1
  <2>4. /\ Len(delivered') = N + 1
        /\ delivered'[N + 1] = InBuffer(PacketAt(received, mark))
        /\ \A n \in 1..N : delivered'[n] = delivered[n]
    BY <1>1, <2>2, <2>3, <2>a
  <2>5. mark \in NonEmptyMarks(received)
    BY <1>5, <1>9, <2>1 DEF NonEmptyMarks
  <2>6. PICK found \in [1..(N + 1) -> NonEmptyMarks(received)] :
          found[N + 1] = mark /\ \A n \in 1..N : found[n] = order[n]
    <3> DEFINE f == [n \in 1..(N + 1) |-> IF n = N + 1 THEN mark ELSE order[n]]
    <3>1. \A n \in 1..(N + 1) : n = N + 1 \/ n \in 1..Len(delivered)
      BY <2>a
    <3>2. f \in [1..(N + 1) -> NonEmptyMarks(received)]
      BY <1>3, <2>5, <3>1
    <3>3. f[N + 1] = mark /\ \A n \in 1..N : f[n] = order[n]
      BY <2>a
    <3>4. QED
      BY <3>2, <3>3
  <2>7. \A n \in 1..(N + 1) : n = N + 1 \/ n \in 1..N
    OBVIOUS
  <2>8. \A m, n \in 1..(N + 1) : m < n => found[m] < found[n]
    <3>1. ASSUME NEW m \in 1..(N + 1), NEW n \in 1..(N + 1), m < n
          PROVE  found[m] < found[n]
      <4>1. m \in 1..N /\ found[m] = order[m] /\ order[m] < mark
        BY <1>16, <2>a, <2>6, <3>1
      <4>2. CASE n = N + 1
        BY <2>6, <4>1, <4>2
      <4>3. CASE n \in 1..N
        BY <1>3, <2>a, <2>6, <3>1, <4>1, <4>3 DEF Cuts
      <4>4. QED
        BY <2>7, <4>2, <4>3
    <3>2. QED
      BY <3>1
  <2>9. \A p \in NonEmptyMarks(received) :
          p + Size <= next => \E n \in 1..(N + 1) : found[n] = p
    <3>1. ASSUME NEW p \in NonEmptyMarks(received), p + Size <= next
          PROVE  \E n \in 1..(N + 1) : found[n] = p
      <4>1. CASE p = mark
        BY <2>6, <4>1
      <4>2. CASE p + Size <= base
        <5>1. PICK n \in 1..N : order[n] = p
          BY <1>3, <2>a, <4>2 DEF Cuts
        <5>2. n \in 1..(N + 1) /\ found[n] = p
          BY <2>6, <5>1
        <5>3. QED
          BY <5>2
      <4>3. QED
        BY <1>8, <3>1, <4>1, <4>2 DEF NonEmptyMarks
    <3>2. QED
      BY <3>1
  <2>10. ASSUME NEW n \in 1..(N + 1)
         PROVE  /\ found[n] + Size <= next
                /\ delivered'[n] = InBuffer(PacketAt(received, found[n]))
    <3>1. CASE n = N + 1
      BY <1>b, <2>4, <2>6, <3>1, SizeIsNat
    <3>2. CASE n \in 1..N
      <4>1. found[n] = order[n] /\ n \in 1..Len(delivered)
        BY <2>6, <2>a, <3>2
      <4>2. QED
        <5>1. order[n] + Size <= next
          BY <1>15, <1>16, <4>1, SizeIsNat
        <5>2. QED
          BY <1>16, <2>4, <3>2, <4>1, <5>1
    <3>3. QED
      BY <2>7, <3>1, <3>2
  <2>11. Cuts(next, found)'
    BY <1>2, <1>11, <1>12, <1>13, <1>14, <2>4, <2>8, <2>9, <2>10 DEF Cuts
  <2>12. QED
    BY <1>2, <1>10, <2>4, <2>6, <2>11 DEF CutInv
<1>19. QED
  BY <1>17, <1>18

LEMMA NothingMarked == Marks(<< >>) = {}
BY SizeIsNat DEF Marks, EofAt

LEMMA InitCuts == Init => CutInv
<1> SUFFICES ASSUME Init  PROVE CutInv
  OBVIOUS
<1>1. ownBuffer = << >> /\ received = << >> /\ delivered = << >>
  BY DEF Init
<1>2. << >> \in [1..Len(delivered) -> NonEmptyMarks(received)] /\ 0 \in 0..Len(received)
  BY <1>1
<1>3. Cuts(0, << >>)
  BY <1>1, NothingMarked DEF Cuts, NonEmptyMarks
<1>4. QED
  BY <1>2, <1>3 DEF CutInv

LEMMA NextCuts ==
  ASSUME Inv, CutInv, [Next]_vars
  PROVE  CutInv'
<1>1. ASSUME NEW bytes \in Chunk, Overflow(bytes)  PROVE CutInv'
  BY <1>1 DEF Overflow, CutInv
<1>2. ASSUME NEW bytes \in Chunk, Copy(bytes)  PROVE CutInv'
  BY <1>2, CopyCuts
<1>3. CASE Find
  BY <1>3, FindCuts
<1>4. CASE Advance \/ Return \/ get \/ UNCHANGED vars
  <2>1. UNCHANGED <<ownBuffer, received, delivered, lost>>
    BY <1>4 DEF Advance, Return, get, vars, history
  <2>2. QED
    BY <2>1 DEF CutInv, Cuts
<1>5. CASE flush
  <2>1. ownBuffer' = << >> /\ received' = << >> /\ delivered' = << >>
    BY <1>5 DEF flush
  <2>2. << >> \in [1..Len(delivered') -> NonEmptyMarks(received')] /\ 0 \in 0..Len(received')
    BY <2>1
  <2>3. Cuts(0, << >>)'
    BY <2>1, NothingMarked DEF Cuts, NonEmptyMarks
  <2>4. QED
    BY <2>2, <2>3 DEF CutInv
<1>6. QED
  BY <1>1, <1>2, <1>3, <1>4, <1>5 DEF Next

LEMMA NothingLeftCut ==
  ASSUME Inv, ~searching, ~lost, NEW base \in 0..Len(received), NEW order, Cuts(base, order)
  PROVE  /\ \A q \in Marks(received) : q + Size <= base
         /\ Unfinished(received) = ownBuffer
<1>1. /\ received \in Seq(Byte) /\ ownBuffer \in Seq(Byte) /\ Marks(received) \subseteq Nat
      /\ NothingLeft /\ base \in Nat
  BY DEF Inv, SearchInv, TypeOK, Marks
<1>2. ASSUME NEW q \in Marks(received)  PROVE q + Size <= base
  <2>1. CASE q < base
    BY <2>1, MarksCut
  <2>2. CASE q >= base
    <3>1. q - base \in Nat /\ q = base + (q - base)
      BY <1>1, <2>2
    <3>2. EofAt(ownBuffer, q - base)
      BY <3>1, MarksCut
    <3>3. q - base \in 0..Len(ownBuffer)
      BY <1>1, <3>1, <3>2, SizeIsNat DEF EofAt
    <3>4. QED
      BY <1>1, <3>2, <3>3 DEF NothingLeft
  <2>3. QED
    BY <1>1, <2>1, <2>2
<1>3. IsStart(received, base, Len(received))
  BY <1>1, <1>2 DEF IsStart, Cuts
<1>4. Unfinished(received) = SubSeq(received, base + 1, Len(received))
  <2>1. Len(received) \in Nat
    BY <1>1
  <2>2. (CHOOSE q \in Previous(received, Len(received)) :
           \A r \in Previous(received, Len(received)) : r <= q) = base
    BY <1>1, <1>3, <2>1, StartChosen
  <2>3. QED
    BY <2>2 DEF Unfinished
<1>5. /\ Len(received) = base + Len(ownBuffer) /\ Len(ownBuffer) \in Nat
      /\ \A k \in 1..Len(ownBuffer) : ownBuffer[k] = received[base + k]
  BY <1>1 DEF Cuts
<1>6. SubSeq(received, base + 1, Len(received)) = SubSeq(ownBuffer, 1, Len(ownBuffer))
  BY <1>1, <1>5, SamePart
<1>7. SubSeq(ownBuffer, 1, Len(ownBuffer)) = ownBuffer
  BY <1>1
<1>8. QED
  BY <1>2, <1>4, <1>6, <1>7

LEMMA CutsExact == Inv /\ CutInv => PacketsExact
<1> SUFFICES ASSUME Inv, CutInv, ~searching, ~lost  PROVE PacketsExact
  BY DEF PacketsExact
<1>1. PICK base \in 0..Len(received),
           order \in [1..Len(delivered) -> NonEmptyMarks(received)] : Cuts(base, order)
  BY DEF CutInv
<1>2. /\ \A q \in Marks(received) : q + Size <= base
      /\ Unfinished(received) = ownBuffer
  BY <1>1, NothingLeftCut
<1>3. DOMAIN order = 1..Len(delivered)
  BY <1>1
<1>4. \A p \in NonEmptyMarks(received) : \E n \in DOMAIN order : order[n] = p
  BY <1>1, <1>2, <1>3 DEF Cuts, NonEmptyMarks
<1>5. /\ \A m, n \in DOMAIN order : m < n => order[m] < order[n]
      /\ \A n \in DOMAIN order : delivered[n] = InBuffer(PacketAt(received, order[n]))
  BY <1>1, <1>3 DEF Cuts
<1>6. QED
  BY <1>1, <1>2, <1>4, <1>5 DEF PacketsExact

\* Whatever chunks the network makes of the stream, get returns exactly the packets
\* that its sender ended, in their order, each cut off at the size of a Buffer, and
\* what is kept is exactly the packet that has not ended, as long as put has thrown
\* nothing away.
THEOREM StreamIsCutExactly == Spec => []PacketsExact
<1>1. Init => Inv /\ CutInv
  BY InitInv, InitCuts
<1>2. (Inv /\ CutInv) /\ [Next]_vars => (Inv /\ CutInv)'
  BY NextInv, NextCuts
<1>3. QED
  BY <1>1, <1>2, CutsExact, PTL DEF Spec

\* put begins to throw bytes away only when the packet that has not ended is, with
\* the chunk that arrives, longer than ownBuffer.
THEOREM ShortPacketsAreKept == Spec => LostOnlyWhenTooLong
<1>1. ASSUME Inv, CutInv, [Next]_vars, ~lost, lost'
      PROVE  \E bytes \in Chunk : /\ received' = received \o bytes
                                  /\ Len(Unfinished(received)) + Len(bytes) > CAPACITY
  <2>1. PICK bytes \in Chunk : Overflow(bytes) \/ Copy(bytes)
    BY <1>1 DEF Next, Find, Advance, Return, get, flush, vars, history
  <2>2. ~searching /\ received' = received \o bytes
    BY <2>1 DEF Overflow, Copy
  <2>3. Unfinished(received) = ownBuffer
    BY <1>1, <2>2, NothingLeftCut DEF CutInv
  <2>4. /\ bytes \in Seq(Byte) /\ bytes # << >> /\ ownBuffer \in Seq(Byte)
        /\ CAPACITY \in Nat
    BY <1>1, EofAssumption DEF Inv, TypeOK
  <2>5. Len(bytes) > 0
    BY <2>4
  <2>6. Len(ownBuffer) + Len(bytes) > CAPACITY
    <3>1. CASE Overflow(bytes)
      <4>1. Len(ownBuffer) = CAPACITY
        BY <3>1 DEF Overflow
      <4>2. QED
        BY <2>4, <2>5, <4>1
    <3>2. CASE Copy(bytes)
      <4>1. lost' = (lost \/ Len(bytes) > CAPACITY - Len(ownBuffer))
        BY <3>2 DEF Copy
      <4>2. Len(bytes) > CAPACITY - Len(ownBuffer)
        BY <1>1, <4>1
      <4>3. Len(ownBuffer) \in Nat /\ Len(bytes) \in Nat
        BY <2>4
      <4>4. QED
        BY <2>4, <4>2, <4>3
    <3>3. QED
      BY <2>1, <3>1, <3>2
  <2>7. QED
    BY <2>2, <2>3, <2>6
<1>2. Init => Inv /\ CutInv
  BY InitInv, InitCuts
<1>3. (Inv /\ CutInv) /\ [Next]_vars => (Inv /\ CutInv)'
  BY NextInv, NextCuts
<1>4. Inv /\ CutInv /\ [Next]_vars
      => [~lost /\ lost' =>
            \E bytes \in Chunk : /\ received' = received \o bytes
                                 /\ Len(Unfinished(received)) + Len(bytes) > CAPACITY]_vars
  BY <1>1
<1>5. QED
  BY <1>2, <1>3, <1>4, PTL DEF Spec, LostOnlyWhenTooLong

(***************************************************************************)
(* The tokenizer implements PacketStream.                                  *)
(***************************************************************************)
\* When put has returned, PacketStream may go on.
LEMMA IsReady == ASSUME Inv, ~searching PROVE Stream!Ready
BY DEF Inv, SearchInv, NothingLeft, Stream!Ready, Stream!EofAt, Stream!Size, EofAt, Size

LEMMA CopyIsReceiveOrLose ==
  ASSUME Inv, NEW bytes \in Chunk, Copy(bytes)
  PROVE  Stream!Receive(bytes) \/ Stream!Lose(bytes)
<1>0. /\ bytes \in Seq(Byte) /\ CAPACITY \in Nat /\ Len(ownBuffer) \in Nat
      /\ lost \in BOOLEAN /\ ~searching
  BY EofAssumption DEF Inv, TypeOK, Copy
<1>1. Stream!Ready
  BY <1>0, IsReady
<1>2. CASE Len(bytes) > CAPACITY - Len(ownBuffer)
  <2>1. ownBuffer' = ownBuffer \o SubSeq(bytes, 1, CAPACITY - Len(ownBuffer))
    BY <1>2 DEF Copy
  <2>2. lost' = TRUE /\ ownBufferQueue' = ownBufferQueue
    BY <1>2 DEF Copy
  <2>3. Len(ownBuffer) + Len(bytes) > CAPACITY
    BY <1>0, <1>2
  <2>4. QED
    BY <1>1, <2>1, <2>2, <2>3 DEF Stream!Lose
<1>3. CASE ~(Len(bytes) > CAPACITY - Len(ownBuffer))
  <2>1. ownBuffer' = ownBuffer \o bytes
    BY <1>3 DEF Copy
  <2>2. lost' = lost /\ ownBufferQueue' = ownBufferQueue
    BY <1>0, <1>3 DEF Copy
  <2>3. Len(ownBuffer) + Len(bytes) <= CAPACITY
    BY <1>0, <1>3
  <2>4. QED
    BY <1>1, <2>1, <2>2, <2>3 DEF Stream!Receive
<1>4. QED
  BY <1>2, <1>3

LEMMA FindIsCut == ASSUME Inv, Find PROVE Stream!Cut
<1>0. i \in Nat /\ Size \in Nat /\ Len(ownBuffer) \in Nat
  BY SizeIsNat DEF Inv, TypeOK
<1>1. EofAt(ownBuffer, i) /\ i \in 0..Len(ownBuffer)
  BY <1>0 DEF Find, EofAt
<1>2. lost \/ \A q \in 0..Len(ownBuffer) : q < i => ~EofAt(ownBuffer, q)
  BY <1>0 DEF Inv, SearchInv, NoneBefore, Find
<1>3. /\ ownBufferQueue' = Offer(ownBufferQueue, SubSeq(ownBuffer, 1, i))
      /\ ownBuffer' = SubSeq(ownBuffer, i + Size + 1, Len(ownBuffer))
      /\ lost' = lost
  BY DEF Find
<1>4. /\ Stream!Size = Size
      /\ \A b, p : Stream!EofAt(b, p) <=> EofAt(b, p)
      /\ \A q, p : Stream!Offer(q, p) = Offer(q, p)
  BY DEF Stream!Size, Size, Stream!EofAt, EofAt, Stream!Offer, Offer, Stream!InBuffer, InBuffer
<1>5. QED
  BY <1>1, <1>2, <1>3, <1>4 DEF Stream!Cut

LEMMA StepRefines == Inv /\ [Next]_vars => [Stream!Next]_(Stream!vars)
<1> SUFFICES ASSUME Inv, [Next]_vars PROVE [Stream!Next]_(Stream!vars)
  OBVIOUS
<1>1. ASSUME NEW bytes \in Chunk, Overflow(bytes) PROVE Stream!Lose(bytes)
  <2>1. bytes \in Seq(Byte) /\ bytes # << >>
    BY EofAssumption
  <2>2. CAPACITY \in Nat /\ Len(ownBuffer) = CAPACITY /\ Len(bytes) > 0
    BY <1>1, <2>1, EofAssumption DEF Overflow
  <2>3. Len(ownBuffer) + Len(bytes) > CAPACITY
    BY <2>1, <2>2
  <2>4. Stream!Ready
    BY <1>1, IsReady DEF Overflow
  <2>5. QED
    BY <1>1, <2>3, <2>4 DEF Overflow, Stream!Lose
<1>2. ASSUME NEW bytes \in Chunk, Copy(bytes)
      PROVE  Stream!Receive(bytes) \/ Stream!Lose(bytes)
  BY <1>2, CopyIsReceiveOrLose
<1>3. CASE Find
  BY <1>3, FindIsCut DEF Stream!Next
<1>4. CASE Advance \/ Return \/ UNCHANGED vars
  BY <1>4 DEF Advance, Return, history, vars, Stream!vars
<1>5. CASE get
  <2>1. Stream!Ready
    BY <1>5, IsReady DEF get
  <2>2. QED
    BY <1>5, <2>1 DEF get, history, Stream!Take, Stream!Next
<1>6. CASE flush
  <2>1. Stream!Ready
    BY <1>6, IsReady DEF flush
  <2>2. QED
    BY <1>6, <2>1 DEF flush, Stream!Flush, Stream!Next
<1>7. QED
  BY <1>1, <1>2, <1>3, <1>4, <1>5, <1>6 DEF Next, Stream!Next

\* put, get and flush implement the tokenizer that cuts the stream at its first
\* end mark, for every end mark, buffer and chunking.
THEOREM TokenizerImplementsStream == Spec => Tokenizes
<1>1. Init => Stream!Init
  BY DEF Init, Stream!Init
<1>2. QED
  BY <1>1, InitInv, NextInv, StepRefines, PTL DEF Spec, Tokenizes, Stream!Spec
=============================================================================
