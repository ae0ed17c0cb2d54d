------------------------- MODULE VoiceStreamProofs --------------------------
(***************************************************************************)
(* The types of VoiceStream, that packets wait in order and once, that the *)
(* clients lose none but what is too much, and that nothing of a former    *)
(* call is left to the next.  StreamInv is the inductive invariant.  Its   *)
(* parts are                                                               *)
(*                                                                         *)
(*   TypeInv       the types;                                              *)
(*   Order         the PriorityQueue's packets are in order, and what put  *)
(*                 has found still holds when it inserts;                  *)
(*   FormerGot     what the PriorityQueue has got is of this call;         *)
(*   FormerSeen    what the managers' lists remember is of this call;      *)
(*   Accepted      where a packet is that a manager's list has accepted;   *)
(*   Got           where a packet is that has come to put.                 *)
(*                                                                         *)
(* Each part has one lemma for each group of actions that can disturb it,  *)
(* with one step per action.                                               *)
(***************************************************************************)
EXTENDS VoiceStream, SequenceTheorems, FiniteSetTheorems, TLAPS

-----------------------------------------------------------------------------
(***************************************************************************)
(* Sequences of packets in the order of their numbers.                     *)
(***************************************************************************)
Sorted(s) == \A i, j \in DOMAIN s : i < j => s[i].seq < s[j].seq

\* The elements before number n, in a sorted sequence, are the first ones.
LEMMA PositionType ==
  ASSUME NEW s \in Seq(Packet), NEW n \in Nat
  PROVE  Position(n, s) \in 1..(Len(s) + 1)
<1> DEFINE S == {i \in DOMAIN s : s[i].seq < n}
<1>1. S \subseteq 1..Len(s) /\ Len(s) \in Nat
  OBVIOUS
<1>2. IsFiniteSet(1..Len(s)) /\ Cardinality(1..Len(s)) <= Len(s)
  <2>1. Len(s) \in Int /\ 1 \in Int
    BY <1>1
  <2>2. /\ IsFiniteSet(1..Len(s))
        /\ Cardinality(1..Len(s)) = IF 1 > Len(s) THEN 0 ELSE Len(s) - 1 + 1
    BY <2>1, FS_Interval
  <2>3. QED
    BY <1>1, <2>2
<1>3. IsFiniteSet(S) /\ Cardinality(S) <= Cardinality(1..Len(s))
  BY <1>1, <1>2, FS_Subset
<1>4. Cardinality(S) \in Nat /\ Cardinality(1..Len(s)) \in Nat
  BY <1>2, <1>3, FS_CardinalityType
<1>5. QED
  BY <1>1, <1>2, <1>3, <1>4 DEF Position

LEMMA PositionSplits ==
  ASSUME NEW s \in Seq(Packet), Sorted(s), NEW n \in Nat, NEW j \in 1..Len(s)
  PROVE  j < Position(n, s) <=> s[j].seq < n
<1> DEFINE S == {i \in DOMAIN s : s[i].seq < n}
           c == Cardinality(S)
<1>1. /\ S \subseteq 1..Len(s) /\ Len(s) \in Nat
      /\ \A i \in 1..Len(s) : s[i] \in Packet /\ s[i].seq \in Nat
  <2>1. S \subseteq 1..Len(s) /\ Len(s) \in Nat /\ \A i \in 1..Len(s) : s[i] \in Packet
    OBVIOUS
  <2>2. \A q \in Packet : q.seq \in Nat
    BY DEF Packet
  <2>3. QED
    BY <2>1, <2>2
<1>2. IsFiniteSet(1..Len(s))
  BY <1>1, FS_Interval
<1>3. IsFiniteSet(S)
  BY <1>1, <1>2, FS_Subset
<1>4. c \in Nat
  BY <1>3, FS_CardinalityType
<1>5. ASSUME NEW i \in S  PROVE i <= c
  <2>1. i \in 1..Len(s) /\ 1..i \subseteq S
    <3>1. i \in 1..Len(s) /\ s[i].seq < n
      BY <1>1, <1>5
    <3>2. ASSUME NEW k \in 1..i  PROVE k \in S
      <4>1. k \in 1..Len(s) /\ (k = i \/ s[k].seq < s[i].seq)
        BY <3>1, <3>2, <1>1 DEF Sorted
      <4>2. s[k].seq < n
        BY <4>1, <3>1, <1>1
      <4>3. QED
        BY <4>1, <4>2
    <3>3. QED
      BY <3>1, <3>2
  <2>2. Cardinality(1..i) = i
    BY <2>1, FS_Interval
  <2>3. Cardinality(1..i) <= c
    BY <2>1, <1>3, FS_Subset
  <2>4. QED
    BY <2>2, <2>3
<1>6. S \subseteq 1..c
  BY <1>1, <1>4, <1>5
<1>7. IsFiniteSet(1..c) /\ Cardinality(1..c) = c
  BY <1>4, FS_Interval
<1>8. S = 1..c
  BY <1>6, <1>7, FS_Subset
<1>9. j \in S <=> j <= c
  BY <1>8, <1>4
<1>10. QED
  BY <1>1, <1>4, <1>9 DEF Position

\* That r is s with packet p at place i.
Inserted(r, i, p, s) ==
  /\ r \in Seq(Packet) /\ Len(r) = Len(s) + 1
  /\ \A j \in 1..(Len(s) + 1) : r[j] = IF j < i THEN s[j] ELSE IF j = i THEN p ELSE s[j - 1]

LEMMA InsertAtProperties ==
  ASSUME NEW s \in Seq(Packet), NEW p \in Packet, NEW i \in 1..(Len(s) + 1)
  PROVE  Inserted(InsertAt(i, p, s), i, p, s)
<1> DEFINE a == SubSeq(s, 1, i - 1)
           b == SubSeq(s, i, Len(s))
<1>0. Len(s) \in Nat /\ i \in Int
  OBVIOUS
<1>1. a \in Seq(Packet) /\ Len(a) = i - 1 /\ \A j \in 1..(i - 1) : a[j] = s[j]
  BY <1>0, SubSeqProperties
<1>2. /\ b \in Seq(Packet) /\ Len(b) = Len(s) - i + 1
      /\ \A j \in 1..(Len(s) - i + 1) : b[j] = s[i + j - 1]
  BY <1>0, SubSeqProperties
<1> HIDE DEF a, b
<1>3. <<p>> \in Seq(Packet) /\ Len(<<p>>) = 1 /\ <<p>>[1] = p
  OBVIOUS
<1>4. /\ a \o <<p>> \in Seq(Packet) /\ Len(a \o <<p>>) = i
      /\ \A j \in 1..i : (a \o <<p>>)[j] = IF j < i THEN s[j] ELSE p
  BY <1>0, <1>1, <1>3, ConcatProperties
<1>5. /\ (a \o <<p>>) \o b \in Seq(Packet) /\ Len((a \o <<p>>) \o b) = Len(s) + 1
      /\ \A j \in 1..(Len(s) + 1) :
           ((a \o <<p>>) \o b)[j] = IF j <= i THEN (a \o <<p>>)[j] ELSE b[j - i]
  BY <1>0, <1>2, <1>4, ConcatProperties
<1>6. InsertAt(i, p, s) = (a \o <<p>>) \o b
  BY DEF InsertAt, a, b
<1>7. QED
  BY <1>0, <1>2, <1>4, <1>5, <1>6 DEF Inserted

LEMMA InsertAtIn ==
  ASSUME NEW s \in Seq(Packet), NEW p \in Packet, NEW i \in 1..(Len(s) + 1)
  PROVE  \A q : q \in In(InsertAt(i, p, s)) <=> q \in In(s) \/ q = p
<1>0. PICK r : r = InsertAt(i, p, s) /\ Inserted(r, i, p, s)
  BY InsertAtProperties
<1>1. /\ r \in Seq(Packet) /\ Len(r) = Len(s) + 1
      /\ \A j \in 1..(Len(s) + 1) :
           r[j] = IF j < i THEN s[j] ELSE IF j = i THEN p ELSE s[j - 1]
  BY <1>0 DEF Inserted
<1>2. Len(s) \in Nat /\ DOMAIN s = 1..Len(s) /\ DOMAIN r = 1..(Len(s) + 1)
  BY <1>1
<1>3. ASSUME NEW j \in 1..(Len(s) + 1)  PROVE r[j] \in In(s) \cup {p}
  <2>1. CASE j < i
    BY <1>1, <1>2, <2>1 DEF In
  <2>2. CASE j = i
    BY <1>1, <2>2
  <2>3. CASE j > i
    <3>1. j - 1 \in 1..Len(s) /\ r[j] = s[j - 1]
      BY <1>1, <1>2, <2>3
    <3>2. QED
      BY <1>2, <3>1 DEF In
  <2>4. QED
    BY <1>2, <2>1, <2>2, <2>3
<1>4. ASSUME NEW j \in 1..Len(s)  PROVE s[j] \in In(r)
  <2>1. CASE j < i
    <3>1. j \in 1..(Len(s) + 1) /\ r[j] = s[j]
      BY <1>1, <1>2, <2>1
    <3>2. QED
      BY <1>2, <3>1 DEF In
  <2>2. CASE j >= i
    <3>1. j + 1 \in 1..(Len(s) + 1) /\ r[j + 1] = s[j]
      BY <1>1, <1>2, <2>2
    <3>2. QED
      BY <1>2, <3>1 DEF In
  <2>3. QED
    BY <1>2, <2>1, <2>2
<1>5. p \in In(r)
  BY <1>1, <1>2 DEF In
<1>6. QED
  BY <1>0, <1>2, <1>3, <1>4, <1>5 DEF In

LEMMA TailProperties ==
  ASSUME NEW s \in Seq(Packet), s # << >>
  PROVE  /\ Tail(s) \in Seq(Packet) /\ Len(s) >= 1 /\ Len(Tail(s)) = Len(s) - 1
         /\ \A j \in 1..Len(Tail(s)) : Tail(s)[j] = s[j + 1]
         /\ Head(s) = s[1] /\ s[1] \in Packet
         /\ \A q : q \in In(s) <=> q \in In(Tail(s)) \/ q = Head(s)
<1>1. Len(s) \in Nat /\ Len(s) >= 1 /\ DOMAIN s = 1..Len(s)
  OBVIOUS
<1>2. /\ Tail(s) \in Seq(Packet) /\ Len(Tail(s)) = Len(s) - 1
      /\ \A j \in 1..Len(Tail(s)) : Tail(s)[j] = s[j + 1]
  BY <1>1
<1>3. Head(s) = s[1] /\ s[1] \in Packet
  BY <1>1
<1>4. DOMAIN Tail(s) = 1..(Len(s) - 1)
  BY <1>1, <1>2
<1>5. ASSUME NEW j \in 1..(Len(s) - 1)  PROVE Tail(s)[j] \in In(s)
  <2>1. j + 1 \in 1..Len(s) /\ Tail(s)[j] = s[j + 1]
    BY <1>1, <1>2
  <2>2. QED
    BY <1>1, <2>1 DEF In
<1>6. ASSUME NEW j \in 1..Len(s), j # 1  PROVE s[j] \in In(Tail(s))
  <2>1. j - 1 \in 1..(Len(s) - 1) /\ Tail(s)[j - 1] = s[j]
    BY <1>1, <1>2, <1>6
  <2>2. QED
    BY <1>4, <2>1 DEF In
<1>7. s[1] \in In(s)
  BY <1>1 DEF In
<1>8. QED
  BY <1>1, <1>2, <1>3, <1>4, <1>5, <1>6, <1>7 DEF In

LEMMA InType ==
  ASSUME NEW s \in Seq(Packet)
  PROVE  In(s) \subseteq Packet /\ \A i \in 1..Len(s) : s[i] \in In(s)
  BY DEF In

\* What is shortened loses its first packet, or nothing.
LEMMA Shortened ==
  ASSUME NEW s \in Seq(Packet), NEW size \in Nat, Len(s) <= size + 1
  PROVE  /\ Shorten(s, size) \in Seq(Packet) /\ Len(Shorten(s, size)) <= size
         /\ In(Shorten(s, size)) \subseteq In(s)
         /\ In(s) \subseteq In(Shorten(s, size)) \cup Excess(s, size)
         /\ Excess(s, size) \subseteq In(s)
<1>0. Len(s) \in Nat
  OBVIOUS
<1>1. CASE Len(s) > size
  <2>1. s # << >>
    BY <1>1
  <2>2. Shorten(s, size) = Tail(s) /\ Excess(s, size) = {Head(s)}
    BY <1>1 DEF Shorten, Excess
  <2>3. QED
    BY <1>0, <1>1, <2>1, <2>2, TailProperties
<1>2. CASE ~ (Len(s) > size)
  <2>1. Shorten(s, size) = s /\ Excess(s, size) = {}
    BY <1>2 DEF Shorten, Excess
  <2>2. QED
    BY <1>0, <1>2, <2>1
<1>3. QED
  BY <1>1, <1>2

LEMMA SortedTail ==
  ASSUME NEW s \in Seq(Packet), Sorted(s), s # << >>
  PROVE  Sorted(Tail(s)) /\ \A q \in In(Tail(s)) : Head(s).seq < q.seq
<1>1. /\ Tail(s) \in Seq(Packet) /\ Len(s) >= 1 /\ Len(Tail(s)) = Len(s) - 1 /\ Len(s) \in Nat
      /\ \A j \in 1..Len(Tail(s)) : Tail(s)[j] = s[j + 1]
      /\ Head(s) = s[1]
  BY TailProperties
<1>2. DOMAIN s = 1..Len(s) /\ DOMAIN Tail(s) = 1..(Len(s) - 1)
  BY <1>1
<1>3. \A j \in 1..(Len(s) - 1) : j + 1 \in 1..Len(s) /\ 1 < j + 1 /\ Tail(s)[j] = s[j + 1]
  BY <1>1
<1>4. ASSUME NEW i \in 1..(Len(s) - 1), NEW j \in 1..(Len(s) - 1), i < j
      PROVE  Tail(s)[i].seq < Tail(s)[j].seq
  <2>1. i + 1 < j + 1 /\ i + 1 \in DOMAIN s /\ j + 1 \in DOMAIN s
    BY <1>1, <1>2, <1>4
  <2>2. s[i + 1].seq < s[j + 1].seq
    BY <2>1 DEF Sorted
  <2>3. QED
    BY <1>3, <2>2
<1>5. ASSUME NEW j \in 1..(Len(s) - 1)  PROVE Head(s).seq < Tail(s)[j].seq
  <2>1. 1 \in DOMAIN s /\ j + 1 \in DOMAIN s /\ 1 < j + 1
    BY <1>1, <1>2
  <2>2. s[1].seq < s[j + 1].seq
    BY <2>1 DEF Sorted
  <2>3. QED
    BY <1>1, <1>3, <2>2
<1>6. Sorted(Tail(s))
  BY <1>2, <1>4 DEF Sorted
<1>7. \A q \in In(Tail(s)) : Head(s).seq < q.seq
  BY <1>2, <1>5 DEF In
<1>8. QED
  BY <1>6, <1>7

\* Inserting between the lower numbers and the higher ones keeps the order.
LEMMA SortedInsert ==
  ASSUME NEW s \in Seq(Packet), Sorted(s), NEW p \in Packet, NEW i \in 1..(Len(s) + 1),
         \A j \in 1..Len(s) : IF j < i THEN s[j].seq < p.seq ELSE p.seq < s[j].seq
  PROVE  Sorted(InsertAt(i, p, s))
<1>0. PICK r : r = InsertAt(i, p, s) /\ Inserted(r, i, p, s)
  BY InsertAtProperties
<1>1. /\ r \in Seq(Packet) /\ Len(r) = Len(s) + 1
      /\ \A j \in 1..(Len(s) + 1) :
           r[j] = IF j < i THEN s[j] ELSE IF j = i THEN p ELSE s[j - 1]
  BY <1>0 DEF Inserted
<1>2. Len(s) \in Nat /\ DOMAIN s = 1..Len(s) /\ DOMAIN r = 1..(Len(s) + 1)
  BY <1>1
<1>3. ASSUME NEW j \in 1..(Len(s) + 1), NEW k \in 1..(Len(s) + 1), j < k
      PROVE  r[j].seq < r[k].seq
  <2>1. CASE k < i
    <3>1. r[j] = s[j] /\ r[k] = s[k] /\ j \in DOMAIN s /\ k \in DOMAIN s
      BY <1>1, <1>2, <1>3, <2>1
    <3>2. QED
      BY <1>3, <3>1 DEF Sorted
  <2>2. CASE k = i
    <3>1. r[j] = s[j] /\ r[k] = p /\ j \in 1..Len(s) /\ j < i
      BY <1>1, <1>2, <1>3, <2>2
    <3>2. QED
      BY <3>1
  <2>3. CASE k > i /\ j < i
    <3>1. r[j] = s[j] /\ r[k] = s[k - 1] /\ j \in DOMAIN s /\ k - 1 \in DOMAIN s /\ j < k - 1
      BY <1>1, <1>2, <1>3, <2>3
    <3>2. QED
      BY <3>1 DEF Sorted
  <2>4. CASE k > i /\ j = i
    <3>1. r[j] = p /\ r[k] = s[k - 1] /\ k - 1 \in 1..Len(s) /\ ~ (k - 1 < i)
      BY <1>1, <1>2, <1>3, <2>4
    <3>2. QED
      BY <3>1
  <2>5. CASE j > i
    <3>1. /\ r[j] = s[j - 1] /\ r[k] = s[k - 1] /\ j - 1 < k - 1
          /\ j - 1 \in DOMAIN s /\ k - 1 \in DOMAIN s
      BY <1>1, <1>2, <1>3, <2>5
    <3>2. QED
      BY <3>1 DEF Sorted
  <2>6. QED
    BY <1>2, <1>3, <2>1, <2>2, <2>3, <2>4, <2>5
<1>4. QED
  BY <1>0, <1>2, <1>3 DEF Sorted

-----------------------------------------------------------------------------
\* The types, with the lists as sequences, and which packet is in hand.
SpeakerTypes ==
  /\ speaker \in InCall \cup {"idle", "ending"}
  /\ otherAESCrypto \in Nat /\ spoken \in Nat
  /\ encodeState \in BOOLEAN /\ seqNumber \in Nat

EncoderTypes ==
  /\ encoder \in [step : {"stopped", "encode", "encrypt", "put", "add"},
                  packet : Packet \cup {None}, to : Manager, index : Nat]
  /\ encoder.step \in {"put", "add"} => encoder.packet \in Packet
  /\ encoder.step = "add" => encoder.index >= 1

ManagerTypes ==
  /\ transmissionState \in [Manager -> BOOLEAN]
  /\ connected \in [Manager -> {"no", "yes", "clearing", "closing"}]
  /\ voiceOutputDataQueue \in [Manager -> Seq(Packet)]
  /\ \A m \in Manager : Len(voiceOutputDataQueue[m]) <= LIST_SIZE
  /\ polledHashMap \in [Manager -> SUBSET Packet]
  /\ network \in [Manager -> SUBSET Packet]
  /\ unsent \in [Manager -> SUBSET Packet]

ListenerTypes ==
  /\ listener \in InCall \cup {"idle", "ending", "stopping"}
  /\ myAESVoiceCrypto \in Nat
  /\ playState \in BOOLEAN /\ callback \in {"idle", "get"}

PutterTypes ==
  /\ putter \in [step : {"idle", "find", "insert"}, packet : Packet \cup {None},
                 next : Packet \cup {None}]
  /\ putter.step # "idle" => putter.packet \in Packet
  /\ putter.step = "idle" => putter.packet = None

QueueTypes ==
  /\ ownList \in Seq(Packet) /\ Len(ownList) <= QUEUE_SIZE
  /\ gotNumberMap \in SUBSET Packet
  /\ played \in SUBSET Packet /\ unplayed \in SUBSET Packet

OtherTypes ==
  /\ starting \subseteq {"speaker", "listener"} /\ crashed \subseteq {"speaker", "listener"}
  /\ arrived \in SUBSET Packet /\ left \in SUBSET Packet

TypeInv ==
  /\ SpeakerTypes /\ EncoderTypes /\ ManagerTypes /\ ListenerTypes /\ PutterTypes
  /\ QueueTypes /\ OtherTypes

LEMMA TypesHold == TypeInv => TypeOK
<1> SUFFICES ASSUME TypeInv  PROVE TypeOK
  OBVIOUS
<1>1. \A s \in Seq(Packet) : IsQueue(s)
  BY InType DEF IsQueue
<1>2. QED
  BY <1>1 DEF TypeInv, SpeakerTypes, EncoderTypes, ManagerTypes, ListenerTypes, PutterTypes,
     QueueTypes, OtherTypes, TypeOK

LEMMA EmptyIsQueue == << >> \in Seq(Packet) /\ Len(<< >>) = 0
  OBVIOUS

\* The packet is offered to the next manager, or the next one is encoded.
LEMMA FollowingType ==
  ASSUME EncoderTypes, encoder.step \in {"put", "add"}, encoder' = Following(encoder)
  PROVE  EncoderTypes'
<1>1. 0 \in Manager
  BY StreamAssumption DEF Manager
<1>2. QED
  BY <1>1 DEF EncoderTypes, Following

LEMMA PlaceType ==
  ASSUME QueueTypes, NEW next \in Packet \cup {None}
  PROVE  (IF next = None THEN Len(ownList) + 1 ELSE Position(next.seq, ownList))
           \in 1..(Len(ownList) + 1)
<1>1. Len(ownList) \in Nat /\ ownList \in Seq(Packet)
  BY DEF QueueTypes
<1>2. next # None => next.seq \in Nat
  BY DEF Packet
<1>3. CASE next = None
  BY <1>1, <1>3
<1>4. CASE next # None
  <2>1. Position(next.seq, ownList) \in 1..(Len(ownList) + 1)
    BY <1>1, <1>2, <1>4, PositionType
  <2>2. QED
    BY <1>4, <2>1
<1>5. QED
  BY <1>3, <1>4

\* Which states of a client count as being in a call, and whether its process runs.
USE DEF InCall, Speaks, Listens

LEMMA CallsTyped ==
  ASSUME TypeInv, Calls
  PROVE  TypeInv'
<1>1. ASSUME Answer  PROVE TypeInv'
  <2>1. SpeakerTypes' /\ EncoderTypes' /\ ManagerTypes' /\ PutterTypes' /\ QueueTypes'
    BY <1>1 DEF Answer, TypeInv, SpeakerTypes, EncoderTypes, ManagerTypes, PutterTypes,
       QueueTypes, speakerVars, encoderVars, listVars, sendVars, queueVars, playVars
  <2>2. ListenerTypes'
    BY <1>1 DEF Answer, TypeInv, ListenerTypes, speakerVars, encoderVars, listVars,
       sendVars, queueVars, playVars
  <2>3. OtherTypes'
    BY <1>1 DEF Answer, TypeInv, OtherTypes, speakerVars, encoderVars, listVars, sendVars,
       queueVars, playVars
  <2>4. QED
    BY <2>1, <2>2, <2>3 DEF TypeInv
<1>2. ASSUME Called  PROVE TypeInv'
  <2>1. EncoderTypes' /\ ManagerTypes' /\ ListenerTypes' /\ PutterTypes' /\ QueueTypes'
    BY <1>2 DEF Called, TypeInv, EncoderTypes, ManagerTypes, ListenerTypes, PutterTypes,
       QueueTypes, encoderVars, listVars, sendVars, listenerVars, queueVars, playVars
  <2>2. SpeakerTypes'
    BY <1>2 DEF Called, TypeInv, SpeakerTypes, encoderVars, listVars, sendVars,
       listenerVars, queueVars, playVars, ListenerTypes
  <2>3. OtherTypes'
    BY <1>2 DEF Called, TypeInv, OtherTypes, encoderVars, listVars, sendVars,
       listenerVars, queueVars, playVars
  <2>4. QED
    BY <2>1, <2>2, <2>3 DEF TypeInv
<1>3. ASSUME StartEncoding  PROVE TypeInv'
  <2>1. EncoderTypes' /\ ManagerTypes' /\ ListenerTypes' /\ PutterTypes' /\ QueueTypes'
    BY <1>3 DEF StartEncoding, TypeInv, EncoderTypes, ManagerTypes, ListenerTypes,
       PutterTypes, QueueTypes, encoderVars, listVars, sendVars, listenerVars, queueVars,
       playVars
  <2>2. SpeakerTypes'
    BY <1>3 DEF StartEncoding, TypeInv, SpeakerTypes, encoderVars, listVars, sendVars,
       listenerVars, queueVars, playVars
  <2>3. OtherTypes'
    BY <1>3 DEF StartEncoding, TypeInv, OtherTypes, encoderVars, listVars, sendVars,
       listenerVars, queueVars, playVars
  <2>4. QED
    BY <2>1, <2>2, <2>3 DEF TypeInv
<1>4. ASSUME StartPlaying  PROVE TypeInv'
  <2>1. SpeakerTypes' /\ EncoderTypes' /\ ManagerTypes' /\ PutterTypes' /\ QueueTypes'
    BY <1>4 DEF StartPlaying, TypeInv, SpeakerTypes, EncoderTypes, ManagerTypes,
       PutterTypes, QueueTypes, speakerVars, encoderVars, listVars, sendVars, queueVars,
       playVars
  <2>2. ListenerTypes'
    BY <1>4 DEF StartPlaying, TypeInv, ListenerTypes, speakerVars, encoderVars, listVars,
       sendVars, queueVars, playVars
  <2>3. OtherTypes'
    BY <1>4 DEF StartPlaying, TypeInv, OtherTypes, speakerVars, encoderVars, listVars,
       sendVars, queueVars, playVars
  <2>4. QED
    BY <2>1, <2>2, <2>3 DEF TypeInv
<1>5. ASSUME HangUp  PROVE TypeInv'
  <2>1. EncoderTypes' /\ ListenerTypes' /\ PutterTypes' /\ QueueTypes' /\ OtherTypes'
    BY <1>5 DEF HangUp, TypeInv, EncoderTypes, ListenerTypes, PutterTypes, QueueTypes,
       OtherTypes, encoderVars, listVars, listenerVars, queueVars, playVars
  <2>2. SpeakerTypes'
    BY <1>5 DEF HangUp, TypeInv, SpeakerTypes, encoderVars, listVars, listenerVars,
       queueVars, playVars
  <2>3. ManagerTypes'
    BY <1>5 DEF HangUp, TypeInv, ManagerTypes, encoderVars, listVars, listenerVars,
       queueVars, playVars
  <2>4. QED
    BY <2>1, <2>2, <2>3 DEF TypeInv
<1>6. ASSUME StopReading  PROVE TypeInv'
  <2>1. SpeakerTypes' /\ EncoderTypes' /\ ManagerTypes' /\ PutterTypes' /\ QueueTypes'
       /\ OtherTypes'
    BY <1>6 DEF StopReading, TypeInv, SpeakerTypes, EncoderTypes, ManagerTypes,
       PutterTypes, QueueTypes, OtherTypes, speakerVars, encoderVars, listVars, sendVars,
       queueVars, playVars
  <2>2. ListenerTypes'
    BY <1>6 DEF StopReading, TypeInv, ListenerTypes, speakerVars, encoderVars, listVars,
       sendVars, queueVars, playVars
  <2>3. QED
    BY <2>1, <2>2 DEF TypeInv
<1>7. ASSUME StopEncoding  PROVE TypeInv'
  <2>1. EncoderTypes' /\ ManagerTypes' /\ ListenerTypes' /\ PutterTypes' /\ QueueTypes'
       /\ OtherTypes'
    BY <1>7 DEF StopEncoding, TypeInv, EncoderTypes, ManagerTypes, ListenerTypes,
       PutterTypes, QueueTypes, OtherTypes, encoderVars, listVars, sendVars, listenerVars,
       queueVars, playVars
  <2>2. SpeakerTypes'
    BY <1>7 DEF StopEncoding, TypeInv, SpeakerTypes, encoderVars, listVars, sendVars,
       listenerVars, queueVars, playVars
  <2>3. QED
    BY <2>1, <2>2 DEF TypeInv
<1>8. ASSUME StopPlaying  PROVE TypeInv'
  <2>1. SpeakerTypes' /\ EncoderTypes' /\ ManagerTypes' /\ PutterTypes' /\ QueueTypes'
    BY <1>8 DEF StopPlaying, TypeInv, SpeakerTypes, EncoderTypes, ManagerTypes,
       PutterTypes, QueueTypes, speakerVars, encoderVars, listVars, sendVars, queueVars,
       playVars
  <2>2. ListenerTypes'
    BY <1>8 DEF StopPlaying, TypeInv, ListenerTypes, speakerVars, encoderVars, listVars,
       sendVars, queueVars, playVars
  <2>3. OtherTypes'
    BY <1>8 DEF StopPlaying, TypeInv, OtherTypes, speakerVars, encoderVars, listVars,
       sendVars, queueVars, playVars, QueueTypes
  <2>4. QED
    BY <2>1, <2>2, <2>3 DEF TypeInv
<1>9. ASSUME reset  PROVE TypeInv'
  <2>1. SpeakerTypes' /\ EncoderTypes' /\ ManagerTypes' /\ PutterTypes' /\ OtherTypes'
    BY <1>9 DEF reset, TypeInv, SpeakerTypes, EncoderTypes, ManagerTypes, PutterTypes,
       OtherTypes, speakerVars, encoderVars, listVars, sendVars
  <2>2. ListenerTypes'
    BY <1>9 DEF reset, TypeInv, ListenerTypes, speakerVars, encoderVars, listVars,
       sendVars
  <2>3. QueueTypes'
    BY <1>9, StreamAssumption, EmptyIsQueue DEF reset, TypeInv, QueueTypes, speakerVars,
       encoderVars, listVars, sendVars
  <2>4. QED
    BY <2>1, <2>2, <2>3 DEF TypeInv
<1>10. QED
  BY <1>1, <1>2, <1>3, <1>4, <1>5, <1>6, <1>7, <1>8, <1>9 DEF Calls

LEMMA EncoderTyped ==
  ASSUME TypeInv, Encoder
  PROVE  TypeInv'
<1>1. ASSUME BeginLoop  PROVE TypeInv'
  <2>1. ManagerTypes' /\ ListenerTypes' /\ PutterTypes' /\ QueueTypes' /\ OtherTypes'
    BY <1>1 DEF BeginLoop, TypeInv, ManagerTypes, ListenerTypes, PutterTypes, QueueTypes,
       OtherTypes, speakerVars, listVars, sendVars, listenerVars, queueVars, playVars
  <2>2. SpeakerTypes'
    BY <1>1 DEF BeginLoop, EncoderGoes, TypeInv, SpeakerTypes, speakerVars, listVars,
       sendVars, listenerVars, queueVars, playVars
  <2>3. EncoderTypes'
    BY <1>1 DEF BeginLoop, EncoderGoes, TypeInv, EncoderTypes, speakerVars, listVars,
       sendVars, listenerVars, queueVars, playVars
  <2>4. QED
    BY <2>1, <2>2, <2>3 DEF TypeInv
<1>2. ASSUME EndLoop  PROVE TypeInv'
  <2>1. SpeakerTypes' /\ ManagerTypes' /\ ListenerTypes' /\ PutterTypes' /\ QueueTypes'
       /\ OtherTypes'
    BY <1>2 DEF EndLoop, TypeInv, SpeakerTypes, ManagerTypes, ListenerTypes, PutterTypes,
       QueueTypes, OtherTypes, speakerVars, listVars, sendVars, listenerVars, queueVars,
       playVars
  <2>2. EncoderTypes'
    BY <1>2 DEF EndLoop, EncoderGoes, TypeInv, EncoderTypes, speakerVars, listVars,
       sendVars, listenerVars, queueVars, playVars
  <2>3. QED
    BY <2>1, <2>2 DEF TypeInv
<1>3. ASSUME Encode  PROVE TypeInv'
  <2>1. SpeakerTypes' /\ ManagerTypes' /\ ListenerTypes' /\ PutterTypes' /\ QueueTypes'
       /\ OtherTypes'
    BY <1>3 DEF Encode, TypeInv, SpeakerTypes, ManagerTypes, ListenerTypes, PutterTypes,
       QueueTypes, OtherTypes, speakerVars, listVars, sendVars, listenerVars, queueVars,
       playVars
  <2>2. EncoderTypes'
    BY <1>3 DEF Encode, EncoderGoes, TypeInv, EncoderTypes, speakerVars, listVars,
       sendVars, listenerVars, queueVars, playVars
  <2>3. QED
    BY <2>1, <2>2 DEF TypeInv
<1>4. ASSUME Encrypt  PROVE TypeInv'
  <2>1. ManagerTypes' /\ ListenerTypes' /\ PutterTypes' /\ QueueTypes'
    BY <1>4 DEF Encrypt, TypeInv, ManagerTypes, ListenerTypes, PutterTypes, QueueTypes,
       speakerVars, encoderVars, listVars, sendVars, listenerVars, queueVars, playVars
  <2>2. SpeakerTypes'
    BY <1>4 DEF Encrypt, EncoderGoes, TypeInv, SpeakerTypes, speakerVars, encoderVars,
       listVars, sendVars, listenerVars, queueVars, playVars
  <2>3. EncoderTypes'
    <3>1. [call |-> otherAESCrypto, seq |-> seqNumber] \in Packet
      BY DEF TypeInv, SpeakerTypes, Packet
    <3>2. QED
      BY <1>4, <3>1 DEF Encrypt, TypeInv, EncoderTypes, encoderVars
  <2>4. OtherTypes'
    BY <1>4 DEF Encrypt, EncoderGoes, TypeInv, OtherTypes, speakerVars, encoderVars,
       listVars, sendVars, listenerVars, queueVars, playVars
  <2>5. QED
    BY <2>1, <2>2, <2>3, <2>4 DEF TypeInv
<1>5. ASSUME Offer  PROVE TypeInv'
  <2>1. SpeakerTypes' /\ ManagerTypes' /\ ListenerTypes' /\ PutterTypes' /\ QueueTypes'
       /\ OtherTypes'
    BY <1>5 DEF Offer, TypeInv, SpeakerTypes, ManagerTypes, ListenerTypes, PutterTypes,
       QueueTypes, OtherTypes, speakerVars, listVars, sendVars, listenerVars, queueVars,
       playVars
  <2>2. EncoderTypes'
    <3>1. encoder.packet.seq \in Nat /\ encoder.to \in Manager
      BY <1>5 DEF Offer, TypeInv, EncoderTypes, Packet
    <3>2. Position(encoder.packet.seq, voiceOutputDataQueue[encoder.to]) \in Nat \ {0}
      <4>1. voiceOutputDataQueue[encoder.to] \in Seq(Packet)
        BY <3>1 DEF TypeInv, ManagerTypes
      <4>2. Position(encoder.packet.seq, voiceOutputDataQueue[encoder.to])
              \in 1..(Len(voiceOutputDataQueue[encoder.to]) + 1)
        BY <3>1, <4>1, PositionType
      <4>3. QED
        BY <4>2
    <3>3. PICK index \in Nat \ {0} :
            \/ encoder' = [encoder EXCEPT !.step = "add", !.index = index]
            \/ encoder' = Following(encoder)
      BY <1>5, <3>2 DEF Offer
    <3>4. CASE encoder' = [encoder EXCEPT !.step = "add", !.index = index]
      <4>1. /\ encoder \in [step : {"stopped", "encode", "encrypt", "put", "add"},
                            packet : Packet \cup {None}, to : Manager, index : Nat]
            /\ encoder.packet \in Packet
        BY <1>5 DEF Offer, TypeInv, EncoderTypes
      <4>2. index \in Nat /\ index >= 1
        BY <3>3
      <4>3. QED
        BY <3>4, <4>1, <4>2 DEF EncoderTypes
    <3>5. CASE encoder' = Following(encoder)
      <4>1. EncoderTypes /\ encoder.step \in {"put", "add"}
        BY <1>5 DEF Offer, TypeInv
      <4>2. QED
        BY <3>5, <4>1, FollowingType
    <3>6. QED
      BY <3>3, <3>4, <3>5
  <2>3. QED
    BY <2>1, <2>2 DEF TypeInv
<1>6. ASSUME Add  PROVE TypeInv'
  <2>1. SpeakerTypes' /\ ListenerTypes' /\ PutterTypes' /\ QueueTypes'
    BY <1>6 DEF Add, TypeInv, SpeakerTypes, ListenerTypes, PutterTypes, QueueTypes,
       speakerVars, listenerVars, queueVars, playVars
  <2>2. EncoderTypes'
    BY <1>6, FollowingType DEF Add, TypeInv
  <2>3. ManagerTypes'
    <3>1. encoder.packet \in Packet /\ encoder.to \in Manager /\ encoder.index \in Nat \ {0}
      BY <1>6 DEF Add, TypeInv, EncoderTypes
    <3>2. PICK m, list :
            /\ m \in Manager /\ m = encoder.to
            /\ list = InsertAt(encoder.index, encoder.packet, voiceOutputDataQueue[m])
      BY <3>1
    <3>3. voiceOutputDataQueue[m] \in Seq(Packet) /\ Len(voiceOutputDataQueue[m]) <= LIST_SIZE
      BY <3>2 DEF TypeInv, ManagerTypes
    <3>4. ASSUME encoder.index <= Len(voiceOutputDataQueue[m]) + 1
          PROVE  /\ Shorten(list, LIST_SIZE) \in Seq(Packet) /\ Len(Shorten(list, LIST_SIZE)) <= LIST_SIZE
                 /\ Excess(list, LIST_SIZE) \subseteq Packet
      <4>1. encoder.index \in 1..(Len(voiceOutputDataQueue[m]) + 1)
        BY <3>1, <3>3, <3>4
      <4>2. list \in Seq(Packet) /\ Len(list) = Len(voiceOutputDataQueue[m]) + 1
        BY <3>1, <3>2, <3>3, <4>1, InsertAtProperties DEF Inserted
      <4>3. Excess(list, LIST_SIZE) \subseteq In(list)
        BY <3>3, <4>2, Shortened, StreamAssumption
      <4>4. QED
        BY <3>3, <4>2, <4>3, Shortened, InType, StreamAssumption
    <3>5. polledHashMap' = [polledHashMap EXCEPT ![m] = @ \cup {encoder.packet}]
      BY <1>6, <3>2 DEF Add
    <3>6. \/ UNCHANGED <<voiceOutputDataQueue, unsent>>
          \/ /\ encoder.index <= Len(voiceOutputDataQueue[m]) + 1
             /\ voiceOutputDataQueue' =
                  [voiceOutputDataQueue EXCEPT ![m] = Shorten(list, LIST_SIZE)]
             /\ unsent' = [unsent EXCEPT ![m] = @ \cup Excess(list, LIST_SIZE)]
      BY <1>6, <3>1, <3>2, <3>3 DEF Add
    <3>7. polledHashMap' \in [Manager -> SUBSET Packet]
      BY <3>1, <3>5 DEF TypeInv, ManagerTypes
    <3>8. /\ voiceOutputDataQueue' \in [Manager -> Seq(Packet)]
          /\ \A n \in Manager : Len(voiceOutputDataQueue'[n]) <= LIST_SIZE
      <4>1. \/ UNCHANGED voiceOutputDataQueue
            \/ /\ Shorten(list, LIST_SIZE) \in Seq(Packet)
               /\ Len(Shorten(list, LIST_SIZE)) <= LIST_SIZE
               /\ voiceOutputDataQueue' =
                    [voiceOutputDataQueue EXCEPT ![m] = Shorten(list, LIST_SIZE)]
        BY <3>4, <3>6
      <4>2. QED
        BY <3>2, <4>1 DEF TypeInv, ManagerTypes
    <3>9. unsent' \in [Manager -> SUBSET Packet]
      <4>1. \/ UNCHANGED unsent
            \/ /\ Excess(list, LIST_SIZE) \subseteq Packet
               /\ unsent' = [unsent EXCEPT ![m] = @ \cup Excess(list, LIST_SIZE)]
        BY <3>4, <3>6
      <4>2. QED
        BY <3>2, <4>1 DEF TypeInv, ManagerTypes
    <3>10. UNCHANGED <<transmissionState, connected, network>>
      BY <1>6 DEF Add
    <3>11. QED
      BY <3>7, <3>8, <3>9, <3>10 DEF TypeInv, ManagerTypes
  <2>4. OtherTypes'
    <3>1. encoder.packet \in Packet
      BY <1>6 DEF Add, TypeInv, EncoderTypes
    <3>2. crashed' \subseteq {"speaker", "listener"} /\ left' \subseteq left \cup {encoder.packet}
      BY <1>6 DEF Add, TypeInv, OtherTypes
    <3>3. QED
      BY <1>6, <3>1, <3>2 DEF Add, TypeInv, OtherTypes, playVars
  <2>5. QED
    BY <2>1, <2>2, <2>3, <2>4 DEF TypeInv
<1>7. QED
  BY <1>1, <1>2, <1>3, <1>4, <1>5, <1>6 DEF Encoder

LEMMA ManagersTyped ==
  ASSUME TypeInv, Managers
  PROVE  TypeInv'
<1>1. ASSUME NEW m \in Manager, StartTransmission(m)  PROVE TypeInv'
  <2>1. SpeakerTypes' /\ EncoderTypes' /\ ListenerTypes' /\ PutterTypes' /\ QueueTypes'
    BY <1>1 DEF StartTransmission, TypeInv, SpeakerTypes, EncoderTypes, ListenerTypes,
       PutterTypes, QueueTypes, speakerVars, encoderVars, listVars, listenerVars,
       queueVars, playVars
  <2>2. ManagerTypes'
    BY <1>1 DEF StartTransmission, TypeInv, ManagerTypes, speakerVars, encoderVars,
       listVars, listenerVars, queueVars, playVars
  <2>3. OtherTypes'
    <3>1. Seen(m) \subseteq Packet
      BY <1>1, InType DEF TypeInv, ManagerTypes, Seen
    <3>2. QED
      BY <1>1, <3>1 DEF StartTransmission, TypeInv, OtherTypes, listVars, listenerVars,
         queueVars, playVars
  <2>4. QED
    BY <2>1, <2>2, <2>3 DEF TypeInv
<1>2. ASSUME NEW m \in Manager, Connect(m)  PROVE TypeInv'
  <2>1. SpeakerTypes' /\ EncoderTypes' /\ ListenerTypes' /\ PutterTypes' /\ QueueTypes'
       /\ OtherTypes'
    BY <1>2 DEF Connect, TypeInv, SpeakerTypes, EncoderTypes, ListenerTypes, PutterTypes,
       QueueTypes, OtherTypes, speakerVars, encoderVars, listVars, listenerVars,
       queueVars, playVars
  <2>2. ManagerTypes'
    BY <1>2 DEF Connect, TypeInv, ManagerTypes, speakerVars, encoderVars, listVars,
       listenerVars, queueVars, playVars
  <2>3. QED
    BY <2>1, <2>2 DEF TypeInv
<1>3. ASSUME NEW m \in Manager, Write(m)  PROVE TypeInv'
  <2>1. SpeakerTypes' /\ EncoderTypes' /\ ListenerTypes' /\ PutterTypes' /\ QueueTypes'
       /\ OtherTypes'
    BY <1>3 DEF Write, TypeInv, SpeakerTypes, EncoderTypes, ListenerTypes, PutterTypes,
       QueueTypes, OtherTypes, speakerVars, encoderVars, listenerVars, queueVars, playVars
  <2>2. ManagerTypes'
    <3>1. /\ voiceOutputDataQueue[m] \in Seq(Packet) /\ voiceOutputDataQueue[m] # << >>
          /\ Len(voiceOutputDataQueue[m]) \in Nat /\ Len(voiceOutputDataQueue[m]) <= LIST_SIZE
      BY <1>3 DEF Write, TypeInv, ManagerTypes
    <3>2. /\ Tail(voiceOutputDataQueue[m]) \in Seq(Packet) /\ Head(voiceOutputDataQueue[m]) \in Packet
          /\ Len(Tail(voiceOutputDataQueue[m])) <= LIST_SIZE
      BY <3>1, TailProperties, StreamAssumption
    <3>3. network' \in [Manager -> SUBSET Packet]
      BY <1>3, <3>2 DEF Write, TypeInv, ManagerTypes
    <3>4. QED
      BY <1>3, <3>2, <3>3 DEF Write, TypeInv, ManagerTypes, listVars
  <2>3. QED
    BY <2>1, <2>2 DEF TypeInv
<1>4. ASSUME NEW m \in Manager, Close(m)  PROVE TypeInv'
  <2>1. SpeakerTypes' /\ EncoderTypes' /\ ListenerTypes' /\ PutterTypes' /\ QueueTypes'
       /\ OtherTypes'
    BY <1>4 DEF Close, TypeInv, SpeakerTypes, EncoderTypes, ListenerTypes, PutterTypes,
       QueueTypes, OtherTypes, speakerVars, encoderVars, listenerVars, queueVars, playVars
  <2>2. ManagerTypes'
    BY <1>4, StreamAssumption, EmptyIsQueue DEF Close, TypeInv, ManagerTypes, speakerVars,
       encoderVars, listenerVars, queueVars, playVars
  <2>3. QED
    BY <2>1, <2>2 DEF TypeInv
<1>5. ASSUME NEW m \in Manager, Forget(m)  PROVE TypeInv'
  <2>1. SpeakerTypes' /\ EncoderTypes' /\ ListenerTypes' /\ PutterTypes' /\ QueueTypes'
       /\ OtherTypes'
    BY <1>5 DEF Forget, TypeInv, SpeakerTypes, EncoderTypes, ListenerTypes, PutterTypes,
       QueueTypes, OtherTypes, speakerVars, encoderVars, listenerVars, queueVars, playVars
  <2>2. ManagerTypes'
    BY <1>5 DEF Forget, TypeInv, ManagerTypes
  <2>3. QED
    BY <2>1, <2>2 DEF TypeInv
<1>6. ASSUME NEW m \in Manager, EndClose(m)  PROVE TypeInv'
  <2>1. SpeakerTypes' /\ EncoderTypes' /\ ListenerTypes' /\ PutterTypes' /\ QueueTypes'
       /\ OtherTypes'
    BY <1>6 DEF EndClose, TypeInv, SpeakerTypes, EncoderTypes, ListenerTypes, PutterTypes,
       QueueTypes, OtherTypes, speakerVars, encoderVars, listVars, listenerVars,
       queueVars, playVars
  <2>2. ManagerTypes'
    BY <1>6 DEF EndClose, TypeInv, ManagerTypes, listVars
  <2>3. QED
    BY <2>1, <2>2 DEF TypeInv
<1>7. ASSUME NEW m \in Manager, Read(m)  PROVE TypeInv'
  <2>1. SpeakerTypes' /\ EncoderTypes' /\ ManagerTypes' /\ ListenerTypes' /\ QueueTypes'
    BY <1>7 DEF Read, TypeInv, SpeakerTypes, EncoderTypes, ManagerTypes, ListenerTypes,
       QueueTypes, speakerVars, encoderVars, listVars, sendVars, listenerVars, queueVars
  <2>2. PICK p \in network[m] :
          IF p.call = myAESVoiceCrypto
          THEN /\ putter' = [putter EXCEPT !.step = "find", !.packet = p]
               /\ arrived' = arrived \cup {p}
          ELSE UNCHANGED <<putter, arrived>>
    BY <1>7 DEF Read
  <2>3. p \in Packet
    BY <1>7, <2>2 DEF TypeInv, ManagerTypes
  <2>4. PutterTypes' /\ OtherTypes'
    BY <1>7, <2>2, <2>3 DEF Read, TypeInv, PutterTypes, OtherTypes
  <2>5. QED
    BY <2>1, <2>4 DEF TypeInv
<1>8. ASSUME EnableFrom  PROVE TypeInv'
  <2>1. SpeakerTypes' /\ EncoderTypes' /\ ListenerTypes' /\ PutterTypes' /\ QueueTypes'
       /\ OtherTypes'
    BY <1>8 DEF EnableFrom, TypeInv, SpeakerTypes, EncoderTypes, ListenerTypes, PutterTypes,
       QueueTypes, OtherTypes, speakerVars, encoderVars, listenerVars, queueVars, playVars
  <2>2. ManagerTypes'
    BY <1>8 DEF EnableFrom, TypeInv, ManagerTypes, listVars
  <2>3. QED
    BY <2>1, <2>2 DEF TypeInv
<1>9. QED
  BY <1>1, <1>2, <1>3, <1>4, <1>5, <1>6, <1>7, <1>8 DEF Managers

LEMMA PlayerTyped ==
  ASSUME TypeInv, Player
  PROVE  TypeInv'
<1>1. ASSUME Find  PROVE TypeInv'
  <2>1. SpeakerTypes' /\ EncoderTypes' /\ ManagerTypes' /\ ListenerTypes' /\ QueueTypes'
       /\ OtherTypes'
    BY <1>1 DEF Find, TypeInv, SpeakerTypes, EncoderTypes, ManagerTypes, ListenerTypes,
       QueueTypes, OtherTypes, speakerVars, encoderVars, listVars, sendVars, listenerVars,
       queueVars
  <2>2. PutterTypes'
    <3>1. /\ putter.packet.seq \in Nat /\ ownList \in Seq(Packet)
          /\ Position(putter.packet.seq, ownList) \in 1..(Len(ownList) + 1)
      <4>1. putter.packet.seq \in Nat /\ ownList \in Seq(Packet)
        BY <1>1 DEF Find, TypeInv, PutterTypes, QueueTypes, Packet
      <4>2. QED
        BY <4>1, PositionType
    <3>2. PICK next : /\ next \in Packet \cup {None}
                      /\ putter' = IF Numbered(putter.packet.seq, gotNumberMap)
                                   THEN [putter EXCEPT !.step = "idle", !.packet = None]
                                   ELSE [putter EXCEPT !.step = "insert", !.next = next]
      <4>1. PICK i : /\ i \in 1..(Len(ownList) + 1)
                     /\ putter' = IF Numbered(putter.packet.seq, gotNumberMap)
                                  THEN [putter EXCEPT !.step = "idle", !.packet = None]
                                  ELSE [putter EXCEPT !.step = "insert",
                                          !.next = IF i > Len(ownList) THEN None ELSE ownList[i]]
        BY <1>1, <3>1 DEF Find
      <4>2. (IF i > Len(ownList) THEN None ELSE ownList[i]) \in Packet \cup {None}
        BY <3>1, <4>1
      <4>3. QED
        BY <4>1, <4>2
    <3>3. QED
      BY <1>1, <3>2 DEF Find, TypeInv, PutterTypes
  <2>3. QED
    BY <2>1, <2>2 DEF TypeInv
<1>2. ASSUME Insert  PROVE TypeInv'
  <2>1. SpeakerTypes' /\ EncoderTypes' /\ ManagerTypes' /\ ListenerTypes'
    BY <1>2 DEF Insert, TypeInv, SpeakerTypes, EncoderTypes, ManagerTypes, ListenerTypes,
       speakerVars, encoderVars, listVars, sendVars, listenerVars
  <2>2. PutterTypes'
    BY <1>2 DEF Insert, TypeInv, PutterTypes, speakerVars, encoderVars, listVars,
       sendVars, listenerVars
  <2>3. QueueTypes'
    <3>1. putter.packet \in Packet /\ putter.next \in Packet \cup {None}
      BY <1>2 DEF Insert, TypeInv, PutterTypes
    <3>2. ASSUME NEW i, i = IF putter.next = None THEN Len(ownList) + 1
                            ELSE Position(putter.next.seq, ownList)
          PROVE  i \in 1..(Len(ownList) + 1)
      BY <3>1, <3>2, PlaceType DEF TypeInv
    <3>3. ASSUME NEW list, NEW i \in 1..(Len(ownList) + 1),
                 list = InsertAt(i, putter.packet, ownList)
          PROVE  /\ Shorten(list, QUEUE_SIZE) \in Seq(Packet) /\ Len(Shorten(list, QUEUE_SIZE)) <= QUEUE_SIZE
                 /\ Excess(list, QUEUE_SIZE) \subseteq Packet
      <4>1. list \in Seq(Packet) /\ Len(list) = Len(ownList) + 1
        BY <3>1, <3>3, InsertAtProperties DEF TypeInv, QueueTypes, Inserted
      <4>2. Excess(list, QUEUE_SIZE) \subseteq In(list)
        BY <4>1, Shortened, StreamAssumption DEF TypeInv, QueueTypes
      <4>3. QED
        BY <4>1, <4>2, Shortened, InType, StreamAssumption DEF TypeInv, QueueTypes
    <3>4. QED
      BY <1>2, <3>1, <3>2, <3>3 DEF Insert, TypeInv, QueueTypes
  <2>4. OtherTypes'
    <3>1. putter.packet \in Packet
      BY <1>2 DEF Insert, TypeInv, PutterTypes
    <3>2. crashed' \subseteq {"speaker", "listener"} /\ left' \subseteq left \cup {putter.packet}
      BY <1>2 DEF Insert, TypeInv, OtherTypes
    <3>3. QED
      BY <1>2, <3>1, <3>2 DEF Insert, TypeInv, OtherTypes
  <2>5. QED
    BY <2>1, <2>2, <2>3, <2>4 DEF TypeInv
<1>3. ASSUME LookForPacket  PROVE TypeInv'
  <2>1. SpeakerTypes' /\ EncoderTypes' /\ ManagerTypes' /\ PutterTypes' /\ QueueTypes'
       /\ OtherTypes'
    BY <1>3 DEF LookForPacket, TypeInv, SpeakerTypes, EncoderTypes, ManagerTypes,
       PutterTypes, QueueTypes, OtherTypes, speakerVars, encoderVars, listVars, sendVars,
       listenerVars, queueVars
  <2>2. ListenerTypes'
    BY <1>3 DEF LookForPacket, TypeInv, ListenerTypes, speakerVars, encoderVars, listVars,
       sendVars, listenerVars, queueVars
  <2>3. QED
    BY <2>1, <2>2 DEF TypeInv
<1>4. ASSUME Play  PROVE TypeInv'
  <2>1. SpeakerTypes' /\ EncoderTypes' /\ ManagerTypes' /\ PutterTypes'
    BY <1>4 DEF Play, TypeInv, SpeakerTypes, EncoderTypes, ManagerTypes, PutterTypes,
       speakerVars, encoderVars, listVars, sendVars, listenerVars, queueVars
  <2>2. ListenerTypes'
    BY <1>4 DEF Play, TypeInv, ListenerTypes, speakerVars, encoderVars, listVars,
       sendVars, listenerVars, queueVars
  <2>3. QueueTypes'
    <3>1. ownList # << >> => /\ Tail(ownList) \in Seq(Packet) /\ Head(ownList) \in Packet
                             /\ Len(Tail(ownList)) <= QUEUE_SIZE
      <4>1. ownList \in Seq(Packet) /\ Len(ownList) \in Nat /\ Len(ownList) <= QUEUE_SIZE
        BY DEF TypeInv, QueueTypes
      <4>2. QED
        BY <4>1, TailProperties, StreamAssumption
    <3>2. QED
      BY <1>4, <3>1 DEF Play, TypeInv, QueueTypes, queueVars
  <2>4. OtherTypes'
    BY <1>4 DEF Play, TypeInv, OtherTypes, speakerVars, encoderVars, listVars, sendVars,
       listenerVars, queueVars
  <2>5. QED
    BY <2>1, <2>2, <2>3, <2>4 DEF TypeInv
<1>5. QED
  BY <1>1, <1>2, <1>3, <1>4 DEF Player

-----------------------------------------------------------------------------
(***************************************************************************)
(* The PriorityQueue.                                                      *)
(***************************************************************************)

\* What put has found holds until it inserts, whatever the callback does in between:
\* the number has not been got, and the packet belongs before next.
Placed ==
  /\ ~ Numbered(putter.packet.seq, gotNumberMap)
  /\ IF putter.next = None
     THEN \A q \in In(ownList) : q.seq < putter.packet.seq
     ELSE /\ putter.packet.seq < putter.next.seq
          /\ \A q \in In(ownList) : q.seq < putter.next.seq => q.seq < putter.packet.seq

\* The packets wait in order, none of a number that has been played, and where the
\* packets are that have been got.
Order ==
  /\ Sorted(ownList)
  /\ In(ownList) \subseteq gotNumberMap /\ played \subseteq gotNumberMap
  /\ \A p \in In(ownList) : ~ Numbered(p.seq, played)
  /\ putter.step = "insert" => Placed
  /\ gotNumberMap \subseteq In(ownList) \cup played \cup unplayed

LEMMA EmptyIn == In(<< >>) = {} /\ Sorted(<< >>)
  BY DEF In, Sorted

\* What touches the queue.
LEMMA QueueFrame ==
  ASSUME Next, ~ reset, ~ (\E m \in Manager : Read(m)), ~ Find, ~ Insert, ~ Play, TypeInv
  PROVE  UNCHANGED <<putter, ownList, gotNumberMap, played, unplayed>>
<1>1. CASE Calls
  BY <1>1 DEF Calls, Answer, Called, StartEncoding, StartPlaying, HangUp, StopReading,
     StopEncoding, StopPlaying, playVars, queueVars
<1>2. CASE Encoder
  BY <1>2 DEF Encoder, BeginLoop, EndLoop, Encode, Encrypt, Offer, Add, playVars, queueVars
<1>3. CASE Managers
  BY <1>3 DEF Managers, EnableFrom, StartTransmission, Connect, Write, Close, Forget, EndClose,
     playVars, queueVars
<1>4. CASE Player
  BY <1>4 DEF Player, LookForPacket, queueVars
<1>5. QED
  BY <1>1, <1>2, <1>3, <1>4 DEF Next

LEMMA OrderKept ==
  ASSUME Order, UNCHANGED <<putter, ownList, gotNumberMap, played, unplayed>>
  PROVE  Order'
  BY DEF Order, Placed

LEMMA ResetOrder ==
  ASSUME TypeInv, Order, reset
  PROVE  Order'
<1>1. /\ ownList' = << >> /\ gotNumberMap' = {} /\ played' = {}
      /\ putter' = putter
  BY DEF reset
<1>2. In(ownList') = {} /\ Sorted(ownList')
  BY <1>1, EmptyIn
<1>3. QED
  BY <1>1, <1>2 DEF Order, Placed, Numbered

LEMMA ReadOrder ==
  ASSUME TypeInv, Order, NEW m \in Manager, Read(m)
  PROVE  Order'
<1>1. UNCHANGED <<ownList, gotNumberMap, played, unplayed>>
  BY DEF Read, queueVars
<1>2. putter'.step # "insert"
  BY DEF Read, TypeInv, PutterTypes
<1>3. QED
  BY <1>1, <1>2 DEF Order

LEMMA FindOrder ==
  ASSUME TypeInv, Order, Find
  PROVE  Order'
<1>1. UNCHANGED <<ownList, gotNumberMap, played, unplayed>>
  BY DEF Find, queueVars
<1>2. ASSUME putter'.step = "insert"  PROVE Placed'
  <2>1. /\ putter.packet \in Packet /\ putter.packet.seq \in Nat
        /\ ownList \in Seq(Packet) /\ Len(ownList) \in Nat /\ Sorted(ownList)
        /\ \A q \in Packet : q.seq \in Nat
    BY DEF Find, TypeInv, PutterTypes, QueueTypes, Order, Packet
  <2>2. PICK n, i : n = putter.packet.seq /\ i = Position(putter.packet.seq, ownList)
    OBVIOUS
  <2>3. i \in 1..(Len(ownList) + 1) /\ \A j \in 1..Len(ownList) : j < i <=> ownList[j].seq < n
    BY <2>1, <2>2, PositionType, PositionSplits
  <2>4. /\ ~ Numbered(n, gotNumberMap)
        /\ putter' = [putter EXCEPT !.step = "insert",
                        !.next = IF i > Len(ownList) THEN None ELSE ownList[i]]
    BY <1>2, <2>2 DEF Find, TypeInv, PutterTypes
  <2>5. /\ putter'.packet.seq = n
        /\ putter'.next = IF i > Len(ownList) THEN None ELSE ownList[i]
    BY <2>2, <2>4 DEF TypeInv, PutterTypes
  <2>6. \A q \in In(ownList) : \E j \in 1..Len(ownList) : q = ownList[j]
    BY <2>1 DEF In
  <2>7. CASE i > Len(ownList)
    <3>1. \A q \in In(ownList) : q.seq < n
      BY <2>1, <2>3, <2>6, <2>7
    <3>2. QED
      BY <1>1, <2>4, <2>5, <2>7, <3>1 DEF Placed
  <2>8. CASE i <= Len(ownList)
    <3>1. i \in 1..Len(ownList) /\ ownList[i] \in Packet /\ ownList[i] \in In(ownList)
      BY <2>1, <2>3, <2>8, InType
    <3>2. putter'.next = ownList[i] /\ putter'.next # None
      BY <2>3, <2>5, <2>8, <3>1, <2>1, StreamAssumption DEF Packet
    <3>3. n < ownList[i].seq
      <4>1. ~ (ownList[i].seq < n)
        BY <2>3, <3>1
      <4>2. ownList[i].seq # n
        BY <2>4, <3>1 DEF Order, Numbered
      <4>3. QED
        BY <2>1, <2>2, <3>1, <4>1, <4>2
    <3>4. ASSUME NEW q \in In(ownList), q.seq < ownList[i].seq  PROVE q.seq < n
      <4>1. PICK j \in 1..Len(ownList) : q = ownList[j]
        BY <2>6
      <4>2. ~ (i < j) /\ i # j
        BY <2>1, <3>1, <3>4, <4>1 DEF Sorted
      <4>3. QED
        BY <2>3, <4>1, <4>2
    <3>5. QED
      BY <1>1, <2>4, <2>5, <3>2, <3>3, <3>4 DEF Placed
  <2>9. QED
    BY <2>1, <2>3, <2>7, <2>8
<1>3. QED
  BY <1>1, <1>2 DEF Order

LEMMA InsertOrder ==
  ASSUME TypeInv, Order, Insert
  PROVE  Order'
<1>1. played' = played /\ putter'.step = "idle"
  BY DEF Insert
<1>2. PICK p, i, list :
        /\ p = putter.packet
        /\ i = IF putter.next = None THEN Len(ownList) + 1 ELSE Position(putter.next.seq, ownList)
        /\ list = InsertAt(i, p, ownList)
  OBVIOUS
<1>3. /\ p \in Packet /\ p.seq \in Nat /\ putter.next \in Packet \cup {None}
      /\ ownList \in Seq(Packet) /\ Len(ownList) \in Nat /\ Len(ownList) <= QUEUE_SIZE
      /\ \A q \in Packet : q.seq \in Nat
  BY <1>2 DEF Insert, TypeInv, PutterTypes, QueueTypes, Packet
<1>4. CASE putter.next \notin {None} \cup In(ownList)
  <2>1. UNCHANGED <<ownList, gotNumberMap, unplayed>>
    BY <1>4 DEF Insert
  <2>2. QED
    BY <1>1, <2>1 DEF Order
<1>5. CASE putter.next \in {None} \cup In(ownList)
  <2>1. /\ gotNumberMap' = gotNumberMap \cup {p}
        /\ ownList' = Shorten(list, QUEUE_SIZE)
        /\ unplayed' = unplayed \cup Excess(list, QUEUE_SIZE)
    BY <1>2, <1>5 DEF Insert
  <2>2. i \in 1..(Len(ownList) + 1)
    BY <1>2, <1>3, PlaceType DEF TypeInv
  <2>3. Placed
    BY DEF Insert, Order
  <2>4. ASSUME NEW j \in 1..Len(ownList)
        PROVE  IF j < i THEN ownList[j].seq < p.seq ELSE p.seq < ownList[j].seq
    <3>1. ownList[j] \in In(ownList) /\ ownList[j].seq \in Nat
      BY <1>3, <2>4, InType
    <3>2. CASE putter.next = None
      BY <1>2, <1>3, <2>3, <2>4, <3>1, <3>2 DEF Placed
    <3>3. CASE putter.next # None
      <4>1. putter.next.seq \in Nat /\ p.seq < putter.next.seq
        BY <1>2, <1>3, <2>3, <3>3 DEF Placed
      <4>2. j < i <=> ownList[j].seq < putter.next.seq
        BY <1>2, <1>3, <2>4, <3>3, <4>1, PositionSplits DEF Order
      <4>3. ownList[j].seq < putter.next.seq => ownList[j].seq < p.seq
        BY <1>2, <2>3, <3>1, <3>3 DEF Placed
      <4>4. QED
        BY <1>3, <3>1, <4>1, <4>2, <4>3
    <3>4. QED
      BY <3>2, <3>3
  <2>5. Sorted(ownList)
    BY DEF Order
  <2>6. Sorted(list)
    BY <1>2, <1>3, <2>2, <2>4, <2>5, SortedInsert
  <2>7. list \in Seq(Packet) /\ Len(list) = Len(ownList) + 1
    BY <1>2, <1>3, <2>2, InsertAtProperties DEF Inserted
  <2>8. \A q : q \in In(list) <=> q \in In(ownList) \/ q = p
    BY <1>2, <1>3, <2>2, InsertAtIn
  <2>9. /\ In(ownList') \subseteq In(list)
        /\ In(list) \subseteq In(ownList') \cup Excess(list, QUEUE_SIZE)
    BY <1>3, <2>1, <2>7, Shortened, StreamAssumption
  <2>10. Sorted(ownList')
    <3>1. Len(list) > QUEUE_SIZE => list # << >>
      BY StreamAssumption
    <3>2. Len(list) > QUEUE_SIZE => Sorted(Tail(list))
      BY <2>6, <2>7, <3>1, SortedTail
    <3>3. QED
      BY <2>1, <2>6, <3>2 DEF Shorten
  <2>11. ~ Numbered(p.seq, played)
    BY <1>2, <2>3 DEF Placed, Order, Numbered
  <2>12. \A q \in In(ownList') : ~ Numbered(q.seq, played)
    BY <2>8, <2>9, <2>11 DEF Order
  <2>13. /\ In(ownList') \subseteq gotNumberMap' /\ played' \subseteq gotNumberMap'
         /\ gotNumberMap' \subseteq In(ownList') \cup played' \cup unplayed'
    BY <1>1, <2>1, <2>8, <2>9 DEF Order
  <2>14. QED
    BY <1>1, <2>10, <2>12, <2>13 DEF Order
<1>6. QED
  BY <1>4, <1>5

LEMMA PlayOrder ==
  ASSUME TypeInv, Order, Play
  PROVE  Order'
<1>1. putter' = putter /\ gotNumberMap' = gotNumberMap /\ unplayed' = unplayed
  BY DEF Play, queueVars
<1>2. CASE ownList = << >>
  BY <1>1, <1>2, OrderKept DEF Play, queueVars
<1>3. CASE ownList # << >>
  <2>1. played' = played \cup {Head(ownList)} /\ ownList' = Tail(ownList)
    BY <1>3 DEF Play
  <2>2. ownList \in Seq(Packet) /\ Sorted(ownList) /\ \A q \in Packet : q.seq \in Nat
    BY DEF TypeInv, QueueTypes, Order, Packet
  <2>3. Sorted(ownList') /\ \A q \in In(ownList') : Head(ownList).seq < q.seq
    BY <1>3, <2>1, <2>2, SortedTail
  <2>4. ownList' \in Seq(Packet) /\ \A q : q \in In(ownList) <=> q \in In(ownList') \/ q = Head(ownList)
    BY <1>3, <2>1, <2>2, TailProperties
  <2>5. In(ownList') \subseteq Packet /\ Head(ownList) \in Packet
    BY <1>3, <2>2, <2>4, InType, TailProperties
  <2>6. \A q \in In(ownList') : ~ Numbered(q.seq, played')
    <3>1. ASSUME NEW q \in In(ownList'), NEW r \in played', r.seq = q.seq  PROVE FALSE
      <4>1. r = Head(ownList)
        BY <2>1, <2>4, <3>1 DEF Order, Numbered
      <4>2. Head(ownList).seq < q.seq /\ q.seq \in Nat
        BY <2>2, <2>3, <2>5, <3>1
      <4>3. QED
        BY <3>1, <4>1, <4>2
    <3>2. QED
      BY <3>1 DEF Numbered
  <2>7. putter.step = "insert" => Placed'
    <3>1. In(ownList') \subseteq In(ownList)
      BY <2>4
    <3>2. QED
      BY <1>1, <3>1 DEF Order, Placed
  <2>8. /\ In(ownList') \subseteq gotNumberMap' /\ played' \subseteq gotNumberMap'
        /\ gotNumberMap' \subseteq In(ownList') \cup played' \cup unplayed'
    BY <1>1, <2>1, <2>4 DEF Order
  <2>9. QED
    BY <1>1, <2>3, <2>6, <2>7, <2>8 DEF Order
<1>4. QED
  BY <1>2, <1>3

LEMMA StepOrder ==
  ASSUME TypeInv, Order, Next
  PROVE  Order'
  BY QueueFrame, OrderKept, ResetOrder, ReadOrder, FindOrder, InsertOrder, PlayOrder

-----------------------------------------------------------------------------
\* What Add does to the list it adds to, and to the others.
LEMMA AddedToList ==
  ASSUME TypeInv, Add
  PROVE  /\ In(voiceOutputDataQueue'[encoder.to])
              \subseteq In(voiceOutputDataQueue[encoder.to]) \cup {encoder.packet}
         /\ "speaker" \notin crashed' =>
              In(voiceOutputDataQueue[encoder.to]) \cup {encoder.packet} \cup unsent[encoder.to]
                \subseteq In(voiceOutputDataQueue'[encoder.to]) \cup unsent'[encoder.to]
<1>1. PICK m, p, i, list :
        /\ m = encoder.to /\ p = encoder.packet /\ i = encoder.index
        /\ list = InsertAt(i, p, voiceOutputDataQueue[m])
  OBVIOUS
<1>2. /\ p \in Packet /\ m \in Manager /\ i \in Nat \ {0}
      /\ voiceOutputDataQueue[m] \in Seq(Packet) /\ Len(voiceOutputDataQueue[m]) \in Nat
      /\ Len(voiceOutputDataQueue[m]) <= LIST_SIZE
  BY <1>1 DEF Add, TypeInv, EncoderTypes, ManagerTypes
<1>3. CASE i > Len(voiceOutputDataQueue[m]) + 1
  BY <1>1, <1>3 DEF Add
<1>4. CASE ~ (i > Len(voiceOutputDataQueue[m]) + 1)
  <2>1. /\ voiceOutputDataQueue' = [voiceOutputDataQueue EXCEPT ![m] = Shorten(list, LIST_SIZE)]
        /\ unsent' = [unsent EXCEPT ![m] = @ \cup Excess(list, LIST_SIZE)]
    BY <1>1, <1>4 DEF Add
  <2>2. i \in 1..(Len(voiceOutputDataQueue[m]) + 1)
    BY <1>2, <1>4
  <2>3. \A q : q \in In(list) <=> q \in In(voiceOutputDataQueue[m]) \/ q = p
    BY <1>1, <1>2, <2>2, InsertAtIn
  <2>4. list \in Seq(Packet) /\ Len(list) = Len(voiceOutputDataQueue[m]) + 1
    BY <1>1, <1>2, <2>2, InsertAtProperties DEF Inserted
  <2>5. /\ In(Shorten(list, LIST_SIZE)) \subseteq In(list)
        /\ In(list) \subseteq In(Shorten(list, LIST_SIZE)) \cup Excess(list, LIST_SIZE)
    BY <1>2, <2>4, Shortened, StreamAssumption
  <2>6. /\ voiceOutputDataQueue'[m] = Shorten(list, LIST_SIZE)
        /\ unsent'[m] = unsent[m] \cup Excess(list, LIST_SIZE)
    BY <1>2, <2>1 DEF TypeInv, ManagerTypes
  <2>7. QED
    BY <1>1, <2>3, <2>5, <2>6
<1>5. QED
  BY <1>3, <1>4

LEMMA AddedToOthers ==
  ASSUME TypeInv, Add, NEW n \in Manager, n # encoder.to
  PROVE  /\ polledHashMap'[n] = polledHashMap[n] /\ unsent'[n] = unsent[n]
         /\ voiceOutputDataQueue'[n] = voiceOutputDataQueue[n]
<1>1. CASE encoder.index > Len(voiceOutputDataQueue[encoder.to]) + 1
  BY <1>1 DEF Add, TypeInv, ManagerTypes
<1>2. CASE ~ (encoder.index > Len(voiceOutputDataQueue[encoder.to]) + 1)
  BY <1>2 DEF Add, TypeInv, ManagerTypes
<1>3. QED
  BY <1>1, <1>2

-----------------------------------------------------------------------------
(***************************************************************************)
(* What a call leaves to the next.                                         *)
(***************************************************************************)

\* What the PriorityQueue has got is of this call, or has been left.
FormerGot ==
  /\ listener = "idle" => gotNumberMap \subseteq left
  /\ listener # "idle" => \A q \in gotNumberMap \ left : q.call = myAESVoiceCrypto

\* So is what the list of a started manager remembers.  Without a call none is started;
\* what a list holds that close has cleared, or remembers that has been reset, came too
\* late and has been left.
FormerSeen ==
  /\ speaker \notin InCall => \A m \in Manager : ~ transmissionState[m]
  /\ \A m \in Manager :
       /\ connected[m] = "clearing" => In(voiceOutputDataQueue[m]) \subseteq left
       /\ connected[m] \in {"closing", "no"} => Seen(m) \subseteq left
       /\ transmissionState[m] => \A q \in Seen(m) \ left : q.call = otherAESCrypto

LEMMA CallsFormer ==
  ASSUME TypeInv, FormerGot, FormerSeen, Calls
  PROVE  FormerGot' /\ FormerSeen'
<1>1. ASSUME Answer  PROVE FormerGot' /\ FormerSeen'
  BY <1>1 DEF Answer, FormerGot, FormerSeen, Seen, speakerVars, sendVars, listVars, playVars, queueVars
<1>2. ASSUME Called  PROVE FormerGot' /\ FormerSeen'
  <2>1. FormerGot'
    BY <1>2 DEF Called, FormerGot, listenerVars, playVars, queueVars
  <2>2. \A m \in Manager : ~ transmissionState[m]
    BY <1>2 DEF Called, FormerSeen
  <2>3. FormerSeen'
    BY <1>2, <2>2 DEF Called, FormerSeen, Seen, sendVars, listVars
  <2>4. QED
    BY <2>1, <2>3
<1>3. ASSUME StartEncoding  PROVE FormerGot' /\ FormerSeen'
  BY <1>3 DEF StartEncoding, FormerGot, FormerSeen, Seen, sendVars, listVars, listenerVars,
     playVars, queueVars
<1>4. ASSUME StartPlaying  PROVE FormerGot' /\ FormerSeen'
  BY <1>4 DEF StartPlaying, FormerGot, FormerSeen, Seen, speakerVars, sendVars, listVars,
     playVars, queueVars
<1>5. ASSUME HangUp  PROVE FormerGot' /\ FormerSeen'
  BY <1>5 DEF HangUp, FormerGot, FormerSeen, Seen, listVars, listenerVars, playVars, queueVars
<1>6. ASSUME StopReading  PROVE FormerGot' /\ FormerSeen'
  BY <1>6 DEF StopReading, FormerGot, FormerSeen, Seen, speakerVars, sendVars, listVars,
     playVars, queueVars
<1>7. ASSUME StopEncoding  PROVE FormerGot' /\ FormerSeen'
  BY <1>7 DEF StopEncoding, FormerGot, FormerSeen, Seen, sendVars, listVars, listenerVars,
     playVars, queueVars
<1>8. ASSUME StopPlaying  PROVE FormerGot' /\ FormerSeen'
  BY <1>8 DEF StopPlaying, FormerGot, FormerSeen, Seen, speakerVars, sendVars, listVars,
     playVars, queueVars
<1>9. ASSUME reset  PROVE FormerGot' /\ FormerSeen'
  BY <1>9 DEF reset, FormerGot, FormerSeen, Seen, speakerVars, sendVars, listVars
<1>10. QED
  BY <1>1, <1>2, <1>3, <1>4, <1>5, <1>6, <1>7, <1>8, <1>9 DEF Calls

LEMMA EncoderFormer ==
  ASSUME TypeInv, FormerGot, FormerSeen, Encoder
  PROVE  FormerGot' /\ FormerSeen'
<1>1. ASSUME BeginLoop \/ EndLoop \/ Encode \/ Encrypt \/ Offer  PROVE FormerGot' /\ FormerSeen'
  BY <1>1 DEF BeginLoop, EndLoop, Encode, Encrypt, Offer, FormerGot, FormerSeen, Seen,
     speakerVars, sendVars, listVars, listenerVars, playVars, queueVars
<1>2. ASSUME Add  PROVE FormerGot' /\ FormerSeen'
  <2>1. UNCHANGED <<speaker, otherAESCrypto, transmissionState, connected, listener,
                    myAESVoiceCrypto, gotNumberMap>>
    BY <1>2 DEF Add, speakerVars, listenerVars, playVars, queueVars
  <2>2. /\ polledHashMap' = [polledHashMap EXCEPT ![encoder.to] = @ \cup {encoder.packet}]
        /\ left' = IF encoder.packet.call = otherAESCrypto /\ connected[encoder.to] = "yes"
                   THEN left ELSE left \cup {encoder.packet}
    BY <1>2 DEF Add
  <2>3. left \subseteq left'
    BY <2>2
  <2>4. FormerGot'
    BY <2>1, <2>3 DEF FormerGot
  <2>5. ASSUME NEW m \in Manager
        PROVE  /\ connected[m] = "clearing" => In(voiceOutputDataQueue'[m]) \subseteq left'
               /\ connected[m] \in {"closing", "no"} =>
                    polledHashMap'[m] \cup In(voiceOutputDataQueue'[m]) \subseteq left'
               /\ transmissionState[m] =>
                    \A q \in (polledHashMap'[m] \cup In(voiceOutputDataQueue'[m])) \ left' :
                      q.call = otherAESCrypto
    <3>1. CASE m = encoder.to
      <4>1. polledHashMap'[m] = polledHashMap[m] \cup {encoder.packet}
        BY <2>2, <3>1 DEF TypeInv, ManagerTypes
      <4>2. In(voiceOutputDataQueue'[m]) \subseteq In(voiceOutputDataQueue[m]) \cup {encoder.packet}
        BY <1>2, <3>1, AddedToList
      <4>3. QED
        BY <2>2, <2>3, <3>1, <4>1, <4>2 DEF FormerSeen, Seen
    <3>2. CASE m # encoder.to
      <4>1. polledHashMap'[m] = polledHashMap[m] /\ voiceOutputDataQueue'[m] = voiceOutputDataQueue[m]
        BY <1>2, <2>2, <3>2, AddedToOthers
      <4>2. QED
        BY <2>3, <4>1 DEF FormerSeen, Seen
    <3>3. QED
      BY <3>1, <3>2
  <2>6. FormerSeen'
    BY <2>1, <2>5 DEF FormerSeen, Seen
  <2>7. QED
    BY <2>4, <2>6
<1>3. QED
  BY <1>1, <1>2 DEF Encoder

LEMMA ManagersFormer ==
  ASSUME TypeInv, FormerGot, FormerSeen, Managers
  PROVE  FormerGot' /\ FormerSeen'
<1>1. ASSUME NEW m \in Manager, StartTransmission(m)  PROVE FormerGot' /\ FormerSeen'
  <2>1. left \subseteq left' /\ Seen(m) \subseteq left'
    BY <1>1 DEF StartTransmission, FormerSeen, TypeInv, ManagerTypes
  <2>2. FormerGot'
    BY <1>1, <2>1 DEF StartTransmission, FormerGot, listenerVars, playVars, queueVars
  <2>3. FormerSeen'
    BY <1>1, <2>1 DEF StartTransmission, FormerSeen, Seen, TypeInv, ManagerTypes, speakerVars,
       listVars
  <2>4. QED
    BY <2>2, <2>3
<1>2. ASSUME NEW m \in Manager, Connect(m)  PROVE FormerGot' /\ FormerSeen'
  BY <1>2 DEF Connect, FormerGot, FormerSeen, Seen, TypeInv, ManagerTypes, speakerVars,
     listVars, listenerVars, playVars, queueVars
<1>3. ASSUME NEW m \in Manager, Write(m)  PROVE FormerGot' /\ FormerSeen'
  <2>1. UNCHANGED <<speaker, otherAESCrypto, transmissionState, connected, polledHashMap,
                    listener, myAESVoiceCrypto, gotNumberMap, left>>
    BY <1>3 DEF Write, speakerVars, listenerVars, playVars, queueVars
  <2>2. ASSUME NEW n \in Manager
        PROVE  In(voiceOutputDataQueue'[n]) \subseteq In(voiceOutputDataQueue[n])
    <3>1. /\ voiceOutputDataQueue[m] \in Seq(Packet) /\ voiceOutputDataQueue[m] # << >>
          /\ voiceOutputDataQueue' = [voiceOutputDataQueue EXCEPT ![m] = Tail(@)]
      BY <1>3 DEF Write, TypeInv, ManagerTypes
    <3>2. CASE n = m
      <4>1. voiceOutputDataQueue'[n] = Tail(voiceOutputDataQueue[m])
        BY <3>1, <3>2 DEF TypeInv, ManagerTypes
      <4>2. QED
        BY <3>1, <3>2, <4>1, TailProperties
    <3>3. CASE n # m
      BY <3>1, <3>3 DEF TypeInv, ManagerTypes
    <3>4. QED
      BY <3>2, <3>3
  <2>3. QED
    BY <2>1, <2>2 DEF FormerGot, FormerSeen, Seen
<1>4. ASSUME NEW m \in Manager, Close(m)  PROVE FormerGot' /\ FormerSeen'
  <2>1. /\ UNCHANGED <<speaker, otherAESCrypto, transmissionState, polledHashMap,
                       listener, myAESVoiceCrypto, gotNumberMap, left>>
        /\ connected' = [connected EXCEPT ![m] = "clearing"]
        /\ voiceOutputDataQueue' = [voiceOutputDataQueue EXCEPT ![m] = << >>]
        /\ ~ transmissionState[m]
    BY <1>4 DEF Close, speakerVars, listenerVars, playVars, queueVars
  <2>2. In(voiceOutputDataQueue'[m]) = {} /\ connected'[m] = "clearing"
    BY <2>1, EmptyIn DEF TypeInv, ManagerTypes
  <2>3. \A n \in Manager \ {m} : /\ voiceOutputDataQueue'[n] = voiceOutputDataQueue[n]
                                 /\ connected'[n] = connected[n]
    BY <2>1 DEF TypeInv, ManagerTypes
  <2>4. QED
    BY <2>1, <2>2, <2>3 DEF FormerGot, FormerSeen, Seen
<1>5. ASSUME NEW m \in Manager, Forget(m)  PROVE FormerGot' /\ FormerSeen'
  <2>1. /\ UNCHANGED <<speaker, otherAESCrypto, transmissionState, voiceOutputDataQueue,
                       listener, myAESVoiceCrypto, gotNumberMap, left>>
        /\ connected[m] = "clearing" /\ connected' = [connected EXCEPT ![m] = "closing"]
        /\ polledHashMap' = [polledHashMap EXCEPT ![m] = {}]
    BY <1>5 DEF Forget, speakerVars, listenerVars, playVars, queueVars
  <2>2. polledHashMap'[m] = {} /\ connected'[m] = "closing"
    BY <2>1 DEF TypeInv, ManagerTypes
  <2>3. \A n \in Manager \ {m} : polledHashMap'[n] = polledHashMap[n] /\ connected'[n] = connected[n]
    BY <2>1 DEF TypeInv, ManagerTypes
  <2>4. QED
    BY <2>1, <2>2, <2>3 DEF FormerGot, FormerSeen, Seen
<1>6. ASSUME NEW m \in Manager, EndClose(m)  PROVE FormerGot' /\ FormerSeen'
  BY <1>6 DEF EndClose, FormerGot, FormerSeen, Seen, TypeInv, ManagerTypes, speakerVars,
     listVars, listenerVars, playVars, queueVars
<1>7. ASSUME NEW m \in Manager, Read(m)  PROVE FormerGot' /\ FormerSeen'
  BY <1>7 DEF Read, FormerGot, FormerSeen, Seen, speakerVars, sendVars, listVars, listenerVars,
     queueVars
<1>8. ASSUME EnableFrom  PROVE FormerGot' /\ FormerSeen'
  BY <1>8 DEF EnableFrom, FormerGot, FormerSeen, Seen, TypeInv, ManagerTypes, speakerVars,
     listVars, listenerVars, playVars, queueVars
<1>9. QED
  BY <1>1, <1>2, <1>3, <1>4, <1>5, <1>6, <1>7, <1>8 DEF Managers

LEMMA PlayerFormer ==
  ASSUME TypeInv, FormerGot, FormerSeen, Player
  PROVE  FormerGot' /\ FormerSeen'
<1>1. ASSUME Find \/ LookForPacket \/ Play  PROVE FormerGot' /\ FormerSeen'
  BY <1>1 DEF Find, LookForPacket, Play, FormerGot, FormerSeen, Seen, speakerVars, sendVars,
     listVars, listenerVars, queueVars
<1>2. ASSUME Insert  PROVE FormerGot' /\ FormerSeen'
  <2>1. UNCHANGED <<speaker, otherAESCrypto, transmissionState, connected, polledHashMap,
                    voiceOutputDataQueue, listener, myAESVoiceCrypto>>
    BY <1>2 DEF Insert, speakerVars, sendVars, listVars, listenerVars
  <2>2. \/ UNCHANGED <<gotNumberMap, left>>
        \/ /\ gotNumberMap' = gotNumberMap \cup {putter.packet}
           /\ left' = IF listener \in InCall \cup {"ending", "stopping"}
                         /\ putter.packet.call = myAESVoiceCrypto
                      THEN left ELSE left \cup {putter.packet}
    BY <1>2 DEF Insert
  <2>3. left \subseteq left'
    BY <2>2
  <2>4. FormerSeen'
    BY <2>1, <2>3 DEF FormerSeen, Seen
  <2>5. FormerGot'
    BY <2>1, <2>2, <2>3 DEF FormerGot
  <2>6. QED
    BY <2>4, <2>5
<1>3. QED
  BY <1>1, <1>2 DEF Player

-----------------------------------------------------------------------------
(***************************************************************************)
(* On their way to the listener.                                           *)
(***************************************************************************)

\* Where a packet is that the list of manager m has accepted, except while close clears
\* one after the other what waits and what has been seen.
Accepted ==
  Speaks =>
    \A m \in Manager : connected[m] # "clearing" =>
      polledHashMap[m] \subseteq In(voiceOutputDataQueue[m]) \cup network[m] \cup unsent[m]

\* Where a packet of the call is that has come to put.
Got ==
  Listens /\ listener \in InCall =>
    \A p \in arrived : p = putter.packet \/ Numbered(p.seq, gotNumberMap)

LEMMA CallsAccepted ==
  ASSUME Accepted, Calls \/ Player
  PROVE  Accepted'
<1>1. /\ UNCHANGED <<connected, polledHashMap, voiceOutputDataQueue, network, unsent>>
      /\ crashed \subseteq crashed'
  BY DEF Calls, Answer, Called, StartEncoding, StartPlaying, HangUp, StopReading,
     StopEncoding, StopPlaying, reset, Player, Find, Insert, LookForPacket, Play,
     sendVars, listVars
<1>2. QED
  BY <1>1 DEF Accepted

LEMMA EncoderAccepted ==
  ASSUME TypeInv, Accepted, Encoder
  PROVE  Accepted'
<1>1. ASSUME ~ Add  PROVE Accepted'
  <2>1. /\ UNCHANGED <<connected, polledHashMap, voiceOutputDataQueue, network, unsent>>
        /\ crashed \subseteq crashed'
    BY <1>1 DEF Encoder, BeginLoop, EndLoop, Encode, Encrypt, Offer, sendVars, listVars
  <2>2. QED
    BY <2>1 DEF Accepted
<1>2. ASSUME Add  PROVE Accepted'
  <2>1. /\ UNCHANGED <<connected, network>> /\ crashed \subseteq crashed'
        /\ polledHashMap' = [polledHashMap EXCEPT ![encoder.to] = @ \cup {encoder.packet}]
    BY <1>2 DEF Add
  <2>2. ASSUME "speaker" \notin crashed', NEW m \in Manager, connected[m] # "clearing"
        PROVE  polledHashMap'[m]
                 \subseteq In(voiceOutputDataQueue'[m]) \cup network[m] \cup unsent'[m]
    <3>1. polledHashMap[m] \subseteq In(voiceOutputDataQueue[m]) \cup network[m] \cup unsent[m]
      BY <2>1, <2>2 DEF Accepted
    <3>2. CASE m = encoder.to
      <4>1. polledHashMap'[m] = polledHashMap[m] \cup {encoder.packet}
        BY <2>1, <3>2 DEF TypeInv, ManagerTypes
      <4>2. In(voiceOutputDataQueue[m]) \cup {encoder.packet} \cup unsent[m]
              \subseteq In(voiceOutputDataQueue'[m]) \cup unsent'[m]
        BY <1>2, <2>2, <3>2, AddedToList
      <4>3. QED
        BY <3>1, <4>1, <4>2
    <3>3. CASE m # encoder.to
      BY <1>2, <3>1, <3>3, AddedToOthers
    <3>4. QED
      BY <3>2, <3>3
  <2>3. QED
    BY <2>1, <2>2 DEF Accepted
<1>3. QED
  BY <1>1, <1>2

LEMMA ManagersAccepted ==
  ASSUME TypeInv, Accepted, Managers
  PROVE  Accepted'
<1>1. crashed' = crashed
  BY DEF Managers, EnableFrom, StartTransmission, Connect, Write, Close, Forget, EndClose, Read
<1>2. ASSUME \/ EnableFrom
             \/ \E m \in Manager : StartTransmission(m) \/ Read(m)
      PROVE  Accepted'
  <2>1. UNCHANGED <<connected, polledHashMap, voiceOutputDataQueue, network, unsent>>
    BY <1>2 DEF EnableFrom, StartTransmission, Read, sendVars, listVars
  <2>2. QED
    BY <1>1, <2>1 DEF Accepted
<1>3. ASSUME NEW m \in Manager, Connect(m) \/ EndClose(m)  PROVE Accepted'
  <2>1. /\ UNCHANGED <<polledHashMap, voiceOutputDataQueue, network, unsent>>
        /\ connected[m] # "clearing"
        /\ \A n \in Manager \ {m} : connected'[n] = connected[n]
    BY <1>3 DEF Connect, EndClose, listVars, TypeInv, ManagerTypes
  <2>2. QED
    BY <1>1, <2>1 DEF Accepted
<1>4. ASSUME NEW m \in Manager, Write(m)  PROVE Accepted'
  <2>1. /\ UNCHANGED <<connected, polledHashMap, unsent>> /\ connected[m] = "yes"
        /\ network' = [network EXCEPT ![m] = @ \cup {Head(voiceOutputDataQueue[m])}]
        /\ voiceOutputDataQueue' = [voiceOutputDataQueue EXCEPT ![m] = Tail(@)]
        /\ voiceOutputDataQueue[m] # << >>
    BY <1>4 DEF Write
  <2>2. /\ voiceOutputDataQueue[m] \in Seq(Packet)
        /\ voiceOutputDataQueue'[m] = Tail(voiceOutputDataQueue[m])
        /\ network'[m] = network[m] \cup {Head(voiceOutputDataQueue[m])}
    BY <1>4, <2>1 DEF TypeInv, ManagerTypes
  <2>3. In(voiceOutputDataQueue[m])
          \subseteq In(voiceOutputDataQueue'[m]) \cup {Head(voiceOutputDataQueue[m])}
    BY <2>1, <2>2, TailProperties
  <2>4. \A n \in Manager \ {m} : /\ voiceOutputDataQueue'[n] = voiceOutputDataQueue[n]
                                 /\ network'[n] = network[n]
    BY <2>1 DEF TypeInv, ManagerTypes
  <2>5. QED
    BY <1>1, <2>1, <2>2, <2>3, <2>4 DEF Accepted
<1>5. ASSUME NEW m \in Manager, Close(m)  PROVE Accepted'
  <2>1. UNCHANGED <<polledHashMap, network, unsent>>
    BY <1>5 DEF Close
  <2>2. connected'[m] = "clearing"
    BY <1>5 DEF Close, TypeInv, ManagerTypes
  <2>3. \A n \in Manager \ {m} : /\ voiceOutputDataQueue'[n] = voiceOutputDataQueue[n]
                                 /\ connected'[n] = connected[n]
    BY <1>5 DEF Close, TypeInv, ManagerTypes
  <2>4. QED
    BY <1>1, <2>1, <2>2, <2>3 DEF Accepted
<1>6. ASSUME NEW m \in Manager, Forget(m)  PROVE Accepted'
  <2>1. UNCHANGED <<voiceOutputDataQueue, network>> /\ polledHashMap'[m] = {}
    BY <1>6 DEF Forget, TypeInv, ManagerTypes
  <2>2. \A n \in Manager \ {m} : /\ polledHashMap'[n] = polledHashMap[n]
                                 /\ unsent'[n] = unsent[n] /\ connected'[n] = connected[n]
    BY <1>6 DEF Forget, TypeInv, ManagerTypes
  <2>3. QED
    BY <1>1, <2>1, <2>2 DEF Accepted
<1>7. QED
  BY <1>2, <1>3, <1>4, <1>5, <1>6 DEF Managers

LEMMA CallsGot ==
  ASSUME Got, Calls
  PROVE  Got'
<1>1. ASSUME Answer  PROVE Got'
  BY <1>1 DEF Answer, Got
<1>2. ASSUME ~ Answer  PROVE Got'
  <2>1. /\ UNCHANGED <<crashed, arrived, putter>>
        /\ listener' \in InCall => listener \in InCall /\ gotNumberMap' = gotNumberMap
    BY <1>2 DEF Calls, Called, StartEncoding, StartPlaying, HangUp, StopReading, StopEncoding,
       StopPlaying, reset, listenerVars, playVars, queueVars
  <2>2. QED
    BY <2>1 DEF Got
<1>3. QED
  BY <1>1, <1>2

LEMMA SpeakerGot ==
  ASSUME Got, Encoder \/ Managers, ~ (\E m \in Manager : Read(m))
  PROVE  Got'
<1>1. /\ UNCHANGED <<listener, arrived, putter, gotNumberMap>>
      /\ crashed \subseteq crashed'
  BY DEF Encoder, BeginLoop, EndLoop, Encode, Encrypt, Offer, Add, Managers, EnableFrom,
     StartTransmission, Connect, Write, Close, Forget, EndClose, listenerVars, playVars, queueVars
<1>2. QED
  BY <1>1 DEF Got

\* What arrives comes into put's hands, which were empty.
LEMMA ReadGot ==
  ASSUME TypeInv, Got, NEW m \in Manager, Read(m)
  PROVE  Got'
<1>1. /\ UNCHANGED <<listener, crashed, gotNumberMap>>
      /\ \A p \in arrived : p # putter.packet
  BY StreamAssumption DEF Read, listenerVars, queueVars, TypeInv, PutterTypes, OtherTypes, Packet
<1>2. \/ UNCHANGED <<putter, arrived>>
      \/ \E p \in Packet : putter'.packet = p /\ arrived' = arrived \cup {p}
  BY DEF Read, TypeInv, PutterTypes, ManagerTypes
<1>3. QED
  BY <1>1, <1>2 DEF Got

LEMMA PlayerGot ==
  ASSUME TypeInv, Got, Player
  PROVE  Got'
<1>1. UNCHANGED <<listener, arrived>> /\ crashed \subseteq crashed'
  BY DEF Player, Find, Insert, LookForPacket, Play, listenerVars
<1>2. ASSUME LookForPacket \/ Play  PROVE Got'
  <2>1. UNCHANGED <<putter, gotNumberMap>>
    BY <1>2 DEF LookForPacket, Play, queueVars
  <2>2. QED
    BY <1>1, <2>1 DEF Got
<1>3. ASSUME Find  PROVE Got'
  <2>1. /\ gotNumberMap' = gotNumberMap
        /\ putter'.packet = putter.packet \/ Numbered(putter.packet.seq, gotNumberMap)
    BY <1>3 DEF Find, queueVars, TypeInv, PutterTypes
  <2>2. QED
    BY <1>1, <2>1 DEF Got
<1>4. ASSUME Insert  PROVE Got'
  <2>1. "listener" \notin crashed' => gotNumberMap' = gotNumberMap \cup {putter.packet}
    BY <1>4 DEF Insert
  <2>2. "listener" \notin crashed' =>
          /\ Numbered(putter.packet.seq, gotNumberMap')
          /\ \A n : Numbered(n, gotNumberMap) => Numbered(n, gotNumberMap')
    BY <2>1 DEF Numbered
  <2>3. QED
    BY <1>1, <2>2 DEF Got
<1>5. QED
  BY <1>2, <1>3, <1>4 DEF Player

-----------------------------------------------------------------------------
StreamInv ==
  TypeInv /\ Order /\ FormerGot /\ FormerSeen /\ Accepted /\ Got

LEMMA InitialStream ==
  Init => StreamInv
<1> SUFFICES ASSUME Init  PROVE StreamInv
  OBVIOUS
<1>1. 0 \in Manager
  BY StreamAssumption DEF Manager
<1>2. << >> \in Seq(Packet) /\ Len(<< >>) = 0 /\ LIST_SIZE >= 0 /\ QUEUE_SIZE >= 0
  BY EmptyIsQueue, StreamAssumption
<1>3. SpeakerTypes /\ EncoderTypes /\ ListenerTypes /\ PutterTypes /\ OtherTypes
  BY <1>1 DEF Init, SpeakerTypes, EncoderTypes, ListenerTypes, PutterTypes, OtherTypes
<1>4. ManagerTypes /\ QueueTypes
  BY <1>2 DEF Init, ManagerTypes, QueueTypes
<1>5. Order
  BY EmptyIn DEF Init, Order
<1>6. FormerGot /\ FormerSeen
  BY EmptyIn DEF Init, FormerGot, FormerSeen, Seen
<1>7. Accepted /\ Got
  BY DEF Init, Accepted, Got
<1>8. QED
  BY <1>3, <1>4, <1>5, <1>6, <1>7 DEF StreamInv, TypeInv

LEMMA StepStream ==
  ASSUME StreamInv, Next
  PROVE  StreamInv'
<1>1. TypeInv /\ Order /\ FormerGot /\ FormerSeen /\ Accepted /\ Got
  BY DEF StreamInv
<1>2. TypeInv'
  BY <1>1, CallsTyped, EncoderTyped, ManagersTyped, PlayerTyped DEF Next
<1>3. Order'
  BY <1>1, StepOrder
<1>4. FormerGot' /\ FormerSeen'
  BY <1>1, CallsFormer, EncoderFormer, ManagersFormer, PlayerFormer DEF Next
<1>5. Accepted'
  BY <1>1, CallsAccepted, EncoderAccepted, ManagersAccepted DEF Next
<1>6. Got'
  BY <1>1, CallsGot, SpeakerGot, ReadGot, PlayerGot DEF Next
<1>7. QED
  BY <1>2, <1>3, <1>4, <1>5, <1>6 DEF StreamInv

LEMMA StutterStream ==
  ASSUME StreamInv, UNCHANGED vars
  PROVE  StreamInv'
<1>1. UNCHANGED <<speaker, otherAESCrypto, encodeState, spoken, seqNumber, encoder,
                  transmissionState, connected, voiceOutputDataQueue, polledHashMap, network,
                  listener, myAESVoiceCrypto, playState, putter, ownList, gotNumberMap, played,
                  callback, starting, crashed, arrived, unsent, unplayed, left>>
  BY DEF vars, speakerVars, encoderVars, sendVars, listVars, listenerVars, playVars, queueVars
<1>2. TypeInv'
  BY <1>1 DEF StreamInv, TypeInv, SpeakerTypes, EncoderTypes, ManagerTypes, ListenerTypes,
     PutterTypes, QueueTypes, OtherTypes
<1>3. Order'
  BY <1>1 DEF StreamInv, Order, Placed
<1>4. FormerGot' /\ FormerSeen'
  BY <1>1 DEF StreamInv, FormerGot, FormerSeen, Seen
<1>5. Accepted' /\ Got'
  BY <1>1 DEF StreamInv, Accepted, Got
<1>6. QED
  BY <1>2, <1>3, <1>4, <1>5 DEF StreamInv

\* What the four theorems below rest on holds whatever the threads of both clients, the
\* connections and the network do.
THEOREM StreamInvariant == Spec => []StreamInv
<1>1. Init => StreamInv
  BY InitialStream
<1>2. StreamInv /\ [Next]_vars => StreamInv'
  BY StepStream, StutterStream
<1>3. QED
  BY <1>1, <1>2, PTL DEF Spec

\* Every variable keeps its type, and the lists their limits.
THEOREM StreamTyped == Spec => []TypeOK
<1>1. StreamInv => TypeOK
  BY TypesHold DEF StreamInv
<1>2. QED
  BY <1>1, StreamInvariant, PTL

\* However late, twice or out of order the packets of OpenSLAudioPlayer.put arrive, and
\* wherever the callback pops between PriorityQueue::put's search and its insertion,
\* they wait in the order of their numbers, and no number waits that has been played.
THEOREM PlayedInOrder == Spec => []PlaysInOrderOnce
<1>1. StreamInv => PlaysInOrderOnce
  BY DEF StreamInv, Order, Sorted, PlaysInOrderOnce
<1>2. QED
  BY <1>1, StreamInvariant, PTL

\* What the clients themselves lose is what is too much: a packet that the list of a
\* connected VoiceManager has accepted waits or has been written, whatever offer, write
\* and close do in between, and the number of one that has come to OpenSLAudioPlayer.put
\* waits or was played; or it was dropped from a list or queue that was too long.
THEOREM OnlyChannelsLose == Spec => []ClientsLoseNothing
<1>1. StreamInv => ClientsLoseNothing
  BY DEF StreamInv, Order, Accepted, Got, Numbered, ClientsLoseNothing
<1>2. QED
  BY <1>1, StreamInvariant, PTL

\* What the lists and the PriorityQueue remember in a call is of this call, but for
\* what had to be left behind.
THEOREM NothingOfFormer == Spec => []NoneOfFormer
<1>1. StreamInv => NoneOfFormer
  BY DEF StreamInv, FormerGot, FormerSeen, NoneOfFormer
<1>2. QED
  BY <1>1, StreamInvariant, PTL
=============================================================================
