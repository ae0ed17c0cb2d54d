------------------------- MODULE CallProtocolProofs -------------------------
(***************************************************************************)
(* Three invariants of CallProtocol.                                       *)
(*   The types of its variables rest on what every message carries (Sent), *)
(* and on how often a client connects (Limits): after a loss it connects   *)
(* once, and once more if it is being left at that moment.                 *)
(*   That client and server agree rests on what may be on its way while a  *)
(* client logs in and while a call is set up, goes on and ends (Agreed).   *)
(*   That the voice keys of a call fit rests on that agreement, and on     *)
(* whose key each message carries (KeyInv).                                *)
(***************************************************************************)
EXTENDS CallProtocolInvariant, SequenceTheorems, TLAPS

USE DEF State, Thread, SState

LEMMA TypesHold == TypeInv => TypeOK
<1>1. Sent \subseteq Message
  BY DEF Sent
<1>2. Seq(Sent) \subseteq Seq(Message)
  BY <1>1
<1>3. QED
  BY <1>1, <1>2 DEF TypeInv, StateTypes, UiTypes, NetTypes, CryptoTypes, OutputTypes, PartyTypes,
     NumberTypes, UpTypes, DownTypes, HistoryTypes, CounterTypes, TypeOK

-----------------------------------------------------------------------------
(***************************************************************************)
(* Messages and queues of them.                                            *)
(***************************************************************************)
LEMMA PlainType ==
  ASSUME NEW op \in {"PUT_PUBLIC_KEY", "PUT_SECRET_KEY", "PUT_CURRENT_VERSION", "VERSION_OK",
                     "PUT_PRANKKEY", "GET_NEWPHONENUMBER", "PUT_PHONENUMBER", "CALL_OFF",
                     "WRONG_NUMBER_ERROR", "DEST_CALLING_ERROR", "CALL_ACCEPT_ERROR", "BYE"},
         NEW id \in Nat
  PROVE  Plain(op, id) \in Sent /\ Plain(op, id).op = op
  BY DEF Plain, buildOperation, Sent, Message

LEMMA KeyMessageType ==
  ASSUME NEW op \in {"CALL_TO2", "CALL_ACCEPT"}, NEW secret \in Secret, NEW id \in Nat
  PROVE  /\ buildOperation(op, None, secret, id) \in Sent
         /\ buildOperation(op, None, secret, id).op = op
  BY DEF buildOperation, Sent, Message

LEMMA SessionMessageType ==
  ASSUME NEW s \in Session, NEW id \in Nat
  PROVE  /\ buildOperation("CALL_RESPONSE", s, None, id) \in Sent
         /\ \A secret \in Secret : buildOperation("CALLED_FROM", s, secret, id) \in Sent
  BY DEF buildOperation, Sent, Message

LEMMA NumberMessageType ==
  ASSUME NEW number \in Client \cup {None}, NEW id \in Nat
  PROVE  /\ buildOperation("CALL_TO", number, None, id) \in Sent
         /\ buildOperation("CALL_TO", number, None, id).op = "CALL_TO"
  BY DEF buildOperation, Sent, Message

LEMMA SentFields ==
  ASSUME NEW m \in Sent
  PROVE  /\ m.call \in Nat /\ m.secret \in Secret \cup {None}
         /\ m.op \in {"CALL_TO2", "CALLED_FROM", "CALL_ACCEPT"} =>
              m.secret \in Secret /\ m.secret.key \in Key
         /\ m.op \in {"CALL_RESPONSE", "CALLED_FROM"} => m.arg \in Session
         /\ m.op = "CALL_TO" => m.arg \in Client \cup {None}
<1>1. \A x \in Secret : x.key \in Key
  BY DEF Secret
<1>2. QED BY <1>1 DEF Sent, Message

LEMMA QueueHead ==
  ASSUME NEW S, NEW q \in Seq(S), q # << >>
  PROVE  Head(q) \in S /\ Tail(q) \in Seq(S)
  OBVIOUS

LEMMA QueuePrefix ==
  ASSUME NEW q \in Seq(Sent), NEW n \in 0..Len(q)
  PROVE  /\ SubSeq(q, 1, n) \in Seq(Sent)
         /\ DOMAIN SubSeq(q, 1, n) \subseteq DOMAIN q
         /\ \A i \in DOMAIN SubSeq(q, 1, n) : SubSeq(q, 1, n)[i] = q[i]
<1>1. Len(q) \in Nat /\ DOMAIN q = 1..Len(q) /\ n \in Int /\ 1 \in Int
  OBVIOUS
<1>2. \A i \in 1..n : q[i] \in Sent
  BY <1>1
<1>3. /\ SubSeq(q, 1, n) \in Seq(Sent) /\ Len(SubSeq(q, 1, n)) = n
      /\ \A i \in 1..n : SubSeq(q, 1, n)[i] = q[i]
  BY <1>1, <1>2, SubSeqProperties
<1>4. DOMAIN SubSeq(q, 1, n) = 1..n
  BY <1>3
<1>5. QED BY <1>1, <1>3, <1>4

LEMMA NowType ==
  ASSUME NetTypes, NEW c \in Client
  PROVE  Now(c) \in Session
  BY DEF NetTypes, Now, Session

LEMMA SessionClient ==
  ASSUME NEW s \in Session
  PROVE  s[1] \in Client
  BY DEF Session

\* A mistake is recorded as TRUE or FALSE.
LEMMA OvertakenType ==
  ASSUME HistoryTypes, NEW b, Overtaken(b)
  PROVE  HistoryTypes'
  BY DEF HistoryTypes, Overtaken

LEMMA RegisterType ==
  ASSUME NEW queues \in [Session -> Seq(Sent)], NEW s, NEW m \in Sent
  PROVE  registerOutputMessage(queues, s, m) \in [Session -> Seq(Sent)]
<1>1. s \in Session => Append(queues[s], m) \in Seq(Sent)
  OBVIOUS
<1>2. QED BY <1>1 DEF registerOutputMessage

LEMMA QueueType ==
  ASSUME OutputTypes, NEW c \in Client, NEW m \in Sent, Queue(c, m)
  PROVE  OutputTypes'
<1>1. Append(outputMessageQueue[c], m) \in Seq(Sent)
  BY DEF OutputTypes
<1>2. QED BY <1>1 DEF Queue, OutputTypes

\* One act more, and its number.
LEMMA ActType ==
  ASSUME CounterTypes, Act
  PROVE  acts' \in 0..MaxActs /\ acts + 1 \in Nat
  BY BoundAssumption DEF CounterTypes, Act

LEMMA LossType ==
  ASSUME CounterTypes, NEW c \in Client, Loss(c)
  PROVE  losses' \in 0..MaxLosses
  BY BoundAssumption DEF CounterTypes, Loss

\* The key that is made, and encoded for who is to have it.
LEMMA VoiceKeyType ==
  ASSUME CryptoTypes, NEW c \in Client
  PROVE  /\ NextKey(c) \in Key
         /\ otherRSACrypto[c] # None => EncodedKey(c) \in Secret
<1>1. NextKey(c) \in Key
  BY DEF CryptoTypes, NextKey, Key
<1>2. QED BY <1>1 DEF CryptoTypes, EncodedKey, Secret

LEMMA NewVoiceKeyType ==
  ASSUME CryptoTypes, NEW c \in Client, NewVoiceKey(c)
  PROVE  /\ myAESVoiceCrypto' \in [Client -> Key \cup {None}]
         /\ voiceKeys' \in [Client -> Nat]
<1>1. NextKey(c) \in Key
  BY VoiceKeyType
<1>2. QED BY <1>1 DEF CryptoTypes, NewVoiceKey

\* Leaving the CallingFragment.
LEMMA DestroyType ==
  ASSUME StateTypes, CryptoTypes, OutputTypes, NEW c \in Client, destroy(c)
  PROVE  /\ StateTypes' /\ OutputTypes'
         /\ screen' = [screen EXCEPT ![c] = "list"]
         /\ otherRSACrypto' \in [Client -> Session \cup {None}]
         /\ otherAESCrypto' \in [Client -> Key \cup {None}]
<1>1. call[c] \in Nat
  BY DEF StateTypes
<1>2. Plain("CALL_OFF", call[c]) \in Sent
  BY <1>1, PlainType
<1>3. OutputTypes'
  BY <1>2, QueueType DEF destroy
<1>4. StateTypes'
  BY DEF destroy, StateTypes
<1>5. QED BY <1>3, <1>4 DEF destroy, CryptoTypes

-----------------------------------------------------------------------------
(***************************************************************************)
(* How often a client connects.                                            *)
(***************************************************************************)
LEMMA ConnectsInTime ==
  ASSUME NetTypes, Limits, NEW c \in Client, OnNetworkConnected(c)
  PROVE  connections[c] + 1 \in 0..MaxConnections
<1>1. connections[c] \in Nat /\ MaxConnections \in Nat
  BY BoundAssumption DEF NetTypes, MaxConnections
<1>2. Again(c) >= 1
  BY DEF OnNetworkConnected, Again, Returns
<1>3. Again(c) \in {0, 1, 2}
  BY DEF Again
<1>4. QED BY <1>1, <1>2, <1>3 DEF Limits

-----------------------------------------------------------------------------
(***************************************************************************)
(* What the users do.                                                      *)
(***************************************************************************)
LEMMA UserTyped ==
  ASSUME TypeInv, Limits, NEW c \in Client, User(c)
  PROVE  TypeInv'
<1>1. ASSUME NEW number \in Client \cup {None}, Dial(c, number)  PROVE TypeInv'
  BY <1>1, ActType, NumberMessageType, QueueType DEF Dial, TypeInv, NetTypes, CryptoTypes,
     PartyTypes, NumberTypes, UpTypes, DownTypes, cryptos, netVars, serverVars, channels,
     StateTypes, UiTypes, HistoryTypes, CounterTypes
<1>2. ASSUME getNewPhoneNumber(c)  PROVE TypeInv'
  BY <1>2, PlainType, QueueType, ActType DEF getNewPhoneNumber, TypeInv, StateTypes, UiTypes,
     NetTypes, CryptoTypes, PartyTypes, NumberTypes, UpTypes, DownTypes, HistoryTypes, cryptos,
     uiVars, netVars, serverVars, channels, CounterTypes
<1>3. ASSUME Accept(c)  PROVE TypeInv'
  BY <1>3, NewVoiceKeyType, VoiceKeyType, KeyMessageType, QueueType, ActType DEF Accept, TypeInv,
     StateTypes, NetTypes, PartyTypes, NumberTypes, UpTypes, DownTypes, netVars, serverVars,
     channels, UiTypes, CryptoTypes, Overtaken, HistoryTypes, CounterTypes
<1>4. ASSUME HangUp(c)  PROVE TypeInv'
  BY <1>4, DestroyType, ActType DEF HangUp, TypeInv, NetTypes, PartyTypes, NumberTypes, UpTypes,
     DownTypes, HistoryTypes, netVars, serverVars, channels, UiTypes, CryptoTypes, CounterTypes
<1>5. ASSUME onPause(c)  PROVE TypeInv'
  BY <1>5, PlainType, QueueType, LossType DEF onPause, TypeInv, NetTypes, CryptoTypes, PartyTypes,
     NumberTypes, UpTypes, DownTypes, HistoryTypes, cryptos, netVars, serverVars, channels,
     StateTypes, UiTypes, CounterTypes
<1>6. ASSUME onResume(c)  PROVE TypeInv'
  BY <1>6, OvertakenType DEF onResume, TypeInv, CryptoTypes, OutputTypes, PartyTypes, NumberTypes,
     UpTypes, DownTypes, CounterTypes, cryptos, serverVars, channels, StateTypes, UiTypes,
     NetTypes
<1>7. ASSUME Crash(c)  PROVE TypeInv'
  <2>1. PartyTypes' /\ NumberTypes' /\ UpTypes' /\ DownTypes' /\ HistoryTypes'
    BY <1>7 DEF Crash, TypeInv, PartyTypes, NumberTypes, UpTypes, DownTypes, HistoryTypes,
       serverVars, channels
  <2>2. StateTypes'
    BY <1>7 DEF Crash, TypeInv, StateTypes
  <2>3. UiTypes'
    BY <1>7 DEF Crash, TypeInv, UiTypes
  <2>4. NetTypes'
    BY <1>7 DEF Crash, TypeInv, NetTypes
  <2>5. CryptoTypes'
    BY <1>7 DEF Crash, TypeInv, CryptoTypes
  <2>6. OutputTypes'
    BY <1>7 DEF Crash, TypeInv, OutputTypes
  <2>7. CounterTypes'
    BY <1>7, LossType DEF Crash, TypeInv, CounterTypes
  <2>8. QED BY <2>1, <2>2, <2>3, <2>4, <2>5, <2>6, <2>7 DEF TypeInv
<1>8. ASSUME close(c, TRUE)  PROVE TypeInv'
  <2>1. StateTypes' /\ UiTypes' /\ CryptoTypes' /\ OutputTypes' /\ PartyTypes' /\
       NumberTypes' /\ DownTypes' /\ HistoryTypes'
    BY <1>8 DEF close, TypeInv, StateTypes, UiTypes, CryptoTypes, OutputTypes, PartyTypes,
       NumberTypes, DownTypes, HistoryTypes, cryptos, uiVars, serverVars
  <2>2. NetTypes'
    BY <1>8 DEF close, TypeInv, NetTypes
  <2>3. UpTypes'
    BY <1>8, NowType, QueuePrefix DEF close, TypeInv, UpTypes
  <2>4. CounterTypes'
    BY <1>8, LossType DEF close, TypeInv, CounterTypes
  <2>5. QED BY <2>1, <2>2, <2>3, <2>4 DEF TypeInv
<1>9. QED BY <1>1, <1>2, <1>3, <1>4, <1>5, <1>6, <1>7, <1>8 DEF User

-----------------------------------------------------------------------------
(***************************************************************************)
(* What a client's threads do: first what read does with message m.        *)
(***************************************************************************)
LEMMA LoggedInTyped ==
  ASSUME TypeInv, NEW c \in Client, NEW m \in Sent, LoggedIn(c, m)
  PROVE  ReadTypes
<1>1. Plain(Reply[m.op], 0) \in Sent
  BY PlainType DEF LoggedIn, Reply
<1>2. OutputTypes'
  BY <1>1, QueueType DEF LoggedIn, TypeInv
<1>3. state' \in [Client -> State] /\ call' \in [Client -> Nat]
  BY DEF LoggedIn, TypeInv, StateTypes
<1>4. keys' \in [Client -> {"none", "RSA", "AES"}]
  BY DEF LoggedIn, TypeInv, NetTypes
<1>5. UNCHANGED <<received, handler, otherRSACrypto, otherAESCrypto>>
  BY DEF LoggedIn
<1>6. HistoryTypes'
  BY OvertakenType DEF LoggedIn, TypeInv
<1>7. QED BY <1>2, <1>3, <1>4, <1>5, <1>6 DEF ReadTypes, TypeInv, NetTypes, UiTypes, CryptoTypes

LEMMA BeginTyped ==
  ASSUME TypeInv, NEW c \in Client, NEW m \in Sent, Begin(c, m)
  PROVE  ReadTypes
<1>1. m.op = "CALL_RESPONSE" => m.arg \in Session
  BY SentFields
<1>2. otherRSACrypto' \in [Client -> Session \cup {None}]
  BY <1>1 DEF Begin, TypeInv, CryptoTypes
<1>3. received' \in [Client -> Sent \cup {None}]
  BY DEF Begin, TypeInv, NetTypes
<1>4. HistoryTypes'
  BY DEF Begin, Overtaken, TypeInv, HistoryTypes
<1>5. UNCHANGED <<outputMessageQueue, keys, state, handler, otherAESCrypto, call>>
  BY DEF Begin
<1>6. QED
  BY <1>2, <1>3, <1>4, <1>5 DEF ReadTypes, TypeInv, StateTypes, NetTypes, UiTypes, CryptoTypes,
     OutputTypes

LEMMA EndedTyped ==
  ASSUME TypeInv, NEW c \in Client, NEW m \in Sent, Ended(c, m)
  PROVE  ReadTypes
<1>1. handler' \in [Client -> Seq({"MSG_CALLEDFROM", "MSG_CALLRESPONSE", "MSG_CALLOFFED"})]
  <2>1. Append(handler[c], "MSG_CALLOFFED")
          \in Seq({"MSG_CALLEDFROM", "MSG_CALLRESPONSE", "MSG_CALLOFFED"})
    BY DEF TypeInv, UiTypes
  <2>2. QED BY <2>1 DEF Ended, TypeInv, UiTypes
<1>2. /\ otherRSACrypto' \in [Client -> Session \cup {None}]
      /\ otherAESCrypto' \in [Client -> Key \cup {None}]
  BY DEF Ended, TypeInv, CryptoTypes
<1>3. state' \in [Client -> State] /\ call' \in [Client -> Nat]
  BY DEF Ended, TypeInv, StateTypes
<1>4. HistoryTypes'
  BY DEF Ended, Overtaken, TypeInv, HistoryTypes
<1>5. UNCHANGED <<received, outputMessageQueue, keys>>
  BY DEF Ended
<1>6. QED BY <1>1, <1>2, <1>3, <1>4, <1>5 DEF ReadTypes, TypeInv, NetTypes, OutputTypes

LEMMA IgnoredTyped ==
  ASSUME TypeInv, NEW c \in Client, NEW m \in Sent, Ignored(c, m)
  PROVE  ReadTypes
<1>1. HistoryTypes'
  BY DEF Ignored, Overtaken, TypeInv, HistoryTypes
<1>2. UNCHANGED <<received, outputMessageQueue, keys, state, handler, otherRSACrypto,
                  otherAESCrypto, call>>
  BY DEF Ignored
<1>3. QED
  BY <1>1, <1>2 DEF ReadTypes, TypeInv, StateTypes, NetTypes, UiTypes, CryptoTypes, OutputTypes

LEMMA ReadTyped ==
  ASSUME TypeInv, NEW c \in Client, read(c)
  PROVE  ReadTypes /\ DownTypes'
<1>1. down[Now(c)] \in Seq(Sent) /\ down[Now(c)] # << >>
  BY NowType DEF read, TypeInv, DownTypes
<1>2. PICK m : m \in Sent /\ m = Head(down[Now(c)])
  BY <1>1, QueueHead
<1>3. LoggedIn(c, m) \/ Begin(c, m) \/ Ended(c, m) \/ Ignored(c, m)
  BY <1>2 DEF read
<1>4. ReadTypes
  BY <1>2, <1>3, LoggedInTyped, BeginTyped, EndedTyped, IgnoredTyped
<1>5. DownTypes'
  BY <1>1, QueueHead DEF read, TypeInv, DownTypes
<1>6. QED BY <1>4, <1>5

LEMMA ThreadsTyped ==
  ASSUME TypeInv, Limits, NEW c \in Client, Threads(c)
  PROVE  TypeInv'
<1>1. ASSUME Assign(c)  PROVE TypeInv'
  BY <1>1 DEF Assign, TypeInv, NetTypes, CryptoTypes, OutputTypes, PartyTypes, NumberTypes,
     UpTypes, DownTypes, CounterTypes, cryptos, netVars, serverVars, channels, StateTypes,
     UiTypes, Overtaken, HistoryTypes
<1>2. ASSUME doStop(c)  PROVE TypeInv'
  BY <1>2 DEF doStop, TypeInv, StateTypes, CryptoTypes, OutputTypes, PartyTypes, NumberTypes,
     UpTypes, DownTypes, HistoryTypes, CounterTypes, cryptos, serverVars, channels, UiTypes,
     NetTypes
<1>3. ASSUME handleMessage(c)  PROVE TypeInv'
  <2>1. NetTypes' /\ PartyTypes' /\ NumberTypes' /\ UpTypes' /\ DownTypes' /\
       HistoryTypes' /\ CounterTypes'
    BY <1>3 DEF handleMessage, TypeInv, NetTypes, PartyTypes, NumberTypes, UpTypes,
       DownTypes, HistoryTypes, CounterTypes, netVars, serverVars, channels
  <2>2. StateTypes'
    BY <1>3, DestroyType DEF handleMessage, TypeInv, StateTypes
  <2>3. UiTypes'
    BY <1>3, QueueHead DEF handleMessage, TypeInv, UiTypes, destroy
  <2>4. CryptoTypes'
    BY <1>3, DestroyType DEF handleMessage, TypeInv, CryptoTypes
  <2>5. OutputTypes'
    BY <1>3, DestroyType DEF handleMessage, TypeInv, OutputTypes
  <2>6. QED BY <2>1, <2>2, <2>3, <2>4, <2>5 DEF TypeInv
<1>4. ASSUME write(c)  PROVE TypeInv'
  <2>1. StateTypes' /\ UiTypes' /\ NetTypes' /\ CryptoTypes' /\ PartyTypes' /\
       NumberTypes' /\ DownTypes' /\ HistoryTypes' /\ CounterTypes'
    BY <1>4 DEF write, TypeInv, StateTypes, UiTypes, NetTypes, CryptoTypes, PartyTypes,
       NumberTypes, DownTypes, HistoryTypes, CounterTypes, cryptos, uiVars, netVars,
       serverVars
  <2>2. OutputTypes'
    BY <1>4, QueueHead DEF write, TypeInv, OutputTypes
  <2>3. UpTypes'
    BY <1>4, QueueHead, NowType DEF write, TypeInv, OutputTypes, UpTypes
  <2>4. QED BY <2>1, <2>2, <2>3 DEF TypeInv
<1>5. ASSUME read(c)  PROVE TypeInv'
  <2>1. PartyTypes' /\ NumberTypes' /\ UpTypes' /\ CounterTypes'
    BY <1>5 DEF read, TypeInv, PartyTypes, NumberTypes, UpTypes, CounterTypes, serverVars
  <2>2. StateTypes'
    BY <1>5, ReadTyped DEF ReadTypes, StateTypes
  <2>3. UiTypes'
    BY <1>5, ReadTyped DEF ReadTypes, read, TypeInv, UiTypes
  <2>4. NetTypes'
    BY <1>5, ReadTyped DEF ReadTypes, read, TypeInv, NetTypes
  <2>5. CryptoTypes'
    BY <1>5, ReadTyped DEF ReadTypes, read, TypeInv, CryptoTypes
  <2>6. OutputTypes'
    BY <1>5, ReadTyped DEF ReadTypes
  <2>7. DownTypes'
    BY <1>5, ReadTyped
  <2>8. HistoryTypes'
    BY <1>5, ReadTyped DEF ReadTypes
  <2>9. QED BY <2>1, <2>2, <2>3, <2>4, <2>5, <2>6, <2>7, <2>8 DEF TypeInv
<1>6. ASSUME Complete(c)  PROVE TypeInv'
  <2>1. PartyTypes' /\ NumberTypes' /\ UpTypes' /\ DownTypes' /\ CounterTypes'
    BY <1>6 DEF Complete, TypeInv, PartyTypes, NumberTypes, UpTypes, DownTypes,
       CounterTypes, serverVars, channels
  <2>2. StateTypes'
    BY <1>6, SentFields DEF Complete, TypeInv, NetTypes, StateTypes
  <2>3. UiTypes'
    <3>1. \A x \in {"MSG_CALLEDFROM", "MSG_CALLRESPONSE"} : Append(handler[c], x)
            \in Seq({"MSG_CALLEDFROM", "MSG_CALLRESPONSE", "MSG_CALLOFFED"})
      BY DEF TypeInv, UiTypes
    <3>2. \/ handler' = handler
          \/ \E x \in {"MSG_CALLEDFROM", "MSG_CALLRESPONSE"} : handler' = [handler EXCEPT ![c] = Append(@, x)]
      BY <1>6 DEF Complete
    <3>3. handler' \in [Client -> Seq({"MSG_CALLEDFROM", "MSG_CALLRESPONSE", "MSG_CALLOFFED"})]
      BY <3>1, <3>2 DEF TypeInv, UiTypes
    <3>4. UNCHANGED <<resumed, screen, at>>
      BY <1>6 DEF Complete
    <3>5. QED BY <3>3, <3>4 DEF TypeInv, UiTypes
  <2>4. NetTypes'
    BY <1>6 DEF Complete, TypeInv, NetTypes
  <2>5. CryptoTypes'
    <3>1. received[c] \in Sent
      BY <1>6 DEF Complete, TypeInv, NetTypes
    <3>2. CASE received[c].op = "CALLED_FROM"
      BY <3>1, <3>2, SentFields, <1>6 DEF Complete, TypeInv, CryptoTypes
    <3>3. CASE received[c].op = "CALL_ACCEPT"
      BY <3>1, <3>3, SentFields, <1>6 DEF Complete, TypeInv, CryptoTypes
    <3>4. CASE received[c].op = "CALL_RESPONSE"
      BY <1>6, <3>4, NewVoiceKeyType DEF Complete, TypeInv, CryptoTypes
    <3>5. QED BY <1>6, <3>2, <3>3, <3>4 DEF Complete
  <2>6. OutputTypes'
    BY <1>6, SentFields, VoiceKeyType, KeyMessageType, QueueType DEF Complete, TypeInv, NetTypes,
       OutputTypes
  <2>7. HistoryTypes'
    BY <1>6 DEF Complete, Overtaken, TypeInv, HistoryTypes
  <2>8. QED BY <2>1, <2>2, <2>3, <2>4, <2>5, <2>6, <2>7 DEF TypeInv
<1>7. ASSUME close(c, FALSE)  PROVE TypeInv'
  <2>1. StateTypes' /\ UiTypes' /\ CryptoTypes' /\ OutputTypes' /\ PartyTypes' /\
       NumberTypes' /\ DownTypes' /\ HistoryTypes'
    BY <1>7 DEF close, TypeInv, StateTypes, UiTypes, CryptoTypes, OutputTypes, PartyTypes,
       NumberTypes, DownTypes, HistoryTypes, cryptos, uiVars, serverVars
  <2>2. NetTypes'
    BY <1>7 DEF close, TypeInv, NetTypes
  <2>3. UpTypes'
    BY <1>7, NowType, QueuePrefix DEF close, TypeInv, UpTypes
  <2>4. CounterTypes'
    BY <1>7, LossType DEF close, TypeInv, CounterTypes
  <2>5. QED BY <2>1, <2>2, <2>3, <2>4 DEF TypeInv
<1>8. ASSUME Leaving(c)  PROVE TypeInv'
  BY <1>8 DEF Leaving, TypeInv, StateTypes, UiTypes, CryptoTypes, OutputTypes, PartyTypes,
     NumberTypes, UpTypes, DownTypes, HistoryTypes, CounterTypes, cryptos, uiVars, serverVars,
     channels, NetTypes
<1>9. ASSUME OnNetworkConnected(c)  PROVE TypeInv'
  <2>1. StateTypes' /\ UiTypes' /\ UpTypes' /\ DownTypes' /\ HistoryTypes' /\
       CounterTypes'
    BY <1>9 DEF OnNetworkConnected, TypeInv, StateTypes, UiTypes, UpTypes, DownTypes,
       HistoryTypes, CounterTypes, uiVars, channels
  <2>2. NetTypes'
    BY <1>9, ConnectsInTime DEF TypeInv, OnNetworkConnected, NetTypes
  <2>3. CryptoTypes'
    BY <1>9 DEF OnNetworkConnected, TypeInv, CryptoTypes
  <2>4. OutputTypes'
    BY PlainType, <1>9 DEF OnNetworkConnected, TypeInv, OutputTypes
  <2>5. PartyTypes'
    BY <1>9 DEF OnNetworkConnected, TypeInv, PartyTypes
  <2>6. NumberTypes'
    <3>1. connections[c] + 1 \in 0..MaxConnections
      BY <1>9, ConnectsInTime DEF TypeInv
    <3>2. <<c, connections[c] + 1>> \in Session
      BY <3>1 DEF Session
    <3>3. QED BY <1>9, <3>2 DEF OnNetworkConnected, TypeInv, NumberTypes
  <2>7. QED BY <2>1, <2>2, <2>3, <2>4, <2>5, <2>6 DEF TypeInv
<1>10. QED BY <1>1, <1>2, <1>3, <1>4, <1>5, <1>6, <1>7, <1>8, <1>9 DEF Threads

-----------------------------------------------------------------------------
(***************************************************************************)
(* What the server does: first the operation m of session s.               *)
(***************************************************************************)
LEMMA RejectType ==
  ASSUME DownTypes, NEW s \in Session, NEW m \in Sent,
         NEW error \in {"WRONG_NUMBER_ERROR", "DEST_CALLING_ERROR", "CALL_ACCEPT_ERROR"},
         Reject(s, m, error)
  PROVE  DownTypes'
<1>1. Plain(error, m.call) \in Sent
  BY SentFields, PlainType
<1>2. QED BY <1>1, RegisterType DEF Reject, DownTypes

LEMMA LogInTyped ==
  ASSUME TypeInv, NEW s \in sessionList, NEW m \in Sent, LogIn(s, m)
  PROVE  ServerTypes'
<1>1. Plain(Answer[m.op], 0) \in Sent
  BY PlainType DEF LogIn, Answer
<1>2. DownTypes'
  BY <1>1, RegisterType DEF LogIn, TypeInv, DownTypes
<1>3. QED
  BY <1>2 DEF LogIn, serverVars, ServerTypes, TypeInv, PartyTypes, NumberTypes, HistoryTypes

LEMMA PutNumberTyped ==
  ASSUME TypeInv, NEW s \in sessionList, NEW m \in Sent, PutNumber(s, m)
  PROVE  ServerTypes'
<1>1. s \in Session /\ s[1] \in Client
  BY SessionClient DEF TypeInv, NumberTypes
<1>2. Plain("PUT_PHONENUMBER", 0) \in Sent
  BY PlainType
<1>3. DownTypes'
  BY <1>2, RegisterType DEF PutNumber, TypeInv, DownTypes
<1>4. PartyTypes'
  BY <1>1 DEF PutNumber, TypeInv, PartyTypes
<1>5. NumberTypes'
  BY <1>1 DEF PutNumber, TypeInv, NumberTypes
<1>6. HistoryTypes'
  BY DEF PutNumber, Overtaken, TypeInv, HistoryTypes
<1>7. QED BY <1>3, <1>4, <1>5, <1>6 DEF ServerTypes

LEMMA CallToTyped ==
  ASSUME TypeInv, NEW s \in sessionList, NEW m \in Sent, CallTo(s, m)
  PROVE  ServerTypes'
<1>1. s \in Session
  BY DEF TypeInv, NumberTypes
<1>2. PICK dst : dst = IF m.arg = None THEN None ELSE sessionMapByPhoneNumber[m.arg]
  OBVIOUS
<1>3. m.op = "CALL_TO" /\ m.arg \in Client \cup {None} /\ m.call \in Nat
  BY SentFields DEF CallTo
<1>4. dst \in Session \cup {None}
  BY <1>2, <1>3 DEF TypeInv, NumberTypes
<1>5. HistoryTypes'
  BY DEF CallTo, Overtaken, TypeInv, HistoryTypes
<1>6. NumberTypes'
  BY DEF CallTo, TypeInv, NumberTypes
<1>7. CASE UNCHANGED <<callingSession, sCall>> /\ \E error \in {"WRONG_NUMBER_ERROR", "DEST_CALLING_ERROR"} :
             Reject(s, m, error)
  BY <1>1, <1>7, RejectType, <1>5, <1>6 DEF TypeInv, CallTo, PartyTypes, ServerTypes
<1>8. CASE /\ dst # None
           /\ down' = registerOutputMessage(down, s, buildOperation("CALL_RESPONSE", dst, None, m.call))
           /\ callingSession' = [callingSession EXCEPT ![s] = dst]
           /\ sCall' = [sCall EXCEPT ![s] = m.call]
  BY <1>3, <1>4, <1>8, SessionMessageType, RegisterType, <1>5, <1>6 DEF TypeInv, DownTypes,
     CallTo, PartyTypes, ServerTypes
<1>9. QED BY <1>2, <1>7, <1>8 DEF CallTo

LEMMA CallTo2Typed ==
  ASSUME TypeInv, NEW s \in sessionList, NEW m \in Sent, CallTo2(s, m)
  PROVE  ServerTypes'
<1>1. s \in Session
  BY DEF TypeInv, NumberTypes
<1>2. PICK dst : dst = callingSession[s]
  OBVIOUS
<1>3. m.secret \in Secret /\ m.call \in Nat
  BY SentFields DEF CallTo2
<1>4. dst \in Session \cup {None}
  BY <1>1, <1>2 DEF TypeInv, PartyTypes
<1>5. HistoryTypes'
  BY DEF CallTo2, Overtaken, TypeInv, HistoryTypes
<1>6. NumberTypes'
  BY DEF CallTo2, TypeInv, NumberTypes
<1>7. CASE /\ UNCHANGED <<sState, sCall>>
           /\ callingSession' = callingSession \/ callingSession' = [callingSession EXCEPT ![s] = None]
           /\ \E error \in {"WRONG_NUMBER_ERROR", "DEST_CALLING_ERROR"} : Reject(s, m, error)
  BY <1>1, <1>7, RejectType, <1>5, <1>6 DEF TypeInv, PartyTypes, ServerTypes
<1>8. CASE /\ dst # None
           /\ callingSession' = [callingSession EXCEPT ![dst] = s]
           /\ down' = registerOutputMessage(down, dst, buildOperation("CALLED_FROM", s, m.secret, m.call))
           /\ sState' = [sState EXCEPT ![dst] = "CALLING", ![s] = "CALLING"]
           /\ sCall' = [sCall EXCEPT ![dst] = m.call, ![s] = m.call]
  BY <1>1, <1>3, SessionMessageType, <1>8, RegisterType, <1>5, <1>6 DEF TypeInv, DownTypes,
     PartyTypes, ServerTypes
<1>9. QED BY <1>2, <1>7, <1>8 DEF CallTo2

LEMMA CallAcceptTyped ==
  ASSUME TypeInv, NEW s \in sessionList, NEW m \in Sent, CallAccept(s, m)
  PROVE  ServerTypes'
<1>1. s \in Session
  BY DEF TypeInv, NumberTypes
<1>2. m.secret \in Secret /\ m.call \in Nat
  BY SentFields DEF CallAccept
<1>3. buildOperation("CALL_ACCEPT", None, m.secret, m.call) \in Sent
  BY <1>2, KeyMessageType
<1>4. HistoryTypes'
  BY DEF CallAccept, Overtaken, TypeInv, HistoryTypes
<1>5. PartyTypes' /\ NumberTypes'
  BY DEF CallAccept, serverVars, TypeInv, PartyTypes, NumberTypes
<1>6. \/ down' = down
      \/ Reject(s, m, "CALL_ACCEPT_ERROR")
      \/ \E dst : down' = registerOutputMessage(down, dst, buildOperation("CALL_ACCEPT", None, m.secret, m.call))
  BY DEF CallAccept
<1>7. DownTypes'
  BY <1>1, <1>3, <1>6, RejectType, RegisterType DEF TypeInv, DownTypes
<1>8. QED BY <1>4, <1>5, <1>7 DEF ServerTypes

\* The session s and the other party's leave the call.
LEMMA LeaveTyped ==
  ASSUME PartyTypes, HistoryTypes, NEW s \in Session, NEW after \in SState,
         NEW queues \in [Session -> Seq(Sent)], NEW mistaken, Leave(s, after, queues, mistaken)
  PROVE  PartyTypes' /\ DownTypes' /\ HistoryTypes'
<1>1. PartyTypes'
  BY DEF Leave, PartyTypes
<1>2. HistoryTypes'
  BY DEF Leave, Overtaken, HistoryTypes
<1>3. Plain("CALL_OFF", sCall[s]) \in Sent
  BY PlainType DEF PartyTypes
<1>4. DownTypes'
  BY <1>3, RegisterType DEF Leave, TellOther, DownTypes
<1>5. QED BY <1>1, <1>2, <1>4

LEMMA CallOffTyped ==
  ASSUME TypeInv, NEW s \in sessionList, NEW m \in Sent, CallOff(s, m)
  PROVE  ServerTypes'
<1>1. NumberTypes'
  BY DEF CallOff, TypeInv, NumberTypes
<1>2. CASE UNCHANGED <<sState, callingSession, down, sCall, overtaken>>
  BY <1>1, <1>2 DEF TypeInv, ServerTypes, PartyTypes, DownTypes, HistoryTypes
<1>3. CASE Leave(s, "STARTED", down, m.call # sCall[s])
  BY <1>3, LeaveTyped, <1>1 DEF TypeInv, NumberTypes, DownTypes, ServerTypes
<1>4. QED BY <1>2, <1>3 DEF CallOff

LEMMA CloseTyped ==
  ASSUME TypeInv, NEW s \in sessionList, closeSession(s)
  PROVE  ServerTypes'
<1>1. s \in Session /\ down \in [Session -> Seq(Sent)]
  BY DEF TypeInv, NumberTypes, DownTypes
<1>2. PICK n \in 0..Len(down[s]) : Leave(s, "ENDED", [down EXCEPT ![s] = SubSeq(@, 1, n)], FALSE)
  BY DEF closeSession
<1>3. SubSeq(down[s], 1, n) \in Seq(Sent)
  BY <1>1, QueuePrefix
<1>4. [down EXCEPT ![s] = SubSeq(@, 1, n)] \in [Session -> Seq(Sent)]
  BY <1>1, <1>3
<1>5. PartyTypes' /\ DownTypes' /\ HistoryTypes'
  BY <1>1, <1>2, <1>4, LeaveTyped DEF TypeInv
<1>6. NumberTypes'
  BY DEF closeSession, RemoveNumber, TypeInv, NumberTypes
<1>7. QED BY <1>5, <1>6 DEF ServerTypes

LEMMA OperationTyped ==
  ASSUME TypeInv, NEW s \in Session, putOperation(s)
  PROVE  TypeInv'
<1>1. s \in sessionList /\ up[s] \in Seq(Sent) /\ up[s] # << >>
  BY DEF putOperation, TypeInv, UpTypes
<1>2. PICK m : m \in Sent /\ m = Head(up[s])
  BY <1>1, QueueHead
<1>3. \/ LogIn(s, m) \/ PutNumber(s, m) \/ CallTo(s, m) \/ CallTo2(s, m) \/ CallAccept(s, m)
      \/ CallOff(s, m) \/ Bye(s, m)
  BY <1>2 DEF putOperation
<1>4. ServerTypes'
  BY <1>1, <1>2, <1>3, LogInTyped, PutNumberTyped, CallToTyped, CallTo2Typed, CallAcceptTyped,
     CallOffTyped, CloseTyped DEF Bye
<1>5. UpTypes'
  BY <1>1, QueueHead DEF putOperation, TypeInv, UpTypes
<1>6. StateTypes' /\ UiTypes' /\ NetTypes' /\ CryptoTypes' /\ OutputTypes' /\ CounterTypes'
  BY DEF putOperation, TypeInv, StateTypes, UiTypes, NetTypes, CryptoTypes, OutputTypes,
     CounterTypes, cryptos, uiVars, netVars
<1>7. QED BY <1>4, <1>5, <1>6 DEF TypeInv, ServerTypes

LEMMA MonitorTyped ==
  ASSUME TypeInv, NEW s \in Session, NEW slow \in BOOLEAN, Monitor(s, slow)
  PROVE  TypeInv'
<1>1. ServerTypes'
  BY CloseTyped DEF Monitor
<1>2. losses' \in 0..MaxLosses
  BY LossType, SessionClient DEF Monitor, TypeInv, CounterTypes
<1>3. StateTypes' /\ UiTypes' /\ NetTypes' /\ CryptoTypes' /\ OutputTypes' /\ UpTypes'
  BY DEF Monitor, TypeInv, StateTypes, UiTypes, NetTypes, CryptoTypes, OutputTypes, UpTypes,
     cryptos, uiVars, netVars
<1>4. CounterTypes'
  BY <1>2 DEF Monitor, TypeInv, CounterTypes
<1>5. QED BY <1>1, <1>3, <1>4 DEF TypeInv, ServerTypes

-----------------------------------------------------------------------------
(***************************************************************************)
(* How often a client connects: first what an action leaves as it was.     *)
(***************************************************************************)
LEMMA AgainType ==
  ASSUME NEW c
  PROVE  Again(c) \in {0, 1, 2} /\ Again(c)' \in {0, 1, 2}
  BY DEF Again

\* Nothing more is going to end than before.
LEMMA LimitKept ==
  ASSUME NetTypes, NetTypes', NEW c \in Client, InLimits(c), connections'[c] = connections[c],
         NoneSentAhead(c), Returns(c)' => Returns(c), at'[c] = "onPause" => at[c] = "onPause"
  PROVE  InLimits(c)'
<1>1. connections[c] \in Nat /\ MaxConnections \in Nat
  BY BoundAssumption DEF NetTypes, MaxConnections
<1>2. Again(c)' <= Again(c)
  BY DEF Again
<1>3. connections'[c] + Again(c)' <= MaxConnections
  BY <1>1, <1>2, AgainType DEF InLimits
<1>4. QED BY <1>3 DEF InLimits, NoneSentAhead

\* A step within the bound of losses leaves room for two connections.
LEMMA LimitOfLosses ==
  ASSUME NetTypes, NEW c \in Client, InLimits(c), connections'[c] = connections[c],
         NoneSentAhead(c), connections[c] < MaxLosses
  PROVE  InLimits(c)'
<1>1. connections[c] \in Nat /\ MaxLosses \in Nat
  BY BoundAssumption DEF NetTypes
<1>2. connections'[c] + Again(c)' <= MaxConnections
  BY <1>1, AgainType DEF MaxConnections
<1>3. QED BY <1>2 DEF InLimits, NoneSentAhead

LEMMA UntouchedKept ==
  ASSUME NetTypes, NetTypes', NEW d \in Client, InLimits(d), Untouched(d)
  PROVE  InLimits(d)'
<1>1. Now(d)' = Now(d) /\ connections[d] \in 0..MaxConnections
  BY DEF Now, Untouched, NetTypes
<1>2. up'[Now(d)] = up[Now(d)] /\ (Now(d) \in sessionList => Now(d) \in sessionList')
  BY <1>1 DEF Untouched, Now
<1>3. Returns(d)' => Returns(d)
  BY <1>1, <1>2 DEF Untouched, Returns, Ends
<1>4. NoneSentAhead(d)
  BY DEF NoneSentAhead, Untouched
<1>5. QED BY <1>3, <1>4, LimitKept DEF Untouched

LEMMA QuietKept ==
  ASSUME NetTypes, NetTypes', NEW c \in Client, InLimits(c), Quiet(c)
  PROVE  InLimits(c)'
<1>1. Now(c)' = Now(c)
  BY DEF Now, Quiet
<1>2. Returns(c)' => Returns(c)
  BY <1>1 DEF Quiet, Returns, Ends
<1>3. NoneSentAhead(c)
  BY DEF NoneSentAhead, Quiet
<1>4. QED BY <1>2, <1>3, LimitKept DEF Quiet

LEMMA ByeAppend ==
  ASSUME NEW q \in Seq(Sent), NEW m \in Sent, m.op # "BYE", ByeIn(Append(q, m))
  PROVE  ByeIn(q)
<1>1. PICK i \in DOMAIN Append(q, m) : Append(q, m)[i].op = "BYE"
  BY DEF ByeIn
<1>2. i \in 1..Len(q) + 1
  BY <1>1
<1>3. i # Len(q) + 1
  BY <1>1
<1>4. i \in DOMAIN q /\ Append(q, m)[i] = q[i]
  BY <1>2, <1>3
<1>5. QED BY <1>1, <1>4 DEF ByeIn

LEMMA ByeTail ==
  ASSUME NEW q \in Seq(Sent), q # << >>
  PROVE  ByeIn(q) <=> ByeIn(Tail(q)) \/ Head(q).op = "BYE"
<1>1. DOMAIN q = 1..Len(q) /\ DOMAIN Tail(q) = 1..Len(q) - 1 /\ Len(q) \in Nat \ {0}
  OBVIOUS
<1>2. \A i \in 1..Len(q) - 1 : Tail(q)[i] = q[i + 1]
  OBVIOUS
<1>3. Head(q) = q[1]
  OBVIOUS
<1>4. ASSUME ByeIn(q)  PROVE ByeIn(Tail(q)) \/ Head(q).op = "BYE"
  <2>1. PICK i \in 1..Len(q) : q[i].op = "BYE"
    BY <1>1, <1>4 DEF ByeIn
  <2>2. CASE i = 1
    BY <2>1, <2>2, <1>3
  <2>3. CASE i # 1
    <3>1. i - 1 \in 1..Len(q) - 1 /\ (i - 1) + 1 = i
      BY <2>1, <2>3, <1>1
    <3>2. Tail(q)[i - 1].op = "BYE"
      BY <2>1, <3>1, <1>2
    <3>3. QED BY <3>1, <3>2, <1>1 DEF ByeIn
  <2>4. QED BY <2>2, <2>3
<1>5. ASSUME ByeIn(Tail(q))  PROVE ByeIn(q)
  BY <1>1, <1>5, <1>2 DEF ByeIn
<1>6. ASSUME Head(q).op = "BYE"  PROVE ByeIn(q)
  BY <1>1, <1>3, <1>6 DEF ByeIn
<1>7. QED BY <1>4, <1>5, <1>6

LEMMA QueueBye ==
  ASSUME OutputTypes, NEW c \in Client, NEW m \in Sent, m.op # "BYE", Queue(c, m)
  PROVE  ByeIn(outputMessageQueue'[c]) => ByeIn(outputMessageQueue[c])
<1>1. outputMessageQueue[c] \in Seq(Sent) /\ outputMessageQueue'[c] = Append(outputMessageQueue[c], m)
  BY DEF OutputTypes, Queue
<1>2. QED BY <1>1, ByeAppend

LEMMA DestroyBye ==
  ASSUME StateTypes, OutputTypes, NEW c \in Client, destroy(c)
  PROVE  /\ ByeIn(outputMessageQueue'[c]) => ByeIn(outputMessageQueue[c])
         /\ state'[c] = "STARTED"
<1>1. call[c] \in Nat
  BY DEF StateTypes
<1>2. Plain("CALL_OFF", call[c]) \in Sent /\ Plain("CALL_OFF", call[c]).op = "CALL_OFF"
  BY <1>1, PlainType
<1>3. ByeIn(outputMessageQueue'[c]) => ByeIn(outputMessageQueue[c])
  BY <1>2, QueueBye DEF destroy
<1>4. QED BY <1>3 DEF destroy, StateTypes

-----------------------------------------------------------------------------
(***************************************************************************)
(* The quiet actions of a client.                                          *)
(***************************************************************************)
LEMMA UserQuiet ==
  ASSUME TypeInv, NEW c \in Client,
         \/ \E number \in Client \cup {None} : Dial(c, number)
         \/ getNewPhoneNumber(c) \/ Accept(c) \/ HangUp(c) \/ handleMessage(c)
  PROVE  Quiet(c)
<1>1. ASSUME NEW number \in Client \cup {None}, Dial(c, number)  PROVE Quiet(c)
  BY <1>1, ActType, NumberMessageType, QueueBye DEF Dial, TypeInv, Quiet, netVars, serverVars,
     channels, UiTypes
<1>2. ASSUME getNewPhoneNumber(c)  PROVE Quiet(c)
  BY <1>2, PlainType, QueueBye DEF getNewPhoneNumber, TypeInv, Quiet, uiVars, netVars, serverVars,
     channels
<1>3. ASSUME Accept(c)  PROVE Quiet(c)
  BY <1>3, VoiceKeyType, KeyMessageType, QueueBye DEF Accept, TypeInv, StateTypes, Quiet, netVars,
     serverVars, channels, UiTypes
<1>4. ASSUME HangUp(c)  PROVE Quiet(c)
  BY <1>4, DestroyBye DEF HangUp, Quiet, netVars, serverVars, channels, TypeInv
<1>5. ASSUME handleMessage(c)  PROVE Quiet(c)
  BY <1>5, DestroyBye DEF handleMessage, TypeInv, Quiet, netVars, serverVars, channels
<1>6. QED BY <1>1, <1>2, <1>3, <1>4, <1>5

LEMMA ReadQuiet ==
  ASSUME TypeInv, NEW c \in Client, read(c)
  PROVE  Quiet(c)
<1>1. down[Now(c)] \in Seq(Sent) /\ down[Now(c)] # << >>
  BY NowType DEF read, TypeInv, DownTypes
<1>2. PICK m : m \in Sent /\ m = Head(down[Now(c)])
  BY <1>1, QueueHead
<1>3. CASE LoggedIn(c, m)
  <2>1. Reply[m.op] \in {"PUT_SECRET_KEY", "PUT_CURRENT_VERSION", "PUT_PRANKKEY"}
    BY <1>3 DEF LoggedIn, Reply
  <2>2. PICK r : r = Plain(Reply[m.op], 0)
    OBVIOUS
  <2>3. r \in Sent /\ r.op # "BYE" /\ Queue(c, r)
    BY <1>3, <2>1, <2>2, PlainType DEF LoggedIn
  <2>4. ByeIn(outputMessageQueue'[c]) => ByeIn(outputMessageQueue[c])
    BY <2>3, QueueBye DEF TypeInv
  <2>5. state'[c] = "ENDED" => state[c] = "ENDED"
    BY <1>3 DEF LoggedIn, TypeInv, StateTypes
  <2>6. QED BY <2>4, <2>5 DEF read, Quiet, serverVars
<1>4. CASE Begin(c, m) \/ Ended(c, m) \/ Ignored(c, m)
  BY <1>4 DEF Begin, Ended, Ignored, TypeInv, StateTypes, read, Quiet, serverVars
<1>5. QED BY <1>2, <1>3, <1>4 DEF read

LEMMA ThreadsQuiet ==
  ASSUME TypeInv, NEW c \in Client, Assign(c) \/ Complete(c)
  PROVE  Quiet(c)
<1>1. ASSUME Assign(c)  PROVE Quiet(c)
  BY <1>1 DEF Assign, Quiet, netVars, serverVars, channels, TypeInv, StateTypes, UiTypes
<1>2. ASSUME Complete(c)  PROVE Quiet(c)
  BY <1>2, VoiceKeyType, SentFields, KeyMessageType, QueueBye DEF Complete, TypeInv, StateTypes,
     NetTypes, Quiet, serverVars, channels
<1>3. QED BY <1>1, <1>2

-----------------------------------------------------------------------------
(***************************************************************************)
(* What a client does changes nothing of the others.                       *)
(***************************************************************************)
LEMMA OthersUntouched ==
  ASSUME TypeInv, NEW c \in Client, NEW d \in Client \ {c}, User(c) \/ Threads(c)
  PROVE  Untouched(d)
<1>1. /\ c \in Client /\ d \in Client /\ d # c
      /\ thread \in [Client -> Thread] /\ state \in [Client -> State]
      /\ at \in [Client -> {"idle", "callTo", "callAccept", "onPause"}]
      /\ DOMAIN connections = Client /\ DOMAIN outputMessageQueue = Client
      /\ DOMAIN up = Session
  BY DEF TypeInv, StateTypes, UiTypes, NetTypes, OutputTypes, UpTypes
<1>2. \A k \in 0..MaxConnections : <<d, k>> \in Session /\ <<d, k>> # Now(c)
  BY DEF Session, Now
<1>3. ASSUME NEW number \in Client \cup {None}, Dial(c, number)  PROVE Untouched(d)
  BY <1>1, <1>2, <1>3 DEF Dial, Queue, netVars, serverVars, channels, Untouched
<1>4. ASSUME getNewPhoneNumber(c)  PROVE Untouched(d)
  BY <1>1, <1>2, <1>4 DEF getNewPhoneNumber, Queue, uiVars, netVars, serverVars, channels,
     Untouched
<1>5. ASSUME Accept(c)  PROVE Untouched(d)
  BY <1>1, <1>2, <1>5 DEF Accept, Queue, netVars, serverVars, channels, Untouched
<1>6. ASSUME HangUp(c)  PROVE Untouched(d)
  BY <1>1, <1>2, <1>6 DEF HangUp, Queue, destroy, netVars, serverVars, channels, Untouched
<1>7. ASSUME onPause(c)  PROVE Untouched(d)
  BY <1>1, <1>2, <1>7 DEF onPause, Queue, netVars, serverVars, channels, Untouched
<1>8. ASSUME onResume(c)  PROVE Untouched(d)
  BY <1>1, <1>2, <1>8 DEF onResume, serverVars, channels, Untouched
<1>9. ASSUME Crash(c)  PROVE Untouched(d)
  BY <1>1, <1>2, <1>9 DEF Crash, serverVars, channels, Untouched
<1>10. ASSUME close(c, TRUE)  PROVE Untouched(d)
  BY <1>1, <1>2, <1>10 DEF close, uiVars, serverVars, Untouched
<1>11. ASSUME Assign(c)  PROVE Untouched(d)
  BY <1>1, <1>2, <1>11 DEF Assign, netVars, serverVars, channels, Untouched
<1>12. ASSUME doStop(c)  PROVE Untouched(d)
  BY <1>1, <1>2, <1>12 DEF doStop, serverVars, channels, Untouched
<1>13. ASSUME handleMessage(c)  PROVE Untouched(d)
  BY <1>1, <1>2, <1>13 DEF handleMessage, Queue, destroy, netVars, serverVars, channels,
     Untouched
<1>14. ASSUME write(c)  PROVE Untouched(d)
  BY <1>1, <1>2, <1>14 DEF write, uiVars, netVars, serverVars, Untouched
<1>15. ASSUME read(c)  PROVE Untouched(d)
  BY <1>1, <1>2, <1>15 DEF read, serverVars, Untouched, LoggedIn, Begin, Ended, Ignored,
     Queue
<1>16. ASSUME Complete(c)  PROVE Untouched(d)
  BY <1>1, <1>2, <1>16 DEF Complete, Queue, serverVars, channels, Untouched
<1>17. ASSUME close(c, FALSE)  PROVE Untouched(d)
  BY <1>1, <1>2, <1>17 DEF close, uiVars, serverVars, Untouched
<1>18. ASSUME Leaving(c)  PROVE Untouched(d)
  BY <1>1, <1>2, <1>18 DEF Leaving, uiVars, serverVars, channels, Untouched
<1>19. ASSUME OnNetworkConnected(c)  PROVE Untouched(d)
  BY <1>1, <1>2, <1>19 DEF OnNetworkConnected, uiVars, channels, Untouched
<1>20. QED BY <1>3, <1>4, <1>5, <1>6, <1>7, <1>8, <1>9, <1>10, <1>11, <1>12, <1>13, <1>14, <1>15,
     <1>16, <1>17, <1>18, <1>19 DEF User, Threads

-----------------------------------------------------------------------------
(***************************************************************************)
(* The limit of the client that acts.                                      *)
(***************************************************************************)
LEMMA OwnTypes ==
  ASSUME TypeInv, NEW c \in Client
  PROVE  /\ NetTypes /\ state[c] \in State /\ thread[c] \in Thread
         /\ Now(c) \in Session
         /\ \A k \in 0..MaxConnections : <<c, k>> \in Session
         /\ outputMessageQueue[c] \in Seq(Sent) /\ up[Now(c)] \in Seq(Sent)
<1>1. NetTypes /\ Now(c) \in Session
  BY NowType DEF TypeInv
<1>2. QED BY <1>1 DEF TypeInv, StateTypes, NetTypes, OutputTypes, UpTypes, Session

\* The steps that begin or end something without the bound.
LEMMA WriteInLimits ==
  ASSUME TypeInv, NetTypes', NEW c \in Client, InLimits(c), write(c)
  PROVE  InLimits(c)'
<1>1. PICK q \in Seq(Sent) : q = outputMessageQueue[c] /\ q # << >>
  BY OwnTypes DEF write
<1>2. PICK m \in Sent : m = Head(q)
  BY <1>1, QueueHead
<1>3. outputMessageQueue'[c] = Tail(q)
  BY <1>1 DEF write, TypeInv, OutputTypes
<1>4. /\ thread' = thread /\ connections' = connections /\ state' = state /\ at' = at
      /\ sessionList' = sessionList
  BY DEF write, uiVars, netVars, serverVars
<1>5. Now(c)' = Now(c)
  BY <1>4 DEF Now
<1>6. up' = up \/ up' = [up EXCEPT ![Now(c)] = Append(@, m)]
  BY <1>1, <1>2 DEF write
<1>7. up'[Now(c)] \in {up[Now(c)], Append(up[Now(c)], m)}
  BY <1>6, NowType DEF TypeInv, UpTypes
<1>8. ByeIn(outputMessageQueue'[c]) \/ ByeIn(up'[Now(c)]) =>
        ByeIn(outputMessageQueue[c]) \/ ByeIn(up[Now(c)])
  <2>1. ByeIn(Tail(q)) => ByeIn(q)
    BY <1>1, ByeTail
  <2>2. m.op = "BYE" => ByeIn(q)
    BY <1>1, <1>2, ByeTail
  <2>3. ByeIn(Append(up[Now(c)], m)) /\ m.op # "BYE" => ByeIn(up[Now(c)])
    BY OwnTypes, ByeAppend
  <2>4. QED BY <1>1, <1>3, <1>7, <2>1, <2>2, <2>3
<1>9. Returns(c)' => Returns(c)
  BY <1>4, <1>5, <1>8 DEF Returns, Ends
<1>10. NoneSentAhead(c)
  BY <1>6 DEF TypeInv, NetTypes, Now, NoneSentAhead, UpTypes, Session
<1>11. QED BY <1>4, <1>9, <1>10, LimitKept DEF TypeInv

LEMMA CloseInLimits ==
  ASSUME TypeInv, NetTypes', NEW c \in Client, NEW lost \in BOOLEAN, InLimits(c), close(c, lost)
  PROVE  InLimits(c)'
<1>1. /\ connections' = connections /\ at' = at
      /\ thread[c] = "leaving" \/ thread[c] = "connected"
  BY DEF close, uiVars
<1>2. PICK n \in 0..Len(up[Now(c)]) : up' = [up EXCEPT ![Now(c)] = SubSeq(@, 1, n)]
  BY DEF close
<1>3. NoneSentAhead(c)
  BY <1>2 DEF TypeInv, NetTypes, Now, NoneSentAhead, UpTypes, Session
<1>4. CASE lost
  BY <1>1, <1>3, <1>4, LimitOfLosses DEF close, Loss, TypeInv
<1>5. CASE ~ lost
  BY <1>5, <1>1, <1>3, LimitKept DEF close, Over, Returns, Ends, TypeInv
<1>6. QED BY <1>4, <1>5

LEMMA ConnectInLimits ==
  ASSUME TypeInv, NetTypes', NEW c \in Client, Limits, OnNetworkConnected(c)
  PROVE  InLimits(c)'
<1>1. connections[c] \in Nat /\ connections[c] + 1 \in 0..MaxConnections
  BY ConnectsInTime DEF TypeInv, NetTypes
<1>2. /\ connections'[c] = connections[c] + 1 /\ Now(c)' = <<c, connections[c] + 1>>
      /\ state' = state /\ at' = at /\ up' = up
      /\ outputMessageQueue'[c] = <<Plain("PUT_PUBLIC_KEY", 0)>>
      /\ sessionList' = sessionList \cup {<<c, connections[c] + 1>>}
  BY DEF OnNetworkConnected, Now, uiVars, channels, TypeInv, NetTypes, OutputTypes
<1>3. up[<<c, connections[c] + 1>>] = << >>
  BY <1>1 DEF Limits
<1>4. ~ ByeIn(outputMessageQueue'[c])
  BY PlainType, <1>2 DEF ByeIn
<1>5. ~ ByeIn(up'[Now(c)'])
  BY <1>2, <1>3 DEF ByeIn
<1>6. ~ Returns(c)'
  BY <1>2, <1>4, <1>5 DEF OnNetworkConnected, TypeInv, NetTypes, Returns, Ends
<1>7. Returns(c)
  BY DEF OnNetworkConnected, Returns
<1>8. connections'[c] + Again(c)' <= MaxConnections
  BY <1>2, <1>6, <1>7, BoundAssumption, AgainType, <1>1 DEF Again, Limits, MaxConnections
<1>9. \A k \in 0..MaxConnections : k > connections'[c] => up'[<<c, k>>] = << >>
  BY <1>1, <1>2 DEF Limits
<1>10. QED BY <1>8, <1>9 DEF InLimits

LEMMA OwnInLimits ==
  ASSUME TypeInv, NetTypes', Limits, NEW c \in Client, User(c) \/ Threads(c)
  PROVE  InLimits(c)'
<1>1. InLimits(c) /\ NetTypes
  BY DEF Limits, InLimits, TypeInv
<1>2. ASSUME onPause(c) \/ onResume(c)  PROVE InLimits(c)'
  BY <1>2, <1>1, LimitOfLosses DEF onPause, onResume, Loss, netVars, channels, NoneSentAhead
<1>3. ASSUME Crash(c) \/ Leaving(c)  PROVE InLimits(c)'
  <2>1. connections' = connections /\ up' = up
    BY <1>3 DEF Crash, Leaving, channels
  <2>2. Returns(c)' => Returns(c)
    BY <1>3 DEF Crash, Leaving, Returns, TypeInv, NetTypes
  <2>3. at'[c] = "onPause" => at[c] = "onPause"
    BY <1>3 DEF Crash, Leaving, uiVars, TypeInv, UiTypes
  <2>4. NoneSentAhead(c)
    BY <2>1 DEF NoneSentAhead
  <2>5. QED BY <1>1, <2>1, <2>2, <2>3, <2>4, LimitKept
<1>4. ASSUME doStop(c)  PROVE InLimits(c)'
  BY <1>4, <1>1, BoundAssumption, AgainType DEF doStop, channels, TypeInv, UiTypes, Again,
     NetTypes, MaxConnections, InLimits
<1>5. QED
  BY <1>1, <1>2, <1>3, <1>4, UserQuiet, ReadQuiet, ThreadsQuiet, QuietKept, WriteInLimits,
     CloseInLimits, ConnectInLimits DEF User, Threads

LEMMA ClientInLimits ==
  ASSUME TypeInv, TypeInv', Limits, NEW c \in Client, User(c) \/ Threads(c)
  PROVE  Limits'
<1>1. InLimits(c)'
  BY OwnInLimits DEF TypeInv
<1>2. \A d \in Client \ {c} : InLimits(d)'
  BY OthersUntouched, UntouchedKept DEF Limits, InLimits, TypeInv
<1>3. QED BY <1>1, <1>2 DEF Limits, InLimits

-----------------------------------------------------------------------------
(***************************************************************************)
(* The limits when the server acts: it closes a session after a BYE, after *)
(* its client has gone, or as a loss.                                      *)
(***************************************************************************)
LEMMA ServerInLimits ==
  ASSUME TypeInv, NetTypes', Limits, NEW s \in Session, Closes(s),
         UNCHANGED <<thread, state, at, connections, outputMessageQueue>>,
         up' = up \/ (up' = [up EXCEPT ![s] = Tail(@)] /\ up[s] # << >>),
         (Now(s[1]) = s /\ Returns(s[1])') => Returns(s[1]) \/ connections[s[1]] < MaxLosses
  PROVE  Limits'
<1>1. SUFFICES ASSUME NEW d \in Client  PROVE InLimits(d)'
  BY DEF Limits, InLimits
<1>2. InLimits(d) /\ NetTypes
  BY DEF Limits, InLimits, TypeInv
<1>3. NoneSentAhead(d)
  BY DEF TypeInv, UpTypes, Session, NoneSentAhead
<1>4. CASE Now(d) # s
  BY <1>4, NowType, <1>2, <1>3, LimitKept DEF Now, TypeInv, UpTypes, Closes, Returns, Ends
<1>5. CASE Now(d) = s
  BY <1>5, <1>2, <1>3, LimitKept, LimitOfLosses DEF Now
<1>6. QED BY <1>4, <1>5

LEMMA OperationInLimits ==
  ASSUME TypeInv, NetTypes', Limits, NEW s \in Session, putOperation(s)
  PROVE  Limits'
<1>1. up[s] \in Seq(Sent) /\ up[s] # << >>
  BY DEF putOperation, TypeInv, UpTypes
<1>2. PICK m \in Sent : m = Head(up[s])
  BY <1>1, QueueHead
<1>3. \/ LogIn(s, m) \/ PutNumber(s, m) \/ CallTo(s, m) \/ CallTo2(s, m) \/ CallAccept(s, m)
      \/ CallOff(s, m) \/ Bye(s, m)
  BY <1>2 DEF putOperation
<1>4. Closes(s) /\ (sessionList' # sessionList => m.op = "BYE")
  BY <1>3 DEF LogIn, PutNumber, CallTo, CallTo2, CallAccept, CallOff, Bye, closeSession,
     serverVars, Closes
<1>5. /\ UNCHANGED <<thread, state, at, connections, outputMessageQueue>>
      /\ up' = [up EXCEPT ![s] = Tail(@)]
  BY DEF putOperation, uiVars, netVars
<1>6. ASSUME Now(s[1]) = s, Returns(s[1])'  PROVE Returns(s[1])
  <2>1. Now(s[1])' = s
    BY <1>5, <1>6 DEF Now
  <2>2. up'[s] = Tail(up[s])
    BY <1>5 DEF TypeInv, UpTypes
  <2>3. ByeIn(up'[s]) \/ m.op = "BYE" => ByeIn(up[s])
    BY <1>1, <1>2, <2>2, ByeTail
  <2>4. QED BY <1>4, <1>5, <1>6, <2>1, <2>3 DEF Returns, Ends
<1>7. QED BY <1>1, <1>4, <1>5, <1>6, ServerInLimits

LEMMA MonitorInLimits ==
  ASSUME TypeInv, NetTypes', Limits, NEW s \in Session, NEW slow \in BOOLEAN, Monitor(s, slow)
  PROVE  Limits'
<1>1. /\ Closes(s) /\ up' = up
      /\ UNCHANGED <<thread, state, at, connections, outputMessageQueue>>
  BY DEF Monitor, closeSession, Closes, uiVars, netVars
<1>2. CASE slow
  <2>1. connections[s[1]] < MaxLosses
    BY <1>2 DEF Monitor, Loss
  <2>2. up' = up \/ (up' = [up EXCEPT ![s] = Tail(@)] /\ up[s] # << >>)
    BY <1>1
  <2>3. (Now(s[1]) = s /\ Returns(s[1])') => Returns(s[1]) \/ connections[s[1]] < MaxLosses
    BY <2>1
  <2>4. QED BY ONLY TypeInv, NetTypes', Limits, s \in Session, <1>1, <2>2, <2>3, ServerInLimits
<1>3. CASE ~ slow
  <2>1. thread' = thread
    BY <1>1
  <2>2. ~ Connected(s)
    BY <1>3 DEF Monitor
  <2>3. (Now(s[1]) = s /\ Returns(s[1])') => Returns(s[1]) \/ connections[s[1]] < MaxLosses
    BY <2>1, <2>2 DEF Connected, Returns
  <2>4. up' = up \/ (up' = [up EXCEPT ![s] = Tail(@)] /\ up[s] # << >>)
    BY <1>1
  <2>5. QED BY ONLY TypeInv, NetTypes', Limits, s \in Session, <1>1, <2>3, <2>4, ServerInLimits
<1>4. QED BY <1>2, <1>3

-----------------------------------------------------------------------------
(***************************************************************************)
(* Together.                                                               *)
(***************************************************************************)
LEMMA ProtocolInit == Init => ProtocolInv
<1>1. SUFFICES ASSUME Init  PROVE ProtocolInv
  OBVIOUS
<1>2. MaxConnections \in Nat /\ 0 \in 0..MaxConnections
  BY BoundAssumption DEF MaxConnections
<1>3. \A c \in Client : <<c, 0>> \in Session
  BY <1>2 DEF Session
<1>4. StateTypes /\ UiTypes /\ NetTypes /\ CryptoTypes /\ OutputTypes
  BY <1>1, <1>2 DEF Init, Start, StateTypes, UiTypes, NetTypes, CryptoTypes, OutputTypes
<1>5. PartyTypes /\ UpTypes /\ DownTypes
  BY <1>1 DEF Init, Start, PartyTypes, UpTypes, DownTypes
<1>6. NumberTypes
  BY <1>1, <1>3 DEF Init, Start, NumberTypes
<1>7. HistoryTypes /\ CounterTypes
  <2>1. acts = 0 /\ losses = 0 /\ overtaken = FALSE
    BY <1>1 DEF Init, Start
  <2>2. CounterTypes
    BY <2>1, BoundAssumption DEF CounterTypes
  <2>3. QED BY <2>1, <2>2 DEF HistoryTypes
<1>8. Limits
  <2>1. SUFFICES ASSUME NEW c \in Client  PROVE InLimits(c)
    BY DEF Limits, InLimits
  <2>2. /\ connections[c] = 0 /\ state[c] = "STARTED" /\ thread[c] = "connected"
        /\ at[c] = "idle" /\ outputMessageQueue[c] = << >>
    BY <1>1 DEF Init, Start
  <2>3. \A k \in 0..MaxConnections : up[<<c, k>>] = << >>
    BY <1>1 DEF Init, Start, Session
  <2>4. Now(c) = <<c, 0>> /\ Now(c) \in sessionList
    BY <1>1, <1>3, <2>2 DEF Now, Init, Start
  <2>5. ~ ByeIn(<< >>)
    BY DEF ByeIn
  <2>6. Again(c) = 0
    BY <1>2, <2>2, <2>3, <2>4, <2>5 DEF Again, Returns, Ends
  <2>7. QED BY <1>2, <2>2, <2>3, <2>6 DEF InLimits
<1>9. QED BY <1>4, <1>5, <1>6, <1>7, <1>8 DEF ProtocolInv, TypeInv

LEMMA ProtocolStutter ==
  ASSUME ProtocolInv, UNCHANGED vars
  PROVE  ProtocolInv'
<1>1. TypeInv'
  BY DEF vars, cryptos, uiVars, netVars, serverVars, channels, ProtocolInv, TypeInv, StateTypes,
     UiTypes, NetTypes, CryptoTypes, OutputTypes, PartyTypes, NumberTypes, UpTypes, DownTypes,
     HistoryTypes, CounterTypes
<1>2. UNCHANGED <<thread, state, at, connections, outputMessageQueue, up, sessionList>>
  BY DEF vars, uiVars, netVars, serverVars, channels
<1>3. \A c : InLimits(c)' = InLimits(c)
  BY <1>2 DEF InLimits, Again, Returns, Ends, Now
<1>4. QED BY <1>1, <1>3 DEF ProtocolInv, Limits, InLimits

LEMMA ProtocolStep ==
  ASSUME ProtocolInv, [Next]_vars
  PROVE  ProtocolInv'
<1>1. TypeInv /\ Limits
  BY DEF ProtocolInv
<1>2. ASSUME NEW c \in Client, User(c) \/ Threads(c)  PROVE ProtocolInv'
  BY <1>1, <1>2, UserTyped, ThreadsTyped, ClientInLimits DEF ProtocolInv
<1>3. ASSUME NEW s \in Session, putOperation(s)  PROVE ProtocolInv'
  BY <1>1, <1>3, OperationTyped, OperationInLimits DEF TypeInv, ProtocolInv
<1>4. ASSUME NEW s \in Session, NEW slow \in BOOLEAN, Monitor(s, slow)  PROVE ProtocolInv'
  BY <1>1, <1>4, MonitorTyped, MonitorInLimits DEF TypeInv, ProtocolInv
<1>5. QED BY <1>2, <1>3, <1>4, ProtocolStutter DEF Next

\* In every behaviour the messages carry what their operations read, no client
\* connects more often than the model provides sessions for, and nothing is sent on
\* a connection before it is made.
THEOREM ProtocolInvariant == Spec => []ProtocolInv
<1>1. Init => ProtocolInv
  BY ProtocolInit
<1>2. ProtocolInv /\ [Next]_vars => ProtocolInv'
  BY ProtocolStep
<1>3. QED BY <1>1, <1>2, PTL DEF Spec

\* The variables of the clients, of the server and of what is on its way keep their
\* types: in particular the session that a number is found under is one the server
\* serves, and no connection goes beyond the last session.
THEOREM ProtocolTyped == Spec => []TypeOK
<1>1. ProtocolInv => TypeOK
  BY TypesHold DEF ProtocolInv
<1>2. QED BY <1>1, ProtocolInvariant, PTL

-----------------------------------------------------------------------------
(***************************************************************************)
(* Client and server agree.  The argument is about records in which the    *)
(* three places a message can be at, a queue of the client, a queue of the *)
(* connection and the network thread's hand, are one queue: a "view" is    *)
(* what one client has to do with its session, a "world" is all clients    *)
(* and sessions.  First come the kinds of messages, the invariant, and     *)
(* what each kind of step (of a client, of the server, a new connection)   *)
(* does to a world in which it holds; then that the variables are such a   *)
(* world and that every action of CallProtocol is one of those steps.      *)
(***************************************************************************)

(***************************************************************************)
(* Queues of messages: which kinds are in them, how often, and in which    *)
(* order.                                                                  *)
(***************************************************************************)
LEMMA AppendElements ==
  ASSUME NEW S, NEW q \in Seq(S), NEW m \in S
  PROVE  /\ Append(q, m) \in Seq(S) /\ Len(Append(q, m)) = Len(q) + 1
         /\ \A i \in 1..Len(q) : Append(q, m)[i] = q[i]
         /\ Append(q, m)[Len(q) + 1] = m /\ Len(q) \in Nat
  OBVIOUS

LEMMA TailElements ==
  ASSUME NEW S, NEW q \in Seq(S), q # << >>
  PROVE  /\ Tail(q) \in Seq(S) /\ Len(q) = Len(Tail(q)) + 1 /\ Len(Tail(q)) \in Nat
         /\ \A i \in 1..Len(Tail(q)) : Tail(q)[i] = q[i + 1]
         /\ Head(q) = q[1] /\ Head(q) \in S
  OBVIOUS

LEMMA HasNone ==
  ASSUME NEW M
  PROVE  /\ ~ Has(<< >>, M) /\ Once(<< >>, M)
         /\ \A N : Then(<< >>, M, N)
  BY DEF Has, Once, Then

LEMMA HasAppend ==
  ASSUME NEW S, NEW q \in Seq(S), NEW m \in S, NEW M
  PROVE  Has(Append(q, m), M) <=> Has(q, M) \/ m \in M
<1>1. ASSUME Has(Append(q, m), M)  PROVE Has(q, M) \/ m \in M
  BY <1>1, AppendElements DEF Has
<1>2. ASSUME Has(q, M)  PROVE Has(Append(q, m), M)
  BY <1>2, AppendElements DEF Has
<1>3. ASSUME m \in M  PROVE Has(Append(q, m), M)
  BY <1>3, AppendElements DEF Has
<1>4. QED BY <1>1, <1>2, <1>3

LEMMA HasTail ==
  ASSUME NEW S, NEW q \in Seq(S), q # << >>, NEW M
  PROVE  Has(q, M) <=> Head(q) \in M \/ Has(Tail(q), M)
<1>1. ASSUME Has(q, M)  PROVE Head(q) \in M \/ Has(Tail(q), M)
  <2>1. PICK i \in 1..Len(q) : q[i] \in M
    BY <1>1 DEF Has
  <2>2. CASE i = 1
    BY <2>1, <2>2, TailElements
  <2>3. CASE i # 1
    <3>1. i - 1 \in 1..Len(Tail(q)) /\ Tail(q)[i - 1] = q[i - 1 + 1] /\ i - 1 + 1 = i
      BY <2>1, <2>3, TailElements
    <3>2. i - 1 \in 1..Len(Tail(q)) /\ Tail(q)[i - 1] \in M
      BY <2>1, <3>1
    <3>3. QED BY <3>2 DEF Has
  <2>4. QED BY <2>2, <2>3
<1>2. ASSUME Head(q) \in M  PROVE Has(q, M)
  BY <1>2, TailElements DEF Has
<1>3. ASSUME Has(Tail(q), M)  PROVE Has(q, M)
  BY <1>3, TailElements DEF Has
<1>4. QED BY <1>1, <1>2, <1>3

LEMMA OnceAppend ==
  ASSUME NEW S, NEW q \in Seq(S), NEW m \in S, NEW M, Once(q, M), m \in M => ~ Has(q, M)
  PROVE  Once(Append(q, m), M)
<1>1. SUFFICES ASSUME NEW i \in 1..Len(Append(q, m)), NEW j \in 1..Len(Append(q, m)),
                      Append(q, m)[i] \in M, Append(q, m)[j] \in M
               PROVE  i = j
  BY DEF Once
<1>2. \A n \in 1..Len(Append(q, m)) :
        \/ n = Len(q) + 1 /\ Append(q, m)[n] = m
        \/ n \in 1..Len(q) /\ Append(q, m)[n] = q[n]
  BY AppendElements
<1>3. \A n \in 1..Len(q) : q[n] \in M => m \notin M
  BY DEF Has
<1>4. QED BY <1>1, <1>2, <1>3 DEF Once

LEMMA OnceTail ==
  ASSUME NEW S, NEW q \in Seq(S), q # << >>, NEW M, Once(q, M)
  PROVE  Once(Tail(q), M) /\ (Head(q) \in M => ~ Has(Tail(q), M))
<1>1. \A n \in 1..Len(Tail(q)) : n + 1 \in 1..Len(q) /\ Tail(q)[n] = q[n + 1] /\ n + 1 # 1
  BY TailElements
<1>2. 1 \in 1..Len(q) /\ Head(q) = q[1]
  BY TailElements
<1>3. Once(Tail(q), M)
  BY <1>1 DEF Once
<1>4. ASSUME Head(q) \in M, Has(Tail(q), M)  PROVE FALSE
  BY <1>4, <1>1, <1>2 DEF Has, Once
<1>5. QED BY <1>3, <1>4

LEMMA ThenAppend ==
  ASSUME NEW S, NEW q \in Seq(S), NEW m \in S, NEW M, NEW N,
         m \notin M, Then(q, M, N) \/ m \in N
  PROVE  Then(Append(q, m), M, N)
<1>1. SUFFICES ASSUME NEW i \in 1..Len(Append(q, m)), Append(q, m)[i] \in M
               PROVE  \E j \in 1..Len(Append(q, m)) : i < j /\ Append(q, m)[j] \in N
  BY DEF Then
<1>2. i \in 1..Len(q) /\ q[i] \in M /\ Len(q) \in Nat /\ i < Len(q) + 1
  BY <1>1, AppendElements
<1>3. CASE m \in N
  BY <1>3, AppendElements, <1>2
<1>4. CASE Then(q, M, N)
  BY <1>2, <1>4, AppendElements DEF Then
<1>5. QED BY <1>3, <1>4

LEMMA ThenTail ==
  ASSUME NEW S, NEW q \in Seq(S), q # << >>, NEW M, NEW N, Then(q, M, N)
  PROVE  Then(Tail(q), M, N) /\ (Head(q) \in M => Has(Tail(q), N))
<1>0. /\ \A n \in 1..Len(Tail(q)) : n + 1 \in 1..Len(q) /\ Tail(q)[n] = q[n + 1]
      /\ \A n \in 1..Len(q) : n > 1 => n - 1 \in 1..Len(Tail(q)) /\ Tail(q)[n - 1] = q[n]
      /\ 1 \in 1..Len(q) /\ Head(q) = q[1]
  BY TailElements
<1>1. ASSUME NEW i \in 1..Len(Tail(q)), Tail(q)[i] \in M
      PROVE  \E j \in 1..Len(Tail(q)) : i < j /\ Tail(q)[j] \in N
  <2>1. PICK j \in 1..Len(q) : i + 1 < j /\ q[j] \in N
    BY <1>0, <1>1 DEF Then
  <2>2. j - 1 \in 1..Len(Tail(q)) /\ i < j - 1 /\ Tail(q)[j - 1] \in N
    BY <1>0, <2>1
  <2>3. QED BY <2>2
<1>2. ASSUME Head(q) \in M  PROVE Has(Tail(q), N)
  BY <1>0, <1>2 DEF Then, Has
<1>3. QED BY <1>1, <1>2 DEF Then

LEMMA ThenNone ==
  ASSUME NEW q, NEW M, NEW N, ~ Has(q, M)
  PROVE  Then(q, M, N)
  BY DEF Has, Then

LEMMA HasJoin ==
  ASSUME NEW S, NEW p \in Seq(S), NEW q \in Seq(S), NEW M
  PROVE  Has(p \o q, M) <=> Has(p, M) \/ Has(q, M)
<1>0. /\ Len(p \o q) = Len(p) + Len(q) /\ Len(p) \in Nat /\ Len(q) \in Nat
      /\ \A i \in 1..Len(p \o q) : (p \o q)[i] = IF i <= Len(p) THEN p[i] ELSE q[i - Len(p)]
  OBVIOUS
<1>1. ASSUME Has(p \o q, M)  PROVE Has(p, M) \/ Has(q, M)
  BY <1>1, <1>0 DEF Has
<1>2. ASSUME Has(p, M)  PROVE Has(p \o q, M)
  BY <1>2, <1>0 DEF Has
<1>3. ASSUME Has(q, M)  PROVE Has(p \o q, M)
  <2>1. PICK i \in 1..Len(q) : q[i] \in M
    BY <1>3 DEF Has
  <2>2. Len(p) + i \in 1..Len(p \o q) /\ Len(p) + i > Len(p) /\ (Len(p) + i) - Len(p) = i
    BY <1>0, <2>1
  <2>3. (p \o q)[Len(p) + i] \in M
    BY <1>0, <2>1, <2>2
  <2>4. QED BY <2>2, <2>3 DEF Has
<1>4. QED BY <1>1, <1>2, <1>3

LEMMA WithinPrefix ==
  ASSUME NEW S, NEW q \in Seq(S), NEW n \in 0..Len(q)
  PROVE  Within(SubSeq(q, 1, n), q)
<1>1. /\ Len(SubSeq(q, 1, n)) = n /\ Len(q) \in Nat
      /\ \A i \in 1..n : SubSeq(q, 1, n)[i] = q[i] /\ i \in 1..Len(q)
  OBVIOUS
<1>2. QED BY <1>1 DEF Within, Has, Once

\* The first of what follows p is lost.
LEMMA WithinDrop ==
  ASSUME NEW S, NEW p \in Seq(S), NEW q \in Seq(S), q # << >>
  PROVE  Within(p \o Tail(q), p \o q)
<1>1. /\ Len(p \o q) = Len(p) + Len(q) /\ Len(p) \in Nat /\ Len(q) \in Nat
      /\ \A i \in 1..Len(p \o q) : (p \o q)[i] = IF i <= Len(p) THEN p[i] ELSE q[i - Len(p)]
  OBVIOUS
<1>2. Tail(q) \in Seq(S) /\ Len(Tail(q)) = Len(q) - 1 /\ Len(q) >= 1
      /\ \A i \in 1..Len(Tail(q)) : Tail(q)[i] = q[i + 1]
  BY TailElements
<1>3. /\ Len(p \o Tail(q)) = Len(p) + Len(q) - 1
      /\ \A i \in 1..Len(p \o Tail(q)) :
           (p \o Tail(q))[i] = IF i <= Len(p) THEN p[i] ELSE Tail(q)[i - Len(p)]
  BY <1>2
<1>4. \A i \in 1..Len(p \o Tail(q)) :
        IF i <= Len(p) THEN i \in 1..Len(p \o q) /\ (p \o Tail(q))[i] = (p \o q)[i]
        ELSE i + 1 \in 1..Len(p \o q) /\ (p \o Tail(q))[i] = (p \o q)[i + 1]
  BY <1>1, <1>3, <1>2
<1>5. ASSUME NEW M, Has(p \o Tail(q), M)  PROVE Has(p \o q, M)
  BY <1>4, <1>5 DEF Has
<1>6. ASSUME NEW M, Once(p \o q, M)  PROVE Once(p \o Tail(q), M)
  <2>1. SUFFICES ASSUME NEW i \in 1..Len(p \o Tail(q)), NEW j \in 1..Len(p \o Tail(q)),
                        (p \o Tail(q))[i] \in M, (p \o Tail(q))[j] \in M
                 PROVE  i = j
    BY DEF Once
  <2>2. PICK x \in 1..Len(p \o q) :
          x = (IF i <= Len(p) THEN i ELSE i + 1) /\ (p \o q)[x] \in M
    BY <1>4, <2>1
  <2>3. PICK y \in 1..Len(p \o q) :
          y = (IF j <= Len(p) THEN j ELSE j + 1) /\ (p \o q)[y] \in M
    BY <1>4, <2>1
  <2>4. x = y
    BY <1>6, <2>2, <2>3 DEF Once
  <2>5. QED BY <1>1, <2>1, <2>2, <2>3, <2>4
<1>7. QED BY <1>5, <1>6 DEF Within

LEMMA WithinItself ==
  ASSUME NEW q
  PROVE  Within(q, q)
  BY DEF Within

\* What is written, and what is added, leaves the rest in its order.
LEMMA JoinedQueues ==
  ASSUME NEW S, NEW p \in Seq(S), NEW q \in Seq(S)
  PROVE  /\ p \o q \in Seq(S) /\ p \o << >> = p
         /\ q # << >> => Append(p, Head(q)) \o Tail(q) = p \o q
         /\ \A m \in S : p \o Append(q, m) = Append(p \o q, m)
         /\ p # << >> => p \o q # << >> /\ Head(p \o q) = Head(p) /\ Tail(p \o q) = Tail(p) \o q
         /\ \A n \in 0..Len(p) : SubSeq(p \o q, 1, n) = SubSeq(p, 1, n) /\ n \in 0..Len(p \o q)
<1>1. p \o q \in Seq(S) /\ p \o << >> = p
  OBVIOUS
<1>2. q # << >> => Append(p, Head(q)) \o Tail(q) = p \o q
  OBVIOUS
<1>3. \A m \in S : p \o Append(q, m) = Append(p \o q, m)
  OBVIOUS
<1>4. p # << >> => p \o q # << >> /\ Head(p \o q) = Head(p) /\ Tail(p \o q) = Tail(p) \o q
  OBVIOUS
<1>5. \A n \in 0..Len(p) : SubSeq(p \o q, 1, n) = SubSeq(p, 1, n) /\ n \in 0..Len(p \o q)
  OBVIOUS
<1>6. QED BY <1>1, <1>2, <1>3, <1>4, <1>5

(***************************************************************************)
(* Kinds of messages.                                                      *)
(***************************************************************************)
LEMMA Kinds ==
  ASSUME NEW m \in Sent
  PROVE  /\ m \in PublicKey <=> m.op = "PUT_PUBLIC_KEY"
         /\ m \in SecretKey <=> m.op = "PUT_SECRET_KEY"
         /\ m \in Login <=> m.op \in {"PUT_PUBLIC_KEY", "PUT_SECRET_KEY",
                                      "PUT_CURRENT_VERSION", "VERSION_OK"}
         /\ m \in Freeing <=> m.op \in {"PUT_PRANKKEY", "GET_NEWPHONENUMBER", "BYE"}
         /\ \A k : /\ m \in Token(k) <=> m.op \in TokenOps /\ m.call = k
                   /\ m \in Answered(k) <=> m.op = "CALL_RESPONSE" /\ m.call = k
                   /\ m \in Asked(k) <=> m.op = "CALL_TO2" /\ m.call = k
                   /\ m \in From(k) <=> m.op = "CALLED_FROM" /\ m.call = k
                   /\ m \in Accepted(k) <=> m.op = "CALL_ACCEPT" /\ m.call = k
                   /\ m \in Off(k) <=> m.op = "CALL_OFF" /\ m.call = k
  BY DEF PublicKey, SecretKey, Login, Freeing, Token, Answered, Asked, From, Accepted, Off,
     All, Of

(***************************************************************************)
(* What one client has to do with its session, as a record v: up and down, *)
(* all that is on its way between the two; state, call and at, off (it is  *)
(* going to handle MSG_CALLOFFED) and keys of the client; srv, the call    *)
(* that the server has the session in; live, whether the session is served *)
(* over the connection.                                                    *)
(***************************************************************************)
LEMMA Growth ==
  ASSUME NEW p \in Seq(Sent), NEW m \in Sent
  PROVE  Grows(p, Append(p, m), m)
<1>1. Append(p, m) \in Seq(Sent)
  OBVIOUS
<1>2. \A M : Has(Append(p, m), M) <=> Has(p, M) \/ m \in M
  BY HasAppend
<1>3. \A M : Once(p, M) /\ (m \in M => ~ Has(p, M)) => Once(Append(p, m), M)
  BY OnceAppend
<1>4. \A M, N : m \notin M /\ (Then(p, M, N) \/ m \in N) => Then(Append(p, m), M, N)
  BY ThenAppend
<1>5. QED BY <1>1, <1>2, <1>3, <1>4 DEF Grows

LEMMA Shrinkage ==
  ASSUME NEW p \in Seq(Sent), p # << >>
  PROVE  Shrinks(p, Tail(p), Head(p))
<1>1. Tail(p) \in Seq(Sent) /\ Head(p) \in Sent
  OBVIOUS
<1>2. \A M : Has(p, M) <=> Head(p) \in M \/ Has(Tail(p), M)
  BY HasTail
<1>3. \A M : Once(p, M) => Once(Tail(p), M) /\ (Head(p) \in M => ~ Has(Tail(p), M))
  BY OnceTail
<1>4. \A M, N : Then(p, M, N) => Then(Tail(p), M, N) /\ (Head(p) \in M => Has(Tail(p), N))
  BY ThenTail
<1>5. QED BY <1>1, <1>2, <1>3, <1>4 DEF Shrinks

LEMMA AskedNone ==
  ASSUME NEW q, NEW k
  PROVE  /\ Has(q, Asked(k)) => Has(q, Token(k))
         /\ Has(q, Answered(k)) => Has(q, Token(k))
         /\ ~ Has(q, Token(k)) => \A N : Then(q, Asked(k), N)
<1>1. Asked(k) \subseteq Token(k) /\ Answered(k) \subseteq Token(k)
  BY DEF Asked, Answered, Token, Of, TokenOps
<1>2. QED BY <1>1 DEF Has, Then

LEMMA HasUnion ==
  ASSUME NEW q, NEW M, NEW N
  PROVE  Has(q, M \cup N) <=> Has(q, M) \/ Has(q, N)
  BY DEF Has

LEMMA KeysLogIn ==
  ASSUME NEW q
  PROVE  Has(q, PublicKey) \/ Has(q, SecretKey) => Has(q, Login)
<1>1. PublicKey \subseteq Login /\ SecretKey \subseteq Login
  BY DEF PublicKey, SecretKey, Login, All
<1>2. QED BY <1>1 DEF Has

LEMMA UnbornNone ==
  ASSUME NEW q, NEW a \in Nat, ~ Has(q, Unborn(a))
  PROVE  /\ \A k \in Nat : k > a => /\ ~ Has(q, Token(k)) /\ ~ Has(q, Asked(k)) /\ ~ Has(q, Answered(k))
                               /\ ~ Has(q, From(k)) /\ ~ Has(q, Off(k)) /\ ~ Has(q, Accepted(k))
         /\ ~ Has(q, From(0))
<1>1. \A k \in Nat : k > a => /\ Token(k) \subseteq Unborn(a) /\ Asked(k) \subseteq Unborn(a)
                          /\ Answered(k) \subseteq Unborn(a)
                          /\ From(k) \subseteq Unborn(a) /\ Off(k) \subseteq Unborn(a)
                          /\ Accepted(k) \subseteq Unborn(a)
  BY DEF Token, Asked, Answered, From, Off, Accepted, Of, Unborn, BeginOps, TokenOps
<1>2. From(0) \subseteq Unborn(a)
  BY DEF From, Of, Unborn, BeginOps
<1>3. QED BY <1>1, <1>2 DEF Has

\* The client dials: the call is a new one, and its own.
LEMMA Dials ==
  ASSUME NEW f, NEW c, NEW v, NEW w, ViewType(v), ClientAgrees(v, c, f),
         NEW a \in Nat, NEW k, k = a + 1, f \in [Nat -> Client], c \in Client,
         ~ Has(v.up, Unborn(a)), ~ Has(v.down, Unborn(a)), v.srv <= a,
         NEW m, UpGets(v, w, m), m.op = "CALL_TO", m.call = k,
         v.state = "STARTED", v.at = "idle", w.call = k, w.at = "callTo",
         w.down = v.down, w.state = v.state, w.off = v.off, w.keys = v.keys,
         w.srv = v.srv, w.live = v.live
  PROVE  ClientAgrees(w, c, [f EXCEPT ![k] = c])
<1>1. /\ m \notin PublicKey /\ m \notin SecretKey /\ m \notin Login /\ m \notin Freeing
      /\ \A i : (m \in Token(i) <=> m.call = i) /\ m \notin Answered(i)
                  /\ m \notin Asked(i) /\ m \notin From(i) /\ m \notin Accepted(i)
                  /\ m \notin Off(i)
  BY Kinds DEF UpGets, Grows, TokenOps, Errors
<1>2. \A q : ~ Has(q, Unborn(a)) => ~ Has(q, From(k)) /\ ~ Has(q, Off(k)) /\ ~ Has(q, Asked(k))
  BY UnbornNone
<1>3. \A n \in Nat : n # k => [f EXCEPT ![k] = c][n] = f[n]
      /\ [f EXCEPT ![k] = c][k] = c /\ k # 0
  OBVIOUS
<1>4. CalledOnce(w, c, [f EXCEPT ![k] = c])
  BY <1>1, <1>2, <1>3 DEF CalledOnce, ClientAgrees, UpGets, Grows
<1>5. Roles(w, c, [f EXCEPT ![k] = c])
  BY <1>1, <1>2, <1>3 DEF Roles, InCall, ClientAgrees, UpGets, Grows
<1>6. Accepts(w)
  BY <1>1, <1>2, <1>3 DEF Accepts, ClientAgrees, UpGets, Grows
<1>7. ASSUME w.live  PROVE Served(w)
  <2>0. Served(v)
    BY <1>7 DEF ClientAgrees
  <2>1. OffIsLast(w)
    BY <1>7, <1>1, <1>2, <1>3, <2>0 DEF OffIsLast, Served, UpGets, Grows
  <2>2. CalledByServer(w)
    BY <1>7, <1>1, <1>2, <1>3, <2>0 DEF CalledByServer, Served, UpGets, Grows
  <2>3. OffByServer(w)
    BY <1>7, <1>1, <1>2, <1>3, <2>0 DEF OffByServer, Served, UpGets, Grows
  <2>4. ClientInCall(w)
    BY <1>7, <1>1, <1>2, <1>3, <2>0 DEF ClientInCall, Served, LogsIn, InCall, ClientAgrees, Roles, UpGets, Grows
  <2>5. ServerInCall(w)
    BY <1>7, <1>1, <1>2, <1>3, <2>0 DEF ServerInCall, Served, Participates, LogsIn, InCall, ViewType, UpGets, Grows
  <2>6. AsksInCall(w)
    BY <1>7, <1>1, <1>2, <1>3, <2>0 DEF AsksInCall, Served, Participates, LogsIn, InCall, UpGets, Grows
  <2>7. QED BY <2>1, <2>2, <2>3, <2>4, <2>5, <2>6 DEF Served
<1>8. QED BY <1>4, <1>5, <1>6, <1>7 DEF ClientAgrees

\* The server answers the login of the client.
LEMMA IsAnsweredLogin ==
  ASSUME NEW f, NEW c, NEW v, NEW w, ViewType(v), ClientAgrees(v, c, f),
         NEW m, NEW n, Shrinks(v.up, w.up, m), Grows(v.down, w.down, n),
         m.op \in {"PUT_PUBLIC_KEY", "PUT_SECRET_KEY", "PUT_CURRENT_VERSION"},
         n.op \in {"PUT_PUBLIC_KEY", "PUT_SECRET_KEY", "VERSION_OK"}, n \in Sent,
         w.state = v.state, w.call = v.call, w.at = v.at, w.off = v.off,
         w.keys = v.keys, w.srv = v.srv, w.live = v.live
  PROVE  ClientAgrees(w, c, f)
<1>1. /\ m \in Login /\ m \notin Freeing
      /\ \A k : m \notin Token(k) /\ m \notin Answered(k) /\ m \notin Asked(k)
                  /\ m \notin From(k) /\ m \notin Accepted(k) /\ m \notin Off(k)
      /\ n \in Login /\ n \notin Freeing
      /\ \A k : n \notin Token(k) /\ n \notin Answered(k) /\ n \notin Asked(k)
                  /\ n \notin From(k) /\ n \notin Accepted(k) /\ n \notin Off(k)
  BY Kinds DEF Shrinks, Grows, TokenOps, Errors
<1>2. CalledOnce(w, c, f)
  BY <1>1 DEF CalledOnce, ClientAgrees, Shrinks, Grows
<1>3. Roles(w, c, f)
  BY <1>1 DEF Roles, InCall, ClientAgrees, Shrinks, Grows
<1>4. Accepts(w)
  BY <1>1 DEF Accepts, ClientAgrees, Shrinks, Grows
<1>5. ASSUME w.live  PROVE Served(w)
  <2>0. Served(v)
    BY <1>5 DEF ClientAgrees
  <2>1. OffIsLast(w)
    BY <1>5, <1>1, <2>0 DEF OffIsLast, Served, Shrinks, Grows
  <2>2. CalledByServer(w)
    BY <1>5, <1>1, <2>0 DEF CalledByServer, Served, Shrinks, Grows
  <2>3. OffByServer(w)
    BY <1>5, <1>1, <2>0 DEF OffByServer, Served, Shrinks, Grows
  <2>4. ClientInCall(w)
    BY <1>5, <1>1, <2>0 DEF ClientInCall, Served, LogsIn, ClientAgrees, Roles, Shrinks, Grows
  <2>5. ServerInCall(w)
    BY <1>5, <1>1, <2>0 DEF ServerInCall, Served, Participates, LogsIn, Shrinks, Grows
  <2>6. AsksInCall(w)
    BY <1>5, <1>1, <2>0 DEF AsksInCall, Served, Participates, LogsIn, Shrinks, Grows
  <2>7. QED BY <2>1, <2>2, <2>3, <2>4, <2>5, <2>6 DEF Served
<1>6. QED BY <1>2, <1>3, <1>4, <1>5 DEF ClientAgrees

\* The server gives the session a number.
LEMMA IsNumbered ==
  ASSUME NEW f, NEW c, NEW v, NEW w, ViewType(v), ClientAgrees(v, c, f),
         NEW m, NEW n, Shrinks(v.up, w.up, m), Grows(v.down, w.down, n),
         m.op \in {"PUT_PRANKKEY", "GET_NEWPHONENUMBER"}, n.op = "PUT_PHONENUMBER", n \in Sent,
         v.srv = 0,
         w.state = v.state, w.call = v.call, w.at = v.at, w.off = v.off,
         w.keys = v.keys, w.srv = v.srv, w.live = v.live
  PROVE  ClientAgrees(w, c, f)
<1>1. /\ m \notin PublicKey /\ m \notin SecretKey /\ m \notin Login /\ m \in Freeing
      /\ \A k : m \notin Token(k) /\ m \notin Answered(k) /\ m \notin Asked(k)
                  /\ m \notin From(k) /\ m \notin Accepted(k) /\ m \notin Off(k)
      /\ n \notin PublicKey /\ n \notin SecretKey /\ n \notin Login /\ n \notin Freeing
      /\ \A k : n \notin Token(k) /\ n \notin Answered(k) /\ n \notin Asked(k)
                  /\ n \notin From(k) /\ n \notin Accepted(k) /\ n \notin Off(k)
  BY Kinds DEF Shrinks, Grows, TokenOps, Errors
<1>2. CalledOnce(w, c, f)
  BY <1>1 DEF CalledOnce, ClientAgrees, Shrinks, Grows
<1>3. Roles(w, c, f)
  BY <1>1 DEF Roles, InCall, ClientAgrees, Shrinks, Grows
<1>4. Accepts(w)
  BY <1>1 DEF Accepts, ClientAgrees, Shrinks, Grows
<1>5. ASSUME w.live  PROVE Served(w)
  <2>0. Served(v)
    BY <1>5 DEF ClientAgrees
  <2>1. OffIsLast(w)
    BY <1>5, <1>1, <2>0 DEF OffIsLast, Served, Shrinks, Grows
  <2>2. CalledByServer(w)
    BY <1>5, <1>1, <2>0 DEF CalledByServer, Served, Shrinks, Grows
  <2>3. OffByServer(w)
    BY <1>5, <1>1, <2>0 DEF OffByServer, Served, Shrinks, Grows
  <2>4. ClientInCall(w)
    BY <1>5, <1>1, <2>0 DEF ClientInCall, Served, LogsIn, ClientAgrees, Roles, Shrinks, Grows
  <2>5. ServerInCall(w)
    BY <1>5, <1>1, <2>0 DEF ServerInCall, Served, Participates, LogsIn, Shrinks, Grows
  <2>6. AsksInCall(w)
    BY <1>5, <1>1, <2>0 DEF AsksInCall, Served, Participates, LogsIn, Shrinks, Grows
  <2>7. QED BY <2>1, <2>2, <2>3, <2>4, <2>5, <2>6 DEF Served
<1>6. QED BY <1>2, <1>3, <1>4, <1>5 DEF ClientAgrees

\* The server refuses the call.
LEMMA IsRefused ==
  ASSUME NEW f, NEW c, NEW v, NEW w, ViewType(v), ClientAgrees(v, c, f),
         NEW m, NEW n, Shrinks(v.up, w.up, m), Grows(v.down, w.down, n),
         m.op \in {"CALL_TO", "CALL_TO2"}, n.op \in Errors, n \in Sent, n.call = m.call,
         v.srv = 0,
         w.state = v.state, w.call = v.call, w.at = v.at, w.off = v.off,
         w.keys = v.keys, w.srv = v.srv, w.live = v.live
  PROVE  ClientAgrees(w, c, f)
<1>1. /\ m \notin PublicKey /\ m \notin SecretKey /\ m \notin Login /\ m \notin Freeing
      /\ \A k : (m \in Token(k) <=> m.call = k) /\ m \notin Answered(k)
                  /\ m \notin From(k) /\ m \notin Accepted(k) /\ m \notin Off(k)
      /\ n \notin PublicKey /\ n \notin SecretKey /\ n \notin Login /\ n \notin Freeing
      /\ \A k : (n \in Token(k) <=> n.call = k) /\ n \notin Answered(k)
                  /\ n \notin Asked(k) /\ n \notin From(k) /\ n \notin Accepted(k)
                  /\ n \notin Off(k)
  BY Kinds DEF Shrinks, Grows, TokenOps, Errors
<1>2. CalledOnce(w, c, f)
  BY <1>1 DEF CalledOnce, ClientAgrees, Shrinks, Grows
<1>3. Roles(w, c, f)
  BY <1>1 DEF Roles, InCall, ClientAgrees, Shrinks, Grows
<1>4. Accepts(w)
  BY <1>1 DEF Accepts, ClientAgrees, Shrinks, Grows
<1>5. ASSUME w.live  PROVE Served(w)
  <2>0. Served(v)
    BY <1>5 DEF ClientAgrees
  <2>1. OffIsLast(w)
    BY <1>5, <1>1, <2>0 DEF OffIsLast, Served, Shrinks, Grows
  <2>2. CalledByServer(w)
    BY <1>5, <1>1, <2>0 DEF CalledByServer, Served, Shrinks, Grows
  <2>3. OffByServer(w)
    BY <1>5, <1>1, <2>0 DEF OffByServer, Served, Shrinks, Grows
  <2>4. ClientInCall(w)
    BY <1>5, <1>1, <2>0 DEF ClientInCall, Served, LogsIn, ClientAgrees, Roles, Shrinks, Grows
  <2>5. ServerInCall(w)
    BY <1>5, <1>1, <2>0 DEF ServerInCall, Served, Participates, LogsIn, Shrinks, Grows
  <2>6. AsksInCall(w)
    BY <1>5, <1>1, <2>0 DEF AsksInCall, Served, Participates, LogsIn, Shrinks, Grows
  <2>7. QED BY <2>1, <2>2, <2>3, <2>4, <2>5, <2>6 DEF Served
<1>6. QED BY <1>2, <1>3, <1>4, <1>5 DEF ClientAgrees

\* The server has found who is dialled.
LEMMA IsResponded ==
  ASSUME NEW f, NEW c, NEW v, NEW w, ViewType(v), ClientAgrees(v, c, f),
         NEW m, NEW n, Shrinks(v.up, w.up, m), Grows(v.down, w.down, n),
         m.op = "CALL_TO", n.op = "CALL_RESPONSE", n \in Sent, n.call = m.call,
         v.srv = 0,
         w.state = v.state, w.call = v.call, w.at = v.at, w.off = v.off,
         w.keys = v.keys, w.srv = v.srv, w.live = v.live
  PROVE  ClientAgrees(w, c, f)
<1>1. /\ m \notin PublicKey /\ m \notin SecretKey /\ m \notin Login /\ m \notin Freeing
      /\ \A k : (m \in Token(k) <=> m.call = k) /\ m \notin Answered(k)
                  /\ m \notin Asked(k) /\ m \notin From(k) /\ m \notin Accepted(k)
                  /\ m \notin Off(k)
      /\ n \notin PublicKey /\ n \notin SecretKey /\ n \notin Login /\ n \notin Freeing
      /\ \A k : (n \in Token(k) <=> n.call = k) /\ (n \in Answered(k) <=> n.call = k)
                  /\ n \notin Asked(k) /\ n \notin From(k) /\ n \notin Accepted(k)
                  /\ n \notin Off(k)
  BY Kinds DEF Shrinks, Grows, TokenOps, Errors
<1>2. CalledOnce(w, c, f)
  BY <1>1 DEF CalledOnce, ClientAgrees, Shrinks, Grows
<1>3. Roles(w, c, f)
  BY <1>1 DEF Roles, InCall, ClientAgrees, Shrinks, Grows
<1>4. Accepts(w)
  BY <1>1 DEF Accepts, ClientAgrees, Shrinks, Grows
<1>5. ASSUME w.live  PROVE Served(w)
  <2>0. Served(v)
    BY <1>5 DEF ClientAgrees
  <2>1. OffIsLast(w)
    BY <1>5, <1>1, <2>0 DEF OffIsLast, Served, Shrinks, Grows
  <2>2. CalledByServer(w)
    BY <1>5, <1>1, <2>0 DEF CalledByServer, Served, Shrinks, Grows
  <2>3. OffByServer(w)
    BY <1>5, <1>1, <2>0 DEF OffByServer, Served, Shrinks, Grows
  <2>4. ClientInCall(w)
    BY <1>5, <1>1, <2>0 DEF ClientInCall, Served, LogsIn, ClientAgrees, Roles, Shrinks, Grows
  <2>5. ServerInCall(w)
    BY <1>5, <1>1, <2>0 DEF ServerInCall, Served, Participates, LogsIn, Shrinks, Grows
  <2>6. AsksInCall(w)
    BY <1>5, <1>1, <2>0 DEF AsksInCall, Served, Participates, LogsIn, Shrinks, Grows
  <2>7. QED BY <2>1, <2>2, <2>3, <2>4, <2>5, <2>6 DEF Served
<1>6. QED BY <1>2, <1>3, <1>4, <1>5 DEF ClientAgrees

\* The server takes an acceptance, or what ends no call.
LEMMA IsHeard ==
  ASSUME NEW f, NEW c, NEW v, NEW w, ViewType(v), ClientAgrees(v, c, f),
         NEW m, Shrinks(v.up, w.up, m), m.op = "CALL_ACCEPT" \/ (m.op = "CALL_OFF" /\ v.srv = 0),
         w.down = v.down, w.state = v.state, w.call = v.call, w.at = v.at,
         w.off = v.off, w.keys = v.keys, w.srv = v.srv, w.live = v.live
  PROVE  ClientAgrees(w, c, f)
<1>1. /\ m \notin PublicKey /\ m \notin SecretKey /\ m \notin Login /\ m \notin Freeing
      /\ \A k : m \notin Token(k) /\ m \notin Answered(k) /\ m \notin Asked(k)
                  /\ m \notin From(k)
  BY Kinds DEF Shrinks, TokenOps, Errors
<1>2. v.srv = 0 \/ \A k : m \notin Off(k)
  BY Kinds DEF Shrinks
<1>3. CalledOnce(w, c, f)
  BY <1>1, <1>2 DEF CalledOnce, ClientAgrees, Shrinks
<1>4. Roles(w, c, f)
  BY <1>1, <1>2 DEF Roles, InCall, ClientAgrees, Shrinks
<1>5. Accepts(w)
  BY <1>1, <1>2 DEF Accepts, ClientAgrees, Shrinks
<1>6. ASSUME w.live  PROVE Served(w)
  <2>0. Served(v)
    BY <1>6 DEF ClientAgrees
  <2>1. OffIsLast(w)
    BY <1>6, <1>1, <1>2, <2>0 DEF OffIsLast, Served, Shrinks
  <2>2. CalledByServer(w)
    BY <1>6, <1>1, <1>2, <2>0 DEF CalledByServer, Served, Shrinks
  <2>3. OffByServer(w)
    BY <1>6, <1>1, <1>2, <2>0 DEF OffByServer, Served, Shrinks
  <2>4. ClientInCall(w)
    BY <1>6, <1>1, <1>2, <2>0 DEF ClientInCall, Served, LogsIn, ClientAgrees, Roles, Shrinks
  <2>5. ServerInCall(w)
    BY <1>6, <1>1, <1>2, <2>0 DEF ServerInCall, Served, Participates, LogsIn, Shrinks
  <2>6. AsksInCall(w)
    BY <1>6, <1>1, <1>2, <2>0 DEF AsksInCall, Served, Participates, LogsIn, Shrinks
  <2>7. QED BY <2>1, <2>2, <2>3, <2>4, <2>5, <2>6 DEF Served
<1>7. QED BY <1>3, <1>4, <1>5, <1>6 DEF ClientAgrees

\* The server connects the caller ...
LEMMA IsConnected ==
  ASSUME NEW f, NEW c, NEW v, NEW w, ViewType(v), ClientAgrees(v, c, f),
         NEW m, Shrinks(v.up, w.up, m), m.op = "CALL_TO2", m.call # 0,
         v.live => TokenRules(v),
         v.srv = 0, w.srv = m.call,
         w.down = v.down, w.state = v.state, w.call = v.call, w.at = v.at,
         w.off = v.off, w.keys = v.keys, w.live = v.live
  PROVE  ClientAgrees(w, c, f)
<1>1. /\ m \notin PublicKey /\ m \notin SecretKey /\ m \notin Login /\ m \notin Freeing
      /\ \A k : (m \in Token(k) <=> m.call = k) /\ m \notin Answered(k)
                  /\ (m \in Asked(k) <=> m.call = k) /\ m \notin From(k)
                  /\ m \notin Accepted(k) /\ m \notin Off(k)
  BY Kinds DEF Shrinks, TokenOps, Errors
<1>2. m.call \in Nat \ {0} /\ m \in Asked(m.call)
  BY <1>1, SentFields DEF Shrinks
<1>3. \A M, N : Then(v.up, M, N) /\ m \in M => Has(w.up, N)
  BY DEF Shrinks
<1>4. v.live => \/ Participates(v, m.call) \/ LogsIn(v)
                 \/ Has(w.up, Off(m.call)) \/ Has(w.up, Freeing)
  BY <1>1, <1>2, <1>3, HasUnion DEF ClientAgrees, Served, AsksInCall
<1>5. CalledOnce(w, c, f)
  BY <1>1, <1>2, <1>3, <1>4 DEF CalledOnce, ClientAgrees, Shrinks, TokenRules
<1>6. Roles(w, c, f)
  BY <1>1, <1>2, <1>3, <1>4 DEF Roles, InCall, ClientAgrees, Shrinks, TokenRules
<1>7. Accepts(w)
  BY <1>1, <1>2, <1>3, <1>4 DEF Accepts, ClientAgrees, Shrinks, TokenRules
<1>8. ASSUME w.live  PROVE Served(w)
  <2>0. Served(v)
    BY <1>8 DEF ClientAgrees
  <2>1. OffIsLast(w)
    BY <1>8, <1>1, <1>2, <1>3, <1>4, <2>0 DEF OffIsLast, Served, Shrinks, TokenRules
  <2>2. CalledByServer(w)
    BY <1>8, <1>1, <1>2, <1>3, <1>4, <2>0 DEF CalledByServer, Served, Shrinks, TokenRules
  <2>3. OffByServer(w)
    BY <1>8, <1>1, <1>2, <1>3, <1>4, <2>0 DEF OffByServer, Served, Shrinks, TokenRules
  <2>4. ClientInCall(w)
    BY <1>8, <1>1, <1>2, <1>3, <1>4, <2>0 DEF ClientInCall, Served, LogsIn, ClientAgrees, Roles, Shrinks, TokenRules
  <2>5. ServerInCall(w)
    BY <1>8, <1>1, <1>2, <1>3, <1>4, <2>0 DEF ServerInCall, Served, Participates, LogsIn, Shrinks, TokenRules
  <2>6. AsksInCall(w)
    BY <1>8, <1>1, <1>2, <1>3, <1>4, <2>0 DEF AsksInCall, Served, Participates, LogsIn, Shrinks, TokenRules
  <2>7. QED BY <2>1, <2>2, <2>3, <2>4, <2>5, <2>6 DEF Served
<1>9. QED BY <1>5, <1>6, <1>7, <1>8 DEF ClientAgrees

\* ... and the called.
LEMMA IsRung ==
  ASSUME NEW f, NEW c, NEW v, NEW w, ViewType(v), ClientAgrees(v, c, f),
         NEW m \in Sent, Grows(v.down, w.down, m), m.op = "CALLED_FROM", m.call # 0,
         v.srv = 0, w.srv = m.call, f[m.call] # c, v.call # m.call,
         ~ Has(v.down, From(m.call)), ~ Has(v.down, Off(m.call)), v.live => ~ Has(v.up, Off(m.call)),
         w.up = v.up, w.state = v.state, w.call = v.call, w.at = v.at,
         w.off = v.off, w.keys = v.keys, w.live = v.live
  PROVE  ClientAgrees(w, c, f)
<1>1. /\ m \notin PublicKey /\ m \notin SecretKey /\ m \notin Login /\ m \notin Freeing
      /\ \A k : m \notin Token(k) /\ m \notin Answered(k) /\ m \notin Asked(k)
                  /\ (m \in From(k) <=> m.call = k) /\ m \notin Accepted(k)
                  /\ m \notin Off(k)
  BY Kinds DEF Grows, TokenOps, Errors
<1>2. CalledOnce(w, c, f)
  BY <1>1 DEF CalledOnce, ClientAgrees, Grows
<1>3. Roles(w, c, f)
  BY <1>1 DEF Roles, InCall, ClientAgrees, Grows
<1>4. Accepts(w)
  BY <1>1 DEF Accepts, ClientAgrees, Grows
<1>5. ASSUME w.live  PROVE Served(w)
  <2>0. Served(v)
    BY <1>5 DEF ClientAgrees
  <2>1. OffIsLast(w)
    BY <1>5, <1>1, <2>0 DEF OffIsLast, Served, Grows
  <2>2. CalledByServer(w)
    BY <1>5, <1>1, <2>0 DEF CalledByServer, Served, Grows
  <2>3. OffByServer(w)
    BY <1>5, <1>1, <2>0 DEF OffByServer, Served, Grows
  <2>4. ClientInCall(w)
    BY <1>5, <1>1, <2>0 DEF ClientInCall, Served, LogsIn, ClientAgrees, Roles, Grows
  <2>5. ServerInCall(w)
    BY <1>5, <1>1, <2>0 DEF ServerInCall, Served, Participates, LogsIn, Grows
  <2>6. AsksInCall(w)
    BY <1>5, <1>1, <2>0 DEF AsksInCall, Served, Participates, LogsIn, Grows
  <2>7. QED BY <2>1, <2>2, <2>3, <2>4, <2>5, <2>6 DEF Served
<1>6. QED BY <1>2, <1>3, <1>4, <1>5 DEF ClientAgrees

\* The server forwards the acceptance.
LEMMA IsTold ==
  ASSUME NEW f, NEW c, NEW v, NEW w, ViewType(v), ClientAgrees(v, c, f),
         NEW m \in Sent, Grows(v.down, w.down, m), m.op = "CALL_ACCEPT",
         w.up = v.up, w.state = v.state, w.call = v.call, w.at = v.at,
         w.off = v.off, w.keys = v.keys, w.srv = v.srv, w.live = v.live
  PROVE  ClientAgrees(w, c, f)
<1>1. /\ m \notin PublicKey /\ m \notin SecretKey /\ m \notin Login /\ m \notin Freeing
      /\ \A k : m \notin Token(k) /\ m \notin Answered(k) /\ m \notin Asked(k)
                  /\ m \notin From(k) /\ (m \in Accepted(k) <=> m.call = k)
                  /\ m \notin Off(k)
  BY Kinds DEF Grows, TokenOps, Errors
<1>2. CalledOnce(w, c, f)
  BY <1>1 DEF CalledOnce, ClientAgrees, Grows
<1>3. Roles(w, c, f)
  BY <1>1 DEF Roles, InCall, ClientAgrees, Grows
<1>4. Accepts(w)
  BY <1>1 DEF Accepts, ClientAgrees, Grows
<1>5. ASSUME w.live  PROVE Served(w)
  <2>0. Served(v)
    BY <1>5 DEF ClientAgrees
  <2>1. OffIsLast(w)
    BY <1>5, <1>1, <2>0 DEF OffIsLast, Served, Grows
  <2>2. CalledByServer(w)
    BY <1>5, <1>1, <2>0 DEF CalledByServer, Served, Grows
  <2>3. OffByServer(w)
    BY <1>5, <1>1, <2>0 DEF OffByServer, Served, Grows
  <2>4. ClientInCall(w)
    BY <1>5, <1>1, <2>0 DEF ClientInCall, Served, LogsIn, ClientAgrees, Roles, Grows
  <2>5. ServerInCall(w)
    BY <1>5, <1>1, <2>0 DEF ServerInCall, Served, Participates, LogsIn, Grows
  <2>6. AsksInCall(w)
    BY <1>5, <1>1, <2>0 DEF AsksInCall, Served, Participates, LogsIn, Grows
  <2>7. QED BY <2>1, <2>2, <2>3, <2>4, <2>5, <2>6 DEF Served
<1>6. QED BY <1>2, <1>3, <1>4, <1>5 DEF ClientAgrees

\* The server ends the call for who hangs up ...
LEMMA EndsCall ==
  ASSUME NEW f, NEW c, NEW v, NEW w, ViewType(v), ClientAgrees(v, c, f),
         NEW m, Shrinks(v.up, w.up, m), m.op = "CALL_OFF", m.call = v.srv,
         v.srv # 0, w.srv = 0,
         w.down = v.down, w.state = v.state, w.call = v.call, w.at = v.at,
         w.off = v.off, w.keys = v.keys, w.live = v.live
  PROVE  ClientAgrees(w, c, f)
<1>1. /\ m \notin PublicKey /\ m \notin SecretKey /\ m \notin Login /\ m \notin Freeing
      /\ \A k : m \notin Token(k) /\ m \notin Answered(k) /\ m \notin Asked(k)
                  /\ m \notin From(k) /\ m \notin Accepted(k)
                  /\ (m \in Off(k) <=> m.call = k)
  BY Kinds DEF Shrinks, TokenOps, Errors
<1>2. v.live => ~ Has(v.down, From(v.srv)) /\ v.call # v.srv
  BY <1>1 DEF ClientAgrees, Served, OffIsLast, Shrinks, ViewType
<1>3. CalledOnce(w, c, f)
  BY <1>1, <1>2 DEF CalledOnce, ClientAgrees, Shrinks
<1>4. Roles(w, c, f)
  BY <1>1, <1>2 DEF Roles, InCall, ClientAgrees, Shrinks
<1>5. Accepts(w)
  BY <1>1, <1>2 DEF Accepts, ClientAgrees, Shrinks
<1>6. ASSUME w.live  PROVE Served(w)
  <2>0. Served(v)
    BY <1>6 DEF ClientAgrees
  <2>1. OffIsLast(w)
    BY <1>6, <1>1, <1>2, <2>0 DEF OffIsLast, Served, Shrinks
  <2>2. CalledByServer(w)
    BY <1>6, <1>1, <1>2, <2>0, ThenNone DEF CalledByServer, Served, Shrinks
  <2>3. OffByServer(w)
    BY <1>6, <1>1, <1>2, <2>0 DEF OffByServer, Served, Shrinks
  <2>4. ClientInCall(w)
    BY <1>6, <1>1, <1>2, <2>0 DEF ClientInCall, Served, LogsIn, ClientAgrees, Roles, Shrinks
  <2>5. ServerInCall(w)
    BY <1>6, <1>1, <1>2, <2>0 DEF ServerInCall, Served, Participates, LogsIn, Shrinks
  <2>6. AsksInCall(w)
    BY <1>6, <1>1, <1>2, <2>0 DEF AsksInCall, Served, Participates, LogsIn, Shrinks
  <2>7. QED BY <2>1, <2>2, <2>3, <2>4, <2>5, <2>6 DEF Served
<1>7. QED BY <1>3, <1>4, <1>5, <1>6 DEF ClientAgrees

\* ... and for the other.
LEMMA IsToldOff ==
  ASSUME NEW f, NEW c, NEW v, NEW w, ViewType(v), ClientAgrees(v, c, f),
         NEW m \in Sent, Grows(v.down, w.down, m), m.op = "CALL_OFF",
         v.live => v.srv \in {0, m.call}, w.srv = 0,
         w.up = v.up, w.state = v.state, w.call = v.call, w.at = v.at,
         w.off = v.off, w.keys = v.keys, w.live = v.live
  PROVE  ClientAgrees(w, c, f)
<1>1. /\ m \notin PublicKey /\ m \notin SecretKey /\ m \notin Login /\ m \notin Freeing
      /\ \A k : m \notin Token(k) /\ m \notin Answered(k) /\ m \notin Asked(k)
                  /\ m \notin From(k) /\ m \notin Accepted(k)
                  /\ (m \in Off(k) <=> m.call = k)
  BY Kinds DEF Grows, TokenOps, Errors
<1>2. CalledOnce(w, c, f)
  BY <1>1 DEF CalledOnce, ClientAgrees, Grows
<1>3. Roles(w, c, f)
  BY <1>1 DEF Roles, InCall, ClientAgrees, Grows
<1>4. Accepts(w)
  BY <1>1 DEF Accepts, ClientAgrees, Grows
<1>5. ASSUME w.live  PROVE Served(w)
  <2>0. Served(v)
    BY <1>5 DEF ClientAgrees
  <2>1. OffIsLast(w)
    BY <1>5, <1>1, <2>0 DEF OffIsLast, Served, Grows
  <2>2. CalledByServer(w)
    BY <1>5, <1>1, <2>0 DEF CalledByServer, Served, Grows
  <2>3. OffByServer(w)
    BY <1>5, <1>1, <2>0 DEF OffByServer, Served, Grows
  <2>4. ClientInCall(w)
    BY <1>5, <1>1, <2>0 DEF ClientInCall, Served, LogsIn, ClientAgrees, Roles, Grows
  <2>5. ServerInCall(w)
    BY <1>5, <1>1, <2>0 DEF ServerInCall, Served, Participates, LogsIn, Grows
  <2>6. AsksInCall(w)
    BY <1>5, <1>1, <2>0 DEF AsksInCall, Served, Participates, LogsIn, Grows
  <2>7. QED BY <2>1, <2>2, <2>3, <2>4, <2>5, <2>6 DEF Served
<1>6. QED BY <1>2, <1>3, <1>4, <1>5 DEF ClientAgrees

(***************************************************************************)
(* What holds until something is overtaken.  The functions f and h are     *)
(* history: the client that has dialled a call, and its session then.      *)
(***************************************************************************)
LEMMA ViewFields ==
  ASSUME NEW W, NEW c
  PROVE  /\ View(W, c).up = W.up[W.now[c]] /\ View(W, c).down = W.down[W.now[c]]
         /\ View(W, c).state = W.state[c] /\ View(W, c).call = W.call[c]
         /\ View(W, c).at = W.at[c] /\ View(W, c).off = W.off[c]
         /\ View(W, c).keys = W.keys[c] /\ View(W, c).live = W.live[c]
         /\ View(W, c).srv = Srv(W, W.now[c])
  BY DEF View

LEMMA ViewTyped ==
  ASSUME NEW W, WorldType(W), NEW c \in Client
  PROVE  ViewType(View(W, c))
<1>1. W.now[c] \in Session
  BY DEF WorldType
<1>2. View(W, c).up \in Seq(Sent) /\ View(W, c).down \in Seq(Sent)
  BY <1>1, ViewFields DEF WorldType
<1>3. Srv(W, W.now[c]) \in Nat
  BY <1>1 DEF WorldType, Srv
<1>4. /\ View(W, c).state \in State /\ View(W, c).call \in Nat
      /\ View(W, c).at \in {"idle", "callTo", "callAccept", "onPause"}
      /\ View(W, c).off \in BOOLEAN /\ View(W, c).keys \in {"none", "RSA", "AES"}
      /\ View(W, c).live \in BOOLEAN
  BY ViewFields DEF WorldType
<1>5. QED BY <1>2, <1>3, <1>4, ViewFields DEF ViewType

\* What the client needs of the others.
LEMMA RulesOfTokens ==
  ASSUME NEW W, NEW f, NEW h, WorldType(W), Together(W, f, h), NEW c \in Client, W.live[c]
  PROVE  TokenRules(View(W, c))
<1>1. PICK s \in W.list : s = W.now[c]
  BY DEF WorldType
<1>2. \A k \in Calls : OneQuestion(W, s, k) /\ (Asks(W, s, k) => NotBegun(W, s, k))
  BY <1>1 DEF Together, Questions, Open
<1>3. s \in Session
  BY <1>1 DEF WorldType
<1>4. QED BY <1>1, <1>2, <1>3, ViewFields DEF OneQuestion, Asks, NotBegun, TokenRules, Calls

(***************************************************************************)
(* A step of one client leaves the rest as it is.                          *)
(***************************************************************************)
LEMMA MatesKept ==
  ASSUME NEW W, NEW X, NEW f, NEW h, NEW c \in Client, ClientMoves(W, X, c, f, h)
  PROVE  Mates(X)
  BY DEF ClientMoves, Agreed, Together, OthersSame, Mates

\* The questions of a session, before and after.
LEMMA QuestionsBefore ==
  ASSUME NEW W, NEW X, NEW f, NEW h, NEW c \in Client, ClientMoves(W, X, c, f, h)
  PROVE  \A s \in Session : \A k \in Calls :
           /\ Asks(X, s, k) => Asks(W, s, k)
           /\ Pends(X, s, k) => Pends(W, s, k)
           /\ OneQuestion(W, s, k) => OneQuestion(X, s, k)
<1>1. SUFFICES ASSUME NEW s \in Session, NEW k \in Calls
               PROVE  /\ Asks(X, s, k) => Asks(W, s, k)
                      /\ Pends(X, s, k) => Pends(W, s, k)
                      /\ OneQuestion(W, s, k) => OneQuestion(X, s, k)
  OBVIOUS
<1>2. CASE s = W.now[c]
  BY <1>2, ViewFields DEF ClientMoves, OthersSame, Moves, KeepsQuestions, Asks, Pends, OneQuestion
<1>3. CASE s # W.now[c]
  BY <1>3 DEF ClientMoves, OthersSame, Asks, Pends, OneQuestion
<1>4. QED BY <1>2, <1>3

LEMMA FoundKept ==
  ASSUME NEW W, NEW X, NEW f, NEW h, NEW c \in Client, ClientMoves(W, X, c, f, h)
  PROVE  Found(X)
<1>1. /\ X.list = W.list /\ X.list \subseteq Session /\ X.ended = W.ended
      /\ X.partner = W.partner /\ X.sCall = W.sCall /\ Found(W)
  BY DEF ClientMoves, OthersSame, Agreed, Together, WorldType
<1>2. QED BY <1>1, QuestionsBefore DEF Found

LEMMA QuestionsKept ==
  ASSUME NEW W, NEW X, NEW f, NEW h, NEW c \in Client, ClientMoves(W, X, c, f, h)
  PROVE  Questions(X, f, h) /\ Held(X)
<1>1. /\ X.list = W.list /\ X.list \subseteq Session /\ X.sCall = W.sCall
      /\ Questions(W, f, h) /\ Held(W)
  BY DEF ClientMoves, OthersSame, Agreed, Together, WorldType
<1>2. Questions(X, f, h)
  BY <1>1, QuestionsBefore DEF Questions
<1>3. Held(X)
  BY <1>1, QuestionsBefore DEF Held
<1>4. QED BY <1>2, <1>3

\* What is on its way to the sessions, before and after.
LEMMA DownBefore ==
  ASSUME NEW W, NEW X, NEW f, NEW h, NEW c \in Client, ClientMoves(W, X, c, f, h)
  PROVE  \A s \in Session : \A k \in Calls :
           /\ Has(X.down[s], From(k)) => Has(W.down[s], From(k))
           /\ Has(X.down[s], Off(k)) => Has(W.down[s], Off(k))
           /\ Has(X.down[s], Accepted(k)) => Has(W.down[s], Accepted(k))
<1>1. SUFFICES ASSUME NEW s \in Session, NEW k \in Calls
               PROVE  /\ Has(X.down[s], From(k)) => Has(W.down[s], From(k))
                      /\ Has(X.down[s], Off(k)) => Has(W.down[s], Off(k))
                      /\ Has(X.down[s], Accepted(k)) => Has(W.down[s], Accepted(k))
  OBVIOUS
<1>2. CASE s = W.now[c]
  BY <1>2, ViewFields DEF ClientMoves, OthersSame, Moves, HearsNothingNew
<1>3. CASE s # W.now[c]
  BY <1>3 DEF ClientMoves, OthersSame
<1>4. QED BY <1>2, <1>3

\* What the client that acts has to do with its session and its call.
LEMMA OwnMove ==
  ASSUME NEW W, NEW X, NEW f, NEW h, NEW c \in Client, ClientMoves(W, X, c, f, h)
  PROVE  /\ X.call[c] \in {0, W.call[c]} \/ Has(W.down[W.now[c]], From(X.call[c]))
         /\ \A k \in Calls :
              /\ Has(X.up[W.now[c]], Off(k)) => Has(W.up[W.now[c]], Off(k)) \/ W.call[c] = k
              /\ Has(X.up[W.now[c]], Accepted(k)) =>
                   \/ Has(W.up[W.now[c]], Accepted(k))
                   \/ /\ W.call[c] = k /\ X.call[c] = k /\ W.state[c] = "RECEIVEDCALL"
                      /\ X.at[c] = "callAccept" /\ f[k] # c
         /\ X.call[c] = W.call[c] /\ X.call[c] # 0 /\ Consents(View(W, c)) =>
              Consents(View(X, c))
         /\ X.state[c] = "CALLING" /\ X.call[c] # 0 =>
              /\ W.call[c] = X.call[c]
              /\ \/ W.state[c] = "CALLING"
                 \/ W.state[c] = "RECEIVEDCALL" /\ f[X.call[c]] # c
                 \/ Has(W.down[W.now[c]], Accepted(X.call[c]))
<1>1. /\ MovesOn(View(W, c), View(X, c)) /\ KeepsConsent(View(W, c), View(X, c))
      /\ X.now = W.now
  BY DEF ClientMoves, OthersSame, Moves
<1>2. W.state[c] = "RECEIVEDCALL" => f[W.call[c]] # c
  BY ViewFields DEF ClientMoves, Agreed, ClientAgrees, Roles
<1>3. QED BY <1>1, <1>2, ViewFields DEF MovesOn, KeepsConsent

LEMMA OpenKept ==
  ASSUME NEW W, NEW X, NEW f, NEW h, NEW c \in Client, ClientMoves(W, X, c, f, h)
  PROVE  Open(X) /\ NotItself(X)
<1>1. /\ X.list = W.list /\ X.list \subseteq Session /\ X.sCall = W.sCall
      /\ X.partner = W.partner /\ X.calling = W.calling /\ X.now = W.now
      /\ Questions(W, f, h) /\ Open(W) /\ NotItself(W) /\ NotWithItself(W)
      /\ W.now[c] \in Session /\ \A d \in Client : W.now[d] \in Session /\ W.now[d][1] = d
  BY DEF ClientMoves, OthersSame, Agreed, Together, WorldType
<1>2. /\ \A s \in Session : s # W.now[c] => X.up[s] = W.up[s] /\ X.down[s] = W.down[s]
      /\ \A d \in Client : d # c => X.state[d] = W.state[d] /\ X.call[d] = W.call[d]
  BY DEF ClientMoves, OthersSame
<1>3. Open(X)
  BY <1>1, QuestionsBefore, DownBefore, <1>2, OwnMove DEF Open, Questions, NotBegun, Srv, Calls
<1>4. NotItself(X)
  BY <1>1, <1>2 DEF NotItself, NotWithItself
<1>5. QED BY <1>3, <1>4

LEMMA CalledBefore ==
  ASSUME NEW W, NEW X, NEW f, NEW h, NEW c \in Client, ClientMoves(W, X, c, f, h),
         NEW k \in Calls, NEW d \in Client
  PROVE  /\ X.call[d] = k => W.call[d] = k \/ Has(W.down[W.now[d]], From(k))
         /\ Called(X, f, k, d) => Called(W, f, k, d)
<1>1. /\ X.now = W.now /\ W.now[d] \in Session /\ k # 0
      /\ d # c => X.call[d] = W.call[d]
  BY DEF ClientMoves, OthersSame, WorldType, Calls
<1>2. QED BY <1>1, DownBefore, OwnMove DEF Called

LEMMA OneCalledKept ==
  ASSUME NEW W, NEW X, NEW f, NEW h, NEW c \in Client, ClientMoves(W, X, c, f, h)
  PROVE  OneCalled(X, f)
  BY CalledBefore DEF OneCalled, ClientMoves, Agreed, Together

LEMMA ConsentedKept ==
  ASSUME NEW W, NEW X, NEW f, NEW h, NEW c \in Client, ClientMoves(W, X, c, f, h)
  PROVE  Consented(X, f)
<1>1. /\ X.list = W.list /\ X.list \subseteq Session /\ X.now = W.now
      /\ Consented(W, f) /\ OneCalled(W, f) /\ f \in [Nat -> Client]
      /\ \A d \in Client : W.now[d] \in Session /\ W.now[d][1] = d
      /\ \A s \in Session : s # W.now[c] => X.up[s] = W.up[s]
      /\ \A d \in Client : d # c =>
           X.state[d] = W.state[d] /\ X.call[d] = W.call[d] /\ X.at[d] = W.at[d]
  BY DEF ClientMoves, OthersSame, Agreed, Together, WorldType
<1>2. SUFFICES ASSUME NEW k \in Calls, ConsentGoes(X, f, k), NEW d \in Client, d # f[k]
               PROVE  Agrees(X, d, k)
  BY DEF Consented
<1>3. k # 0 /\ f[k] \in Client
  BY <1>1 DEF Calls
<1>4. ASSUME ConsentGoes(W, f, k)  PROVE Agrees(X, d, k)
  BY <1>1, <1>2, <1>4, DownBefore, CalledBefore, <1>3, OwnMove, ViewFields DEF Consented, Agrees,
     Consents
<1>5. ASSUME ~ ConsentGoes(W, f, k)  PROVE Agrees(X, d, k)
  <2>1. /\ \A t \in W.list : ~ Has(W.up[t], Accepted(k))
        /\ \A e \in Client : ~ Has(W.down[W.now[e]], Accepted(k))
        /\ ~ (W.state[f[k]] = "CALLING" /\ W.call[f[k]] = k)
    BY <1>5 DEF ConsentGoes
  <2>2. \A e \in Client : ~ Has(X.down[X.now[e]], Accepted(k))
    BY <1>1, <2>1, DownBefore
  <2>3. ~ (X.state[f[k]] = "CALLING" /\ X.call[f[k]] = k)
    BY <1>1, <1>3, <2>1, OwnMove
  <2>4. PICK t \in W.list : Has(X.up[t], Accepted(k))
    BY <1>1, <1>2, <2>2, <2>3 DEF ConsentGoes
  <2>5. t = W.now[c] /\ Has(X.up[W.now[c]], Accepted(k)) /\ ~ Has(W.up[W.now[c]], Accepted(k))
    BY <1>1, <2>1, <2>4
  <2>6. W.call[c] = k /\ X.call[c] = k /\ X.at[c] = "callAccept" /\ f[k] # c
    BY <2>5, OwnMove
  <2>7. CASE d = c
    BY <2>6, <2>7, ViewFields, <1>1, DownBefore DEF Consents, ClientMoves, Agreed, ClientAgrees,
       CalledOnce, Calls, Agrees
  <2>8. CASE d # c
    BY <2>6, <1>1, <2>8, CalledBefore, <1>2 DEF Called, OneCalled, Agrees
  <2>9. QED BY <2>7, <2>8
<1>6. QED BY <1>4, <1>5

LEMMA HeardKept ==
  ASSUME NEW W, NEW X, NEW f, NEW h, NEW c \in Client, ClientMoves(W, X, c, f, h)
  PROVE  Heard(X, f)
<1>1. /\ X.list = W.list /\ X.now = W.now /\ X.partner = W.partner
      /\ X.calling = W.calling /\ X.sCall = W.sCall
      /\ Heard(W, f) /\ OneCalled(W, f) /\ NotWithItself(W)
      /\ \A d \in Client : W.now[d] \in Session /\ W.now[d][1] = d
      /\ \A s \in Session : s # W.now[c] => X.up[s] = W.up[s] /\ X.down[s] = W.down[s]
      /\ \A d \in Client : d # c =>
           /\ X.state[d] = W.state[d] /\ X.call[d] = W.call[d] /\ X.at[d] = W.at[d]
           /\ X.off[d] = W.off[d] /\ X.live[d] = W.live[d]
      /\ X.live[c] => W.live[c]
  BY DEF ClientMoves, OthersSame, Agreed, Together, WorldType
<1>2. SUFFICES ASSUME NEW k \in Calls, NEW b \in Client, NEW d \in Client,
                      Mutually(X, f, k, b, d), Consents(View(X, d))
               PROVE  HearsConsent(X, k, b, d)
  BY DEF Heard
<1>3. /\ X.live[b] /\ X.live[d] /\ X.call[b] = k /\ X.call[d] = k /\ f[k] # d /\ k # 0
      /\ Srv(W, W.now[d]) = k /\ W.partner[W.now[d]] = W.now[b]
      /\ W.live[b] /\ W.live[d] /\ b # d /\ W.now[b] # W.now[d]
  BY <1>1, <1>2 DEF Mutually, Srv, NotWithItself, Calls
<1>4. /\ \A e \in Client : Has(W.down[W.now[e]], From(k)) => W.call[e] # k /\ f[k] # e
      /\ W.state[d] = "WAITCALL" => W.call[d] # k
  BY <1>3, ViewFields DEF ClientMoves, Agreed, ClientAgrees, CalledOnce, Roles, Calls
<1>5. W.call[b] = k
  BY <1>3, <1>4, CalledBefore, <1>1 DEF Called, OneCalled
<1>6. ConsentIsHeard(View(W, c), View(X, c))
  BY DEF ClientMoves, Moves
<1>7. CASE d = c
  BY <1>1, <1>3, <1>7, <1>4, <1>2, <1>6, ViewFields DEF HearsConsent, Mutually, Heard,
     ConsentIsHeard
<1>8. CASE d # c
  BY <1>1, <1>3, <1>8, ViewFields, <1>5, <1>2, <1>6 DEF Mutually, Consents, Heard, ConsentIsHeard,
     HearsConsent, LogsIn
<1>9. QED BY <1>7, <1>8

\* Together.
LEMMA ClientMovesAgreed ==
  ASSUME NEW W, NEW X, NEW f, NEW h, NEW c \in Client, ClientMoves(W, X, c, f, h),
         ClientAgrees(View(X, c), c, f)
  PROVE  Agreed(X, f, h)
<1>1. ASSUME NEW d \in Client, d # c  PROVE View(X, d) = View(W, d)
  <2>1. /\ X.now = W.now /\ X.calling = W.calling /\ X.sCall = W.sCall
        /\ W.now[d] \in Session /\ W.now[d] # W.now[c]
        /\ X.up[W.now[d]] = W.up[W.now[d]] /\ X.down[W.now[d]] = W.down[W.now[d]]
        /\ X.live[d] = W.live[d] /\ X.state[d] = W.state[d] /\ X.call[d] = W.call[d]
        /\ X.at[d] = W.at[d] /\ X.off[d] = W.off[d] /\ X.keys[d] = W.keys[d]
    <3>1. W.now[d] \in Session /\ W.now[d][1] = d /\ W.now[c][1] = c
      BY DEF ClientMoves, WorldType
    <3>2. QED BY <1>1, <3>1 DEF ClientMoves, OthersSame
  <2>2. QED BY <2>1 DEF View, Srv
<1>2. \A d \in Client : ClientAgrees(View(X, d), d, f)
  BY <1>1 DEF ClientMoves, Agreed
<1>3. Together(X, f, h)
  BY MatesKept, FoundKept, QuestionsKept, OpenKept, OneCalledKept, ConsentedKept, HeardKept
     DEF Together
<1>4. QED BY <1>2, <1>3 DEF Agreed

(***************************************************************************)
(* A step of the server leaves the clients as they are.                    *)
(***************************************************************************)
LEMMA AnswersMates ==
  ASSUME NEW W, NEW X, NEW f, NEW h, NEW s, ServerAnswers(W, X, s, f, h)
  PROVE  Mates(X)
<1>1. /\ X.list = W.list /\ X.calling = W.calling /\ W.list \subseteq Session /\ Mates(W)
      /\ \A t \in W.list : t \in W.calling =>
           X.partner[t] = W.partner[t] /\ X.sCall[t] = W.sCall[t]
  BY DEF ServerAnswers, Answers, WorldType, Together
<1>2. QED BY <1>1 DEF Mates

LEMMA AnswersFound ==
  ASSUME NEW W, NEW X, NEW f, NEW h, NEW s, ServerAnswers(W, X, s, f, h)
  PROVE  Found(X)
<1>1. /\ X.list = W.list /\ W.list \subseteq Session /\ Found(W) /\ s \in W.list
      /\ \A t \in Session : t # s =>
           /\ X.up[t] = W.up[t] /\ X.down[t] = W.down[t]
           /\ X.partner[t] = W.partner[t] /\ X.sCall[t] = W.sCall[t]
           /\ t \in W.ended => t \in X.ended
      /\ W.partner \in [Session -> Session \cup {None}]
  BY DEF ServerAnswers, Answers, WorldType, Together
<1>2. SUFFICES ASSUME NEW t \in W.list, NEW k \in Calls, Pends(X, t, k), X.sCall[t] = k,
                      X.partner[t] # None
               PROVE  \/ X.partner[t] \in W.list
                      \/ X.partner[t] \in X.ended /\ X.partner[X.partner[t]] = None
  BY <1>1 DEF Found
<1>3. \/ X.partner[t] \in W.list
      \/ Pends(W, t, k) /\ W.sCall[t] = k /\ X.partner[t] = W.partner[t]
  BY <1>2, <1>1 DEF ServerAnswers, AnswersKept, Pends
<1>4. CASE Pends(W, t, k) /\ W.sCall[t] = k /\ X.partner[t] = W.partner[t]
  BY <1>1, <1>2, <1>4 DEF Found
<1>5. QED BY <1>3, <1>4

LEMMA AnswersBefore ==
  ASSUME NEW W, NEW X, NEW f, NEW h, NEW s, ServerAnswers(W, X, s, f, h)
  PROVE  \A t \in Session : \A k \in Calls :
           /\ Asks(X, t, k) => Asks(W, t, k)
           /\ OneQuestion(W, t, k) => OneQuestion(X, t, k)
           /\ X.sCall[t] = k => W.sCall[t] = k \/ (t = s /\ Asks(W, t, k))
           /\ Has(X.down[t], From(k)) => Has(W.down[t], From(k))
           /\ Has(X.down[t], Off(k)) => Has(W.down[t], Off(k))
           /\ Has(X.down[t], Accepted(k)) <=> Has(W.down[t], Accepted(k))
           /\ Has(X.up[t], Off(k)) => Has(W.up[t], Off(k))
           /\ Has(X.up[t], Accepted(k)) => Has(W.up[t], Accepted(k))
           /\ Has(W.up[t], Accepted(k)) /\ t \in W.calling => Has(X.up[t], Accepted(k))
           /\ Srv(X, t) = Srv(W, t)
<1>1. SUFFICES ASSUME NEW t \in Session, NEW k \in Calls
               PROVE  /\ Asks(X, t, k) => Asks(W, t, k)
                      /\ OneQuestion(W, t, k) => OneQuestion(X, t, k)
                      /\ X.sCall[t] = k => W.sCall[t] = k \/ (t = s /\ Asks(W, t, k))
                      /\ Has(X.down[t], From(k)) => Has(W.down[t], From(k))
                      /\ Has(X.down[t], Off(k)) => Has(W.down[t], Off(k))
                      /\ Has(X.down[t], Accepted(k)) <=> Has(W.down[t], Accepted(k))
                      /\ Has(X.up[t], Off(k)) => Has(W.up[t], Off(k))
                      /\ Has(X.up[t], Accepted(k)) => Has(W.up[t], Accepted(k))
                      /\ Has(W.up[t], Accepted(k)) /\ t \in W.calling =>
                           Has(X.up[t], Accepted(k))
                      /\ Srv(X, t) = Srv(W, t)
  OBVIOUS
<1>2. CASE t = s
  BY <1>2 DEF ServerAnswers, Answers, AnswersKept, HearsAsBefore, Srv
<1>3. CASE t # s
  BY <1>3 DEF ServerAnswers, Answers, Asks, OneQuestion, Srv
<1>4. QED BY <1>2, <1>3

LEMMA AnswersQuestions ==
  ASSUME NEW W, NEW X, NEW f, NEW h, NEW s, ServerAnswers(W, X, s, f, h)
  PROVE  Questions(X, f, h) /\ Held(X)
<1>1. /\ X.list = W.list /\ W.list \subseteq Session /\ Questions(W, f, h) /\ Held(W)
  BY DEF ServerAnswers, Answers, WorldType, Together
<1>2. Questions(X, f, h)
  BY <1>1, AnswersBefore DEF Questions
<1>3. Held(X)
  BY <1>1, AnswersBefore DEF Held, Questions
<1>4. QED BY <1>2, <1>3

LEMMA AnswersOpen ==
  ASSUME NEW W, NEW X, NEW f, NEW h, NEW s, ServerAnswers(W, X, s, f, h)
  PROVE  Open(X) /\ NotItself(X)
<1>1. /\ X.list = W.list /\ W.list \subseteq Session /\ Open(W) /\ NotItself(W)
      /\ X.now = W.now /\ X.state = W.state /\ X.call = W.call
      /\ \A d \in Client : W.now[d] \in Session
      /\ \A t \in Session : t # s => X.up[t] = W.up[t] /\ X.partner[t] = W.partner[t]
                                     /\ X.sCall[t] = W.sCall[t]
  BY DEF ServerAnswers, Answers, ClientsSame, WorldType, Together
<1>2. Open(X)
  BY <1>1, AnswersBefore DEF Open, NotBegun
<1>3. NotItself(X)
  BY <1>1, SessionClient, NoneAssumption DEF NotItself, ServerAnswers, AnswersKept
<1>4. QED BY <1>2, <1>3

LEMMA AnswersParties ==
  ASSUME NEW W, NEW X, NEW f, NEW h, NEW s, ServerAnswers(W, X, s, f, h)
  PROVE  OneCalled(X, f) /\ Consented(X, f) /\ Heard(X, f)
<1>1. /\ X.list = W.list /\ W.list \subseteq Session /\ s \in W.list
      /\ OneCalled(W, f) /\ Consented(W, f) /\ Heard(W, f)
      /\ X.now = W.now /\ X.state = W.state /\ X.call = W.call /\ X.at = W.at
      /\ X.off = W.off /\ X.live = W.live
      /\ \A d \in Client : W.now[d] \in Session
      /\ \A t \in Session : t # s => /\ X.up[t] = W.up[t] /\ X.down[t] = W.down[t]
                                     /\ X.partner[t] = W.partner[t]
      /\ s \in W.calling => X.partner[s] = W.partner[s]
  BY DEF ServerAnswers, Answers, ClientsSame, WorldType, Together
<1>2. OneCalled(X, f)
  BY <1>1, AnswersBefore DEF Called, OneCalled
<1>3. ASSUME NEW d  PROVE Consents(View(X, d)) <=> Consents(View(W, d))
  <2>1. X.state[d] = W.state[d] /\ X.at[d] = W.at[d]
    BY <1>1
  <2>2. /\ View(X, d).state = X.state[d] /\ View(W, d).state = W.state[d]
        /\ View(X, d).at = X.at[d] /\ View(W, d).at = W.at[d]
    BY DEF View
  <2>3. QED BY ONLY <2>1, <2>2 DEF Consents
<1>4. Consented(X, f)
  BY <1>1, AnswersBefore, <1>3 DEF ConsentGoes, Agrees, Consented
<1>5. Heard(X, f)
  <2>1. SUFFICES ASSUME NEW k \in Calls, NEW b \in Client, NEW d \in Client,
                        Mutually(X, f, k, b, d), Consents(View(X, d))
                 PROVE  HearsConsent(X, k, b, d)
    BY DEF Heard
  <2>2. Srv(W, W.now[d]) = k /\ W.now[d] \in W.calling
    BY <1>1, <2>1, AnswersBefore DEF Mutually, Srv, Calls
  <2>3. Mutually(W, f, k, b, d)
    BY <1>1, <2>1, <2>2 DEF Mutually
  <2>4. HearsConsent(W, k, b, d)
    BY <1>1, <1>3, <2>1, <2>3 DEF Heard
  <2>5. LogsIn(View(W, d)) => LogsIn(View(X, d))
    BY <1>1, ViewFields DEF ServerAnswers, HearsAsBefore, LogsIn
  <2>6. QED BY <1>1, <2>2, <2>4, <2>5, AnswersBefore DEF HearsConsent
<1>6. QED BY <1>2, <1>4, <1>5

\* Together.
LEMMA ServerAnswersTogether ==
  ASSUME NEW W, NEW X, NEW f, NEW h, NEW s, ServerAnswers(W, X, s, f, h)
  PROVE  Together(X, f, h)
  BY AnswersMates, AnswersFound, AnswersQuestions, AnswersOpen, AnswersParties DEF Together

(***************************************************************************)
(* The server forwards what the other party is to hear: t is the partner.  *)
(***************************************************************************)
LEMMA ForwardsQueues ==
  ASSUME NEW W, NEW X, NEW f, NEW h, NEW s, NEW m, NEW n, ServerForwards(W, X, s, m, n, f, h)
  PROVE  \A u \in Session : \A k \in Calls :
           /\ Asks(X, u, k) <=> Asks(W, u, k)
           /\ Pends(X, u, k) <=> Pends(W, u, k)
           /\ Has(X.up[u], Asked(k)) <=> Has(W.up[u], Asked(k))
           /\ OneQuestion(W, u, k) => OneQuestion(X, u, k)
           /\ Has(X.down[u], From(k)) <=> Has(W.down[u], From(k))
           /\ Has(X.down[u], Off(k)) <=> Has(W.down[u], Off(k))
           /\ Has(X.down[u], Accepted(k)) <=>
                Has(W.down[u], Accepted(k)) \/ (u = W.partner[s] /\ k = m.call)
           /\ Has(X.up[u], Off(k)) <=> Has(W.up[u], Off(k))
           /\ Has(W.up[u], Accepted(k)) <=>
                Has(X.up[u], Accepted(k)) \/ (u = s /\ k = m.call)
           /\ Has(X.up[u], Login) <=> Has(W.up[u], Login)
           /\ Has(X.down[u], Login) <=> Has(W.down[u], Login)
<1>1. /\ m \in Sent /\ n \in Sent /\ m \notin Login /\ n \notin Login
      /\ \A k : /\ m \notin Token(k) /\ m \notin Asked(k) /\ m \notin Off(k)
                /\ n \notin Token(k) /\ n \notin Answered(k) /\ n \notin From(k)
                /\ n \notin Off(k)
                /\ (m \in Accepted(k) <=> k = m.call) /\ (n \in Accepted(k) <=> k = m.call)
  BY Kinds DEF ServerForwards, Forwards, Shrinks, TokenOps, Errors
<1>2. \A u \in Session :
        /\ \A M : Has(W.up[u], M) <=> (u = s /\ m \in M) \/ Has(X.up[u], M)
        /\ \A M : Once(W.up[u], M) => Once(X.up[u], M)
  BY DEF ServerForwards, Forwards, Shrinks, OthersQueues
<1>3. \A u \in Session :
        /\ \A M : Has(X.down[u], M) <=> Has(W.down[u], M) \/ (u = W.partner[s] /\ n \in M)
        /\ \A M : Once(W.down[u], M) /\ n \notin M => Once(X.down[u], M)
  BY DEF ServerForwards, Forwards, Grows, OthersQueues
<1>4. QED BY ONLY <1>1, <1>2, <1>3 DEF Asks, Pends, OneQuestion

LEMMA ForwardsTogether ==
  ASSUME NEW W, NEW X, NEW f, NEW h, NEW s, NEW m, NEW n, ServerForwards(W, X, s, m, n, f, h)
  PROVE  Together(X, f, h)
<1>1. /\ X.list = W.list /\ W.list \subseteq Session /\ s \in W.list /\ s \in W.calling
      /\ X.calling = W.calling /\ X.ended = W.ended /\ X.partner = W.partner
      /\ X.sCall = W.sCall /\ X.live = W.live
      /\ X.now = W.now /\ X.state = W.state /\ X.call = W.call /\ X.at = W.at
      /\ X.off = W.off /\ m.call = W.sCall[s]
      /\ \A d \in Client : W.now[d] \in Session
  BY DEF ServerForwards, Forwards, ClientsSame, WorldType
<1>2. /\ Mates(W) /\ Found(W) /\ Questions(W, f, h) /\ Held(W) /\ Open(W) /\ NotItself(W)
      /\ OneCalled(W, f) /\ Consented(W, f) /\ Heard(W, f)
  BY DEF ServerForwards, Together
<1>3. Mates(X)
  BY <1>1, <1>2 DEF Mates
<1>4. Found(X)
  BY <1>1, <1>2, ForwardsQueues DEF Found
<1>5. Questions(X, f, h)
  BY <1>1, <1>2, ForwardsQueues DEF Questions
<1>6. Held(X)
  BY <1>1, <1>2, ForwardsQueues DEF Held
<1>7. Open(X)
  BY <1>1, ForwardsQueues, <1>2 DEF Open, NotBegun, Srv
<1>8. NotItself(X)
  BY <1>1, <1>2, ForwardsQueues DEF NotItself
<1>9. OneCalled(X, f)
  BY <1>1, <1>2, ForwardsQueues DEF OneCalled, Called
<1>10. ASSUME NEW d \in Client
       PROVE  /\ Consents(View(X, d)) <=> Consents(View(W, d))
              /\ LogsIn(View(X, d)) <=> LogsIn(View(W, d))
  <2>1. X.state[d] = W.state[d] /\ X.at[d] = W.at[d]
    BY <1>1
  <2>2. /\ Has(X.up[X.now[d]], Login) <=> Has(W.up[W.now[d]], Login)
        /\ Has(X.down[X.now[d]], Login) <=> Has(W.down[W.now[d]], Login)
    BY <1>1, ForwardsQueues DEF Calls
  <2>3. /\ View(X, d).state = X.state[d] /\ View(W, d).state = W.state[d]
        /\ View(X, d).at = X.at[d] /\ View(W, d).at = W.at[d]
        /\ View(X, d).up = X.up[X.now[d]] /\ View(W, d).up = W.up[W.now[d]]
        /\ View(X, d).down = X.down[X.now[d]] /\ View(W, d).down = W.down[W.now[d]]
    BY DEF View
  <2>4. QED BY ONLY <2>1, <2>2, <2>3 DEF Consents, LogsIn
<1>11. Consented(X, f)
  BY <1>1, ForwardsQueues, <1>10, <1>2 DEF ConsentGoes, Agrees, Consented
<1>12. Heard(X, f)
  BY <1>1, <1>2, <1>10, ForwardsQueues DEF Heard, Mutually, Srv, HearsConsent
<1>13. QED BY <1>3, <1>4, <1>5, <1>6, <1>7, <1>8, <1>9, <1>11, <1>12 DEF Together

(***************************************************************************)
(* The server connects s with its partner.                                 *)
(***************************************************************************)
LEMMA ConnectsQueues ==
  ASSUME NEW W, NEW X, NEW f, NEW h, NEW s, NEW t, NEW m, NEW n,
         ServerConnects(W, X, s, t, m, n, f, h)
  PROVE  \A u \in Session : \A k \in Calls :
           /\ Asks(X, u, k) => Asks(W, u, k)
           /\ Pends(X, u, k) => Pends(W, u, k)
           /\ Has(X.up[u], Asked(k)) => Has(W.up[u], Asked(k))
           /\ OneQuestion(W, u, k) => OneQuestion(X, u, k)
           /\ Has(X.down[u], From(k)) <=> Has(W.down[u], From(k)) \/ (u = t /\ k = m.call)
           /\ Has(X.down[u], Off(k)) <=> Has(W.down[u], Off(k))
           /\ Has(X.down[u], Accepted(k)) <=> Has(W.down[u], Accepted(k))
           /\ Has(X.up[u], Off(k)) <=> Has(W.up[u], Off(k))
           /\ Has(W.up[u], Accepted(k)) <=> Has(X.up[u], Accepted(k))
           /\ Has(X.up[u], Login) <=> Has(W.up[u], Login)
           /\ Has(X.down[u], Login) <=> Has(W.down[u], Login)
<1>1. /\ m \in Sent /\ n \in Sent /\ m \notin Login /\ n \notin Login
      /\ \A k : /\ m \notin Off(k) /\ m \notin Accepted(k)
                /\ n \notin Token(k) /\ n \notin Answered(k) /\ (n \in From(k) <=> k = m.call)
                /\ n \notin Off(k) /\ n \notin Accepted(k)
  BY Kinds DEF ServerConnects, Connects, Shrinks, TokenOps, Errors
<1>2. \A u \in Session :
        /\ \A M : Has(W.up[u], M) <=> (u = s /\ m \in M) \/ Has(X.up[u], M)
        /\ \A M : Once(W.up[u], M) => Once(X.up[u], M)
  BY DEF ServerConnects, Connects, Shrinks, OthersQueues
<1>3. \A u \in Session :
        /\ \A M : Has(X.down[u], M) <=> Has(W.down[u], M) \/ (u = t /\ n \in M)
        /\ \A M : Once(W.down[u], M) /\ n \notin M => Once(X.down[u], M)
  BY DEF ServerConnects, Connects, Grows, OthersQueues
<1>4. QED BY ONLY <1>1, <1>2, <1>3 DEF Asks, Pends, OneQuestion

LEMMA ConnectsCall ==
  ASSUME NEW W, NEW X, NEW f, NEW h, NEW s, NEW t, NEW m, NEW n,
         ServerConnects(W, X, s, t, m, n, f, h)
  PROVE  /\ m.call \in Calls /\ Asks(W, s, m.call) /\ Pends(W, s, m.call)
         /\ Has(W.up[s], Asked(m.call)) /\ t \in W.list
         /\ f[m.call] = s[1] /\ h[m.call] = s /\ NotBegun(W, s, m.call)
         /\ \A u \in W.list : ~ Asks(X, u, m.call)
         /\ \A u \in W.list : W.sCall[u] = m.call => u = s
         /\ t # W.now[s[1]]
<1>1. /\ m \in Sent /\ m.call \in Calls /\ m \in Asked(m.call) /\ m \in Token(m.call)
      /\ n \notin Token(m.call)
  BY Kinds, SentFields DEF ServerConnects, Connects, Shrinks, TokenOps, Errors, Calls
<1>2. /\ s \in W.list /\ s \in Session /\ W.partner[s] = t /\ t \in Session
      /\ t \notin W.ended /\ W.sCall[s] = m.call /\ W.list \subseteq Session /\ None \notin Session
      /\ Found(W) /\ Questions(W, f, h) /\ Held(W) /\ Open(W) /\ NotItself(W)
      /\ Shrinks(W.up[s], X.up[s], m) /\ t # s /\ X.down[s] = W.down[s]
  BY NoneAssumption DEF ServerConnects, Connects, OthersQueues, WorldType, Together
<1>3. Has(W.up[s], Asked(m.call)) /\ Has(W.up[s], Token(m.call))
  BY <1>1, <1>2 DEF Shrinks
<1>4. Asks(W, s, m.call) /\ Pends(W, s, m.call)
  BY <1>3 DEF Asks, Pends
<1>5. t \in W.list
  BY <1>1, <1>2, <1>4 DEF Found
<1>6. OneQuestion(W, s, m.call) /\ f[m.call] = s[1] /\ h[m.call] = s /\ NotBegun(W, s, m.call)
  BY <1>1, <1>2, <1>4 DEF Questions, Open
<1>7. ~ Asks(X, s, m.call)
  BY <1>1, <1>2, <1>3, <1>6 DEF OneQuestion, Asks, Shrinks
<1>8. \A u \in W.list : ~ Asks(X, u, m.call)
  BY <1>1, <1>2, <1>6, <1>7, ConnectsQueues DEF Questions
<1>9. \A u \in W.list : W.sCall[u] = m.call => u = s
  BY <1>1, <1>2, <1>4 DEF Held
<1>10. t # W.now[s[1]]
  BY <1>1, <1>2, <1>3 DEF NotItself
<1>11. QED BY <1>1, <1>3, <1>4, <1>5, <1>6, <1>8, <1>9, <1>10

LEMMA ConnectsTogether ==
  ASSUME NEW W, NEW X, NEW f, NEW h, NEW s, NEW t, NEW m, NEW n,
         ServerConnects(W, X, s, t, m, n, f, h)
  PROVE  Together(X, f, h)
<1>1. /\ X.list = W.list /\ W.list \subseteq Session /\ s \in W.list /\ s \notin W.calling
      /\ X.calling = W.calling \cup {s, t} /\ W.ended \subseteq X.ended /\ t \notin W.calling
      /\ t \in Session /\ t # s /\ t \notin W.ended
      /\ \A u \in Session : u # t => X.partner[u] = W.partner[u] /\ X.sCall[u] = W.sCall[u]
      /\ X.partner[t] = s /\ X.sCall[t] = m.call /\ W.sCall[s] = m.call /\ W.partner[s] = t
      /\ X.live = W.live /\ X.now = W.now /\ X.state = W.state /\ X.call = W.call
      /\ X.at = W.at /\ X.off = W.off
      /\ \A d \in Client : W.now[d] \in Session /\ W.now[d][1] = d
      /\ W.partner \in [Session -> Session \cup {None}]
  BY DEF ServerConnects, Connects, ClientsSame, WorldType
<1>2. /\ Mates(W) /\ Found(W) /\ Questions(W, f, h) /\ Held(W) /\ Open(W) /\ NotItself(W)
      /\ OneCalled(W, f) /\ Consented(W, f) /\ Heard(W, f)
  BY DEF ServerConnects, Together
<1>3. PICK j \in Calls : j = m.call
  BY ConnectsCall
<1>4. /\ t \in W.list /\ f[j] = s[1] /\ NotBegun(W, s, j) /\ j # 0
      /\ \A u \in W.list : ~ Asks(X, u, j)
      /\ \A u \in W.list : W.sCall[u] = j => u = s
      /\ t # W.now[s[1]]
  BY <1>3, ConnectsCall DEF Calls
<1>5. Mates(X)
  BY <1>1, <1>3, <1>4, <1>2 DEF Mates
<1>6. Found(X)
  BY <1>1, <1>2, ConnectsQueues DEF Found
<1>7. Questions(X, f, h)
  BY <1>1, <1>2, ConnectsQueues DEF Questions
<1>8. Held(X)
  BY <1>1, <1>2, <1>3, <1>4, ConnectsQueues DEF Held
<1>9. Open(X)
  BY <1>1, <1>2, <1>4, ConnectsQueues, <1>3 DEF Open, NotBegun, Srv, Calls
<1>10. NotItself(X)
  BY <1>1, AskedNone, <1>3, <1>4, <1>2, ConnectsQueues DEF NotItself, Asks
<1>11. \A d \in Client : \A k \in Calls :
         Called(X, f, k, d) => Called(W, f, k, d) \/ (k = j /\ W.now[d] = t)
  BY <1>1, <1>3, ConnectsQueues DEF Called
<1>12. \A d \in Client : ~ Called(W, f, j, d)
  BY <1>1, <1>4 DEF Called, NotBegun
<1>13. OneCalled(X, f)
  BY <1>1, <1>2, <1>11, <1>12 DEF OneCalled
<1>14. ASSUME NEW d \in Client
       PROVE  /\ Consents(View(X, d)) <=> Consents(View(W, d))
              /\ LogsIn(View(X, d)) <=> LogsIn(View(W, d))
  <2>1. X.state[d] = W.state[d] /\ X.at[d] = W.at[d]
    BY <1>1
  <2>2. /\ Has(X.up[X.now[d]], Login) <=> Has(W.up[W.now[d]], Login)
        /\ Has(X.down[X.now[d]], Login) <=> Has(W.down[W.now[d]], Login)
    BY <1>1, <1>3, ConnectsQueues
  <2>3. /\ View(X, d).state = X.state[d] /\ View(W, d).state = W.state[d]
        /\ View(X, d).at = X.at[d] /\ View(W, d).at = W.at[d]
        /\ View(X, d).up = X.up[X.now[d]] /\ View(W, d).up = W.up[W.now[d]]
        /\ View(X, d).down = X.down[X.now[d]] /\ View(W, d).down = W.down[W.now[d]]
    BY DEF View
  <2>4. QED BY ONLY <2>1, <2>2, <2>3 DEF Consents, LogsIn
<1>15. Consented(X, f)
  BY <1>1, ConnectsQueues, <1>3, <1>4, <1>2, <1>14 DEF Consented, ConsentGoes, ServerConnects,
     Calls, NotBegun, Agrees
<1>16. Heard(X, f)
  BY <1>1, <1>3, <1>4, <1>2, <1>14, ConnectsQueues DEF Heard, Mutually, Srv, NotBegun,
     HearsConsent
<1>17. QED BY <1>5, <1>6, <1>7, <1>8, <1>9, <1>10, <1>13, <1>15, <1>16 DEF Together

(***************************************************************************)
(* A session s leaves its call, or is closed, and its partner is told.     *)
(***************************************************************************)
LEMMA LeavesQueues ==
  ASSUME NEW W, NEW X, NEW f, NEW h, NEW s, NEW n, ServerLeaves(W, X, s, n, f, h)
  PROVE  \A u \in Session : \A k \in Calls :
           /\ Asks(X, u, k) => Asks(W, u, k)
           /\ Pends(X, u, k) => Pends(W, u, k)
           /\ Has(X.up[u], Asked(k)) => Has(W.up[u], Asked(k))
           /\ OneQuestion(W, u, k) => OneQuestion(X, u, k)
           /\ Has(X.down[u], From(k)) => Has(W.down[u], From(k))
           /\ Has(X.down[u], Off(k)) =>
                Has(W.down[u], Off(k)) \/ (u = W.partner[s] /\ k = W.sCall[s])
           /\ Has(X.down[u], Accepted(k)) => Has(W.down[u], Accepted(k))
           /\ Has(X.up[u], Off(k)) => Has(W.up[u], Off(k))
           /\ Has(X.up[u], Accepted(k)) => Has(W.up[u], Accepted(k))
<1>1. ASSUME NEW u \in Session
      PROVE  /\ \A M : Has(X.up[u], M) => Has(W.up[u], M)
             /\ \A M : Once(W.up[u], M) => Once(X.up[u], M)
  BY NoneAssumption DEF ServerLeaves, Leaves, Within
<1>2. ASSUME NEW u \in Session, u # W.partner[s]
      PROVE  /\ \A M : Has(X.down[u], M) => Has(W.down[u], M)
             /\ \A M : Once(W.down[u], M) => Once(X.down[u], M)
  BY <1>2 DEF ServerLeaves, Leaves, Within
<1>3. ASSUME NEW u \in Session, u = W.partner[s]
      PROVE  /\ n \in Sent /\ n.op = "CALL_OFF" /\ n.call = W.sCall[s]
             /\ \A M : Has(X.down[u], M) <=> Has(W.down[u], M) \/ n \in M
             /\ \A M : Once(W.down[u], M) /\ n \notin M => Once(X.down[u], M)
  BY <1>3, NoneAssumption DEF ServerLeaves, Leaves, Grows
<1>4. ASSUME n \in Sent, n.op = "CALL_OFF", n.call = W.sCall[s]
      PROVE  \A k : /\ n \notin Token(k) /\ n \notin Answered(k) /\ n \notin From(k)
                    /\ n \notin Accepted(k) /\ (n \in Off(k) <=> k = W.sCall[s])
  BY <1>4, Kinds DEF TokenOps, Errors
<1>5. SUFFICES ASSUME NEW u \in Session, NEW k \in Calls
               PROVE  /\ Asks(X, u, k) => Asks(W, u, k)
                      /\ Pends(X, u, k) => Pends(W, u, k)
                      /\ Has(X.up[u], Asked(k)) => Has(W.up[u], Asked(k))
                      /\ OneQuestion(W, u, k) => OneQuestion(X, u, k)
                      /\ Has(X.down[u], From(k)) => Has(W.down[u], From(k))
                      /\ Has(X.down[u], Off(k)) =>
                           Has(W.down[u], Off(k)) \/ (u = W.partner[s] /\ k = W.sCall[s])
                      /\ Has(X.down[u], Accepted(k)) => Has(W.down[u], Accepted(k))
                      /\ Has(X.up[u], Off(k)) => Has(W.up[u], Off(k))
                      /\ Has(X.up[u], Accepted(k)) => Has(W.up[u], Accepted(k))
  OBVIOUS
<1>6. CASE u = W.partner[s]
  <2>1. /\ \A M : Has(X.down[u], M) <=> Has(W.down[u], M) \/ n \in M
        /\ \A M : Once(W.down[u], M) /\ n \notin M => Once(X.down[u], M)
        /\ n \notin Token(k) /\ n \notin Answered(k) /\ n \notin From(k)
        /\ n \notin Accepted(k) /\ (n \in Off(k) <=> k = W.sCall[s])
    BY <1>3, <1>4, <1>6
  <2>2. QED BY ONLY <1>1, <1>6, <2>1, u \in Session DEF Asks, Pends, OneQuestion
<1>7. CASE u # W.partner[s]
  BY ONLY <1>1, <1>2, <1>7, u \in Session DEF Asks, Pends, OneQuestion
<1>8. QED BY <1>6, <1>7

LEMMA LeavesTogether ==
  ASSUME NEW W, NEW X, NEW f, NEW h, NEW s, NEW n, ServerLeaves(W, X, s, n, f, h)
  PROVE  Together(X, f, h)
<1>1. /\ X.list \subseteq W.list /\ W.list \subseteq Session /\ s \in W.list /\ s \in Session
      /\ X.now = W.now /\ X.state = W.state /\ X.call = W.call
      /\ X.at = W.at /\ X.off = W.off
      /\ \A c \in Client : X.live[c] => W.live[c] /\ X.now[c] \in X.list
      /\ \A d \in Client : W.now[d] \in Session /\ W.now[d][1] = d
      /\ W.partner \in [Session -> Session \cup {None}] /\ None \notin Session
      /\ f \in [Nat -> Client]
  BY NoneAssumption DEF ServerLeaves, Leaves, ClientsSame, WorldType
<1>2. /\ \A u \in W.list : u # s => u \in X.list
      /\ s \in X.list => s \in W.calling
      /\ s \notin X.list => s \in X.ended
      /\ \A u \in Session : u \notin {s, W.partner[s]} =>
           /\ u \in X.calling <=> u \in W.calling
           /\ u \in W.ended => u \in X.ended
           /\ X.partner[u] = W.partner[u] /\ X.sCall[u] = W.sCall[u]
           /\ X.up[u] = W.up[u] /\ X.down[u] = W.down[u]
      /\ s \notin X.calling /\ X.partner[s] = None /\ X.sCall[s] = 0
      /\ W.partner[s] # None =>
           /\ W.partner[W.partner[s]] = s
           /\ W.partner[s] \notin X.calling /\ X.partner[W.partner[s]] = None
           /\ X.sCall[W.partner[s]] = 0
  BY DEF ServerLeaves, Leaves
<1>3. /\ Mates(W) /\ Found(W) /\ Questions(W, f, h) /\ Held(W) /\ Open(W) /\ NotItself(W)
      /\ OneCalled(W, f) /\ Consented(W, f) /\ Heard(W, f)
  BY DEF ServerLeaves, Together
<1>4. \A u \in Session : X.sCall[u] # 0 =>
        u \notin {s, W.partner[s]} /\ X.sCall[u] = W.sCall[u] /\ X.partner[u] = W.partner[u]
  BY <1>1, <1>2
<1>5. Mates(X)
  BY <1>1, <1>2, <1>3 DEF Mates
<1>6. Found(X)
  BY <1>1, <1>4, <1>3, LeavesQueues, <1>2 DEF Found, Calls
<1>7. Questions(X, f, h)
  BY <1>1, <1>3, LeavesQueues DEF Questions
<1>8. Held(X)
  BY <1>1, <1>3, <1>4, LeavesQueues DEF Held, Calls
<1>9. \A u \in Session : \A k \in Calls : Srv(X, u) = k => Srv(W, u) = k
  BY <1>1, <1>2, <1>4 DEF Srv, Calls
<1>10. Open(X)
  BY <1>1, <1>3, LeavesQueues, <1>2, <1>9 DEF Open, Held, NotBegun, Srv
<1>11. NotItself(X)
  BY <1>1, <1>3, <1>4, LeavesQueues DEF NotItself, Calls
<1>12. OneCalled(X, f)
  BY <1>1, LeavesQueues, <1>3 DEF Called, OneCalled
<1>13. ASSUME NEW d \in Client
       PROVE  Consents(View(X, d)) <=> Consents(View(W, d))
  <2>1. X.state[d] = W.state[d] /\ X.at[d] = W.at[d]
    BY <1>1
  <2>2. /\ View(X, d).state = X.state[d] /\ View(W, d).state = W.state[d]
        /\ View(X, d).at = X.at[d] /\ View(W, d).at = W.at[d]
    BY DEF View
  <2>3. QED BY ONLY <2>1, <2>2 DEF Consents
<1>14. Consented(X, f)
  BY <1>1, LeavesQueues, <1>13, <1>3 DEF ConsentGoes, Agrees, Consented
<1>15. Heard(X, f)
  <2>1. SUFFICES ASSUME NEW k \in Calls, NEW b \in Client, NEW d \in Client,
                        Mutually(X, f, k, b, d), Consents(View(X, d))
                 PROVE  HearsConsent(X, k, b, d)
    BY DEF Heard
  <2>2. /\ X.partner[W.now[d]] = W.now[b] /\ Srv(X, W.now[d]) = k /\ k # 0
        /\ W.now[d] \in X.list /\ W.now[d] \in Session /\ W.now[b] \in Session
    BY <1>1, <2>1 DEF Mutually, Calls
  <2>3. /\ W.now[d] \notin {s, W.partner[s]} /\ W.partner[W.now[d]] = W.now[b]
        /\ W.now[d] \in W.calling
    BY <1>1, <1>2, <2>2 DEF Srv
  <2>4. W.partner[W.now[b]] = W.now[d]
    BY <1>1, <1>3, <2>2, <2>3 DEF Mates
  <2>5. W.now[b] \notin {s, W.partner[s]}
    BY <1>1, <1>2, <2>2, <2>3, <2>4
  <2>6. /\ X.up[W.now[d]] = W.up[W.now[d]] /\ X.down[W.now[d]] = W.down[W.now[d]]
        /\ X.down[W.now[b]] = W.down[W.now[b]]
    BY <1>2, <2>2, <2>3, <2>5
  <2>7. Mutually(W, f, k, b, d)
    BY <1>1, <1>9, <2>1, <2>2, <2>3 DEF Mutually
  <2>8. HearsConsent(W, k, b, d)
    BY <1>3, <1>13, <2>1, <2>7 DEF Heard
  <2>9. LogsIn(View(W, d)) => LogsIn(View(X, d))
    BY <1>1, <2>6, ViewFields DEF LogsIn
  <2>10. QED BY <1>1, <2>6, <2>8, <2>9 DEF HearsConsent
<1>16. QED BY <1>5, <1>6, <1>7, <1>8, <1>10, <1>11, <1>12, <1>14, <1>15 DEF Together

(***************************************************************************)
(* A client connects anew.                                                 *)
(***************************************************************************)
LEMMA ReconnectsQueues ==
  ASSUME NEW W, NEW X, NEW f, NEW h, NEW c \in Client, NEW s, NEW m,
         ClientReconnects(W, X, c, s, m, f, h)
  PROVE  \A u \in Session : \A k \in Calls :
           /\ Asks(X, u, k) <=> Asks(W, u, k)
           /\ Pends(X, u, k) <=> Pends(W, u, k)
           /\ Has(X.up[u], Asked(k)) <=> Has(W.up[u], Asked(k))
           /\ OneQuestion(W, u, k) => OneQuestion(X, u, k)
           /\ Has(X.up[u], Off(k)) <=> Has(W.up[u], Off(k))
           /\ Has(X.up[u], Accepted(k)) <=> Has(W.up[u], Accepted(k))
           /\ u = s => /\ ~ Asks(X, u, k) /\ ~ Has(X.down[u], From(k))
                       /\ ~ Has(X.down[u], Off(k)) /\ ~ Has(X.down[u], Accepted(k))
                       /\ ~ Has(X.up[u], Off(k)) /\ ~ Has(X.up[u], Accepted(k))
                       /\ OneQuestion(X, u, k)
<1>1. /\ W.up[s] = << >> /\ W.down[s] = << >> /\ X.down = W.down
      /\ \A u \in Session : u # s => X.up[u] = W.up[u]
      /\ \A M : Has(X.up[s], M) <=> Has(<< >>, M) \/ m \in M
  BY DEF ClientReconnects, Reconnects, NoneAhead, Grows
<1>2. \A k : /\ m \notin Token(k) /\ m \notin Asked(k) /\ m \notin Off(k)
             /\ m \notin Accepted(k)
  BY Kinds DEF ClientReconnects, Reconnects, TokenOps, Errors
<1>3. \A k : Once(X.up[s], Token(k))
  BY <1>1, <1>2, HasNone DEF Once, Has
<1>4. \A M : ~ Has(<< >>, M) /\ Once(<< >>, M)
  BY HasNone
<1>5. QED BY ONLY <1>1, <1>2, <1>3, <1>4 DEF Asks, Pends, OneQuestion

LEMMA ReconnectsAgreed ==
  ASSUME NEW W, NEW X, NEW f, NEW h, NEW c \in Client, NEW s, NEW m,
         ClientReconnects(W, X, c, s, m, f, h)
  PROVE  Agreed(X, f, h)
<1>a. \A u \in Session : \A k \in Calls :
        /\ Asks(X, u, k) <=> Asks(W, u, k)
        /\ Pends(X, u, k) <=> Pends(W, u, k)
        /\ Has(X.up[u], Asked(k)) <=> Has(W.up[u], Asked(k))
        /\ OneQuestion(W, u, k) => OneQuestion(X, u, k)
        /\ Has(X.up[u], Off(k)) <=> Has(W.up[u], Off(k))
        /\ Has(X.up[u], Accepted(k)) <=> Has(W.up[u], Accepted(k))
  BY ReconnectsQueues
<1>b. \A k \in Calls :
          /\ ~ Asks(X, s, k) /\ ~ Has(X.down[s], From(k)) /\ ~ Has(X.down[s], Off(k))
          /\ ~ Has(X.down[s], Accepted(k)) /\ ~ Has(X.up[s], Off(k))
          /\ ~ Has(X.up[s], Accepted(k)) /\ OneQuestion(X, s, k)
  <2>1. s \in Session
    BY DEF ClientReconnects, Reconnects
  <2>2. QED BY <2>1, ReconnectsQueues
<1>1. /\ X.state = W.state /\ X.call = W.call /\ X.at = W.at /\ X.off = W.off
      /\ s \in Session /\ s[1] = c /\ X.now[c] = s
      /\ \A d \in Client : d # c => X.now[d] = W.now[d] /\ X.live[d] = W.live[d]
      /\ X.list = W.list \cup {s} /\ X.calling = W.calling
      /\ \A u \in Session : u # s /\ u \in W.ended => u \in X.ended
      /\ X.partner = W.partner /\ X.sCall = W.sCall /\ X.down = W.down
      /\ \A u \in Session : u # s => X.up[u] = W.up[u]
      /\ \A d \in Client : d # c => X.keys[d] = W.keys[d]
  BY DEF ClientReconnects, Reconnects
<1>2. /\ s \notin W.list /\ s \notin W.calling /\ W.sCall[s] = 0 /\ W.down[s] = << >>
      /\ \A t \in Session : W.partner[t] # s
  BY DEF ClientReconnects, Reconnects, NoneAhead
<1>3. /\ W.list \subseteq Session /\ f \in [Nat -> Client] /\ None \notin Session
      /\ \A d \in Client : W.now[d] \in Session /\ W.now[d][1] = d
      /\ \A d \in Client : X.now[d] \in Session /\ X.now[d][1] = d
      /\ W.partner \in [Session -> Session \cup {None}]
  BY NoneAssumption DEF ClientReconnects, WorldType
<1>4. /\ Mates(W) /\ Found(W) /\ Questions(W, f, h) /\ Held(W) /\ Open(W) /\ NotItself(W)
      /\ OneCalled(W, f) /\ Consented(W, f) /\ Heard(W, f)
      /\ \A d \in Client : ClientAgrees(View(W, d), d, f)
  BY DEF ClientReconnects, Agreed, Together
<1>5. \A d \in Client : d # c => X.now[d] # s
  BY <1>1, <1>3
<1>6. ASSUME NEW d \in Client, d # c  PROVE View(X, d) = View(W, d)
  <2>1. /\ X.now[d] = W.now[d] /\ X.up[W.now[d]] = W.up[W.now[d]] /\ X.down = W.down
        /\ X.state = W.state /\ X.call = W.call /\ X.at = W.at /\ X.off = W.off
        /\ X.live[d] = W.live[d] /\ X.keys[d] = W.keys[d]
        /\ X.calling = W.calling /\ X.sCall = W.sCall
    BY <1>1, <1>3, <1>5, <1>6
  <2>2. QED BY ONLY <2>1 DEF View, Srv
<1>7. ClientAgrees(View(X, c), c, f)
  <2>1. PICK v : v = View(W, c)
    OBVIOUS
  <2>2. PICK w : w = View(X, c)
    OBVIOUS
  <2>3. /\ w.down = << >> /\ w.state = v.state /\ w.call = v.call /\ w.at = v.at
        /\ w.off = v.off /\ w.srv = 0 /\ w.up = X.up[s]
    BY <1>1, <1>2, <2>1, <2>2, ViewFields DEF Srv
  <2>4. /\ \A M : Has(X.up[s], M) <=> Has(<< >>, M) \/ m \in M
        /\ m \in Login /\ \A k : m \notin Off(k)
    BY Kinds DEF ClientReconnects, Reconnects, Grows
  <2>5. /\ \A M : ~ Has(w.down, M) /\ Once(w.down, M) /\ \A N : Then(w.down, M, N)
        /\ LogsIn(w) /\ \A k : ~ Has(w.up, Off(k))
    BY <2>3, <2>4, HasNone DEF LogsIn
  <2>6. ClientAgrees(v, c, f)
    BY <1>4, <2>1
  <2>7. CalledOnce(w, c, f) /\ Roles(w, c, f) /\ Accepts(w)
    BY <2>3, <2>5, <2>6 DEF ClientAgrees, CalledOnce, Roles, Accepts
  <2>8. Served(w)
    BY <2>3, <2>5 DEF Served, OffIsLast, CalledByServer, OffByServer, ClientInCall,
       ServerInCall, AsksInCall
  <2>9. QED BY <2>2, <2>7, <2>8 DEF ClientAgrees
<1>8. Mates(X)
  BY <1>1, <1>2, <1>3, <1>4 DEF Mates
<1>9. Found(X)
  BY <1>1, <1>2, <1>3, <1>4, <1>a, <1>b DEF Found, Calls
<1>10. Questions(X, f, h)
  BY <1>1, <1>a, <1>b, <1>3, <1>4 DEF Questions
<1>11. Held(X)
  BY <1>1, <1>2, <1>3, <1>a, <1>b, <1>4 DEF Held, Calls
<1>12. Open(X)
  BY <1>1, <1>3, <1>a, <1>b, <1>4, <1>2, <1>5 DEF Open, Srv, Calls, NotBegun
<1>13. NotItself(X)
  BY <1>1, <1>2, <1>3, SessionClient, <1>4, <1>a, <1>b DEF NotItself, Calls
<1>14. \A k \in Calls : \A d \in Client :
         /\ Has(X.down[X.now[d]], From(k)) => Has(W.down[W.now[d]], From(k))
         /\ Has(X.down[X.now[d]], Accepted(k)) => Has(W.down[W.now[d]], Accepted(k))
  BY <1>1, <1>a, <1>b
<1>15. OneCalled(X, f)
  BY <1>1, <1>14, <1>4 DEF Called, OneCalled
<1>16. ASSUME NEW d \in Client
       PROVE  Consents(View(X, d)) <=> Consents(View(W, d))
  <2>1. X.state[d] = W.state[d] /\ X.at[d] = W.at[d]
    BY <1>1
  <2>2. /\ View(X, d).state = X.state[d] /\ View(W, d).state = W.state[d]
        /\ View(X, d).at = X.at[d] /\ View(W, d).at = W.at[d]
    BY DEF View
  <2>3. QED BY ONLY <2>1, <2>2 DEF Consents
<1>17. Consented(X, f)
  BY <1>1, <1>a, <1>b, <1>3, <1>14, <1>16, <1>4 DEF ConsentGoes, Agrees, Consented
<1>18. Heard(X, f)
  BY <1>1, <1>2, <1>3, <1>6, <1>4, <1>5 DEF Heard, Mutually, Srv, Calls, HearsConsent
<1>19. \A d \in Client : ClientAgrees(View(X, d), d, f)
  BY <1>4, <1>6, <1>7
<1>20. QED
  BY <1>8, <1>9, <1>10, <1>11, <1>12, <1>13, <1>15, <1>17, <1>18, <1>19 DEF Agreed, Together

(***************************************************************************)
(* A client dials: k is the number of the new call.                        *)
(***************************************************************************)
LEMMA DialsQueues ==
  ASSUME NEW W, NEW X, NEW f, NEW h, NEW c \in Client, NEW m, NEW k,
         ClientDials(W, X, c, m, k, f, h)
  PROVE  k \in Calls /\ NotKnown(W, c, k)
<1>1. /\ W.acts \in Nat /\ k = W.acts + 1 /\ \A u \in Session : W.sCall[u] \in Nat
      /\ \A d \in Client : W.call[d] \in Nat
  BY DEF ClientDials, DialsAt, WorldType
<1>2. /\ \A s \in Session : /\ ~ Has(W.up[s], Unborn(W.acts)) /\ ~ Has(W.down[s], Unborn(W.acts))
                            /\ W.sCall[s] <= W.acts
      /\ \A d \in Client : W.call[d] <= W.acts
      /\ FreeClient(View(W, c)) /\ W.state[c] = "STARTED" /\ W.at[c] = "idle"
  BY DEF ClientDials, DialsAt, Always, NoneUnborn, Free
<1>3. k \in Nat /\ k > W.acts /\ k # 0
  BY <1>1
<1>4. \A q : ~ Has(q, Unborn(W.acts)) =>
        /\ ~ Has(q, Token(k)) /\ ~ Has(q, Asked(k)) /\ ~ Has(q, Answered(k))
        /\ ~ Has(q, From(k)) /\ ~ Has(q, Off(k)) /\ ~ Has(q, Accepted(k))
  BY <1>1, <1>3, UnbornNone
<1>5. W.call[c] = 0
  BY <1>2, ViewFields DEF FreeClient
<1>6. \A u \in Session : W.sCall[u] # k
  BY <1>1, <1>2
<1>7. \A d \in Client : W.call[d] # k
  <2>1. SUFFICES ASSUME NEW d \in Client  PROVE W.call[d] # k
    OBVIOUS
  <2>2. W.call[d] \in Nat /\ W.call[d] <= W.acts
    BY <1>1, <1>2
  <2>3. QED BY ONLY <1>1, <2>2
<1>8. QED BY <1>2, <1>3, <1>4, <1>5, <1>6, <1>7 DEF Calls, Asks, Pends, NotKnown

LEMMA DialsChange ==
  ASSUME NEW W, NEW X, NEW f, NEW h, NEW c \in Client, NEW m, NEW k,
         ClientDials(W, X, c, m, k, f, h)
  PROVE  \A u \in Session : \A j \in Calls :
           /\ Asks(X, u, j) => Asks(W, u, j) \/ (u = W.now[c] /\ j = k)
           /\ Pends(X, u, j) => Pends(W, u, j)
           /\ Has(X.up[u], Asked(j)) <=> Has(W.up[u], Asked(j))
           /\ OneQuestion(W, u, j) => OneQuestion(X, u, j)
           /\ Has(X.up[u], Off(j)) <=> Has(W.up[u], Off(j))
           /\ Has(X.up[u], Accepted(j)) <=> Has(W.up[u], Accepted(j))
<1>1. /\ m \in Sent /\ m.op = "CALL_TO" /\ m.call = k /\ X.down = W.down
      /\ \A u \in Session : u # W.now[c] => X.up[u] = W.up[u]
      /\ Grows(W.up[W.now[c]], X.up[W.now[c]], m) \/ X.up[W.now[c]] = W.up[W.now[c]]
  BY ViewFields DEF ClientDials, DialsAt, OthersSame, UpGets
<1>2. \A j : /\ (m \in Token(j) <=> j = k) /\ m \notin Asked(j) /\ m \notin Off(j)
             /\ m \notin Accepted(j)
  BY <1>1, Kinds DEF TokenOps, Errors
<1>3. \A u \in Session : ~ Has(W.up[u], Token(k)) /\ ~ Has(W.down[u], Token(k))
  BY DialsQueues DEF Asks, NotKnown
<1>4. \A u \in Session :
        /\ \A M : Has(X.up[u], M) => Has(W.up[u], M) \/ (u = W.now[c] /\ m \in M)
        /\ \A M : Has(W.up[u], M) => Has(X.up[u], M)
        /\ \A M : Once(W.up[u], M) /\ (m \in M => ~ Has(W.up[u], M)) => Once(X.up[u], M)
  BY <1>1 DEF Grows
<1>5. QED BY ONLY <1>1, <1>2, <1>3, <1>4 DEF Asks, Pends, OneQuestion

LEMMA DialsTogether ==
  ASSUME NEW W, NEW X, NEW f, NEW h, NEW c \in Client, NEW m, NEW k,
         ClientDials(W, X, c, m, k, f, h), NEW g, NEW e,
         g = [f EXCEPT ![k] = c], e = [h EXCEPT ![k] = W.now[c]]
  PROVE  Together(X, g, e)
<1>a. /\ k \in Calls
      /\ \A u \in Session :
           /\ ~ Asks(W, u, k) /\ ~ Pends(W, u, k) /\ ~ Has(W.up[u], Asked(k))
           /\ ~ Has(W.up[u], Off(k)) /\ ~ Has(W.up[u], Accepted(k))
           /\ ~ Has(W.down[u], From(k)) /\ ~ Has(W.down[u], Off(k))
           /\ ~ Has(W.down[u], Accepted(k)) /\ W.sCall[u] # k
      /\ \A d \in Client : W.call[d] # k
      /\ W.call[c] = 0
  <2>1. k \in Calls /\ NotKnown(W, c, k)
    BY DialsQueues
  <2>2. QED BY ONLY <2>1 DEF NotKnown
<1>b. \A u \in Session : \A j \in Calls :
        /\ Asks(X, u, j) => Asks(W, u, j) \/ (u = W.now[c] /\ j = k)
        /\ Pends(X, u, j) => Pends(W, u, j)
        /\ Has(X.up[u], Asked(j)) <=> Has(W.up[u], Asked(j))
        /\ OneQuestion(W, u, j) => OneQuestion(X, u, j)
        /\ Has(X.up[u], Off(j)) <=> Has(W.up[u], Off(j))
        /\ Has(X.up[u], Accepted(j)) <=> Has(W.up[u], Accepted(j))
  BY DialsChange
<1>1. /\ X.list = W.list /\ X.calling = W.calling /\ X.ended = W.ended
      /\ X.partner = W.partner /\ X.sCall = W.sCall /\ X.now = W.now /\ X.live = W.live
      /\ X.state = W.state /\ X.off = W.off /\ X.down = W.down
      /\ W.state[c] = "STARTED" /\ W.at[c] = "idle" /\ X.at[c] = "callTo" /\ X.call[c] = k
      /\ \A d \in Client : d # c => X.call[d] = W.call[d] /\ X.at[d] = W.at[d]
      /\ \A u \in Session : u # W.now[c] => X.up[u] = W.up[u]
  BY DEF ClientDials, DialsAt, OthersSame
<1>2. /\ W.list \subseteq Session /\ f \in [Nat -> Client] /\ h \in [Nat -> Session]
      /\ \A d \in Client : W.now[d] \in Session /\ W.now[d][1] = d
  BY DEF ClientDials, WorldType
<1>3. /\ g[k] = c /\ e[k] = W.now[c] /\ \A j \in Calls : j # k => g[j] = f[j] /\ e[j] = h[j]
  BY <1>a, <1>2 DEF Calls
<1>4. /\ Mates(W) /\ Found(W) /\ Questions(W, f, h) /\ Held(W) /\ Open(W) /\ NotItself(W)
      /\ OneCalled(W, f) /\ Consented(W, f) /\ Heard(W, f)
  BY DEF ClientDials, Agreed, Together
<1>5. Mates(X)
  BY <1>1, <1>4 DEF Mates
<1>6. Found(X)
  BY <1>b, <1>1, <1>2, <1>4 DEF Found
<1>7. Questions(X, g, e)
  BY <1>1, <1>b, <1>2, <1>4, <1>a, <1>3 DEF Questions
<1>8. Held(X)
  BY <1>a, <1>b, <1>1, <1>2, <1>4 DEF Held
<1>9. \A u \in Session : Srv(X, u) = Srv(W, u)
  BY <1>1 DEF Srv
<1>10. Open(X)
  BY <1>1, <1>3, <1>7, <1>a, <1>b, <1>2, <1>9, <1>4 DEF Open, Questions, Srv, Calls, NotBegun
<1>11. NotItself(X)
  BY <1>b, <1>1, <1>2, <1>4 DEF NotItself
<1>12. OneCalled(X, g)
  BY <1>a, <1>1, <1>2, <1>3, <1>4 DEF Called, OneCalled
<1>13. ASSUME NEW d \in Client, d # c
       PROVE  Consents(View(X, d)) <=> Consents(View(W, d))
  <2>1. X.state[d] = W.state[d] /\ X.at[d] = W.at[d]
    BY <1>1, <1>13
  <2>2. /\ View(X, d).state = X.state[d] /\ View(W, d).state = W.state[d]
        /\ View(X, d).at = X.at[d] /\ View(W, d).at = W.at[d]
    BY DEF View
  <2>3. QED BY ONLY <2>1, <2>2 DEF Consents
<1>14. Consented(X, g)
  BY <1>a, <1>b, <1>1, <1>2, <1>3, <1>4, <1>13 DEF Consented, ConsentGoes, Calls, Agrees
<1>15. Heard(X, g)
  <2>1. SUFFICES ASSUME NEW j \in Calls, NEW b \in Client, NEW d \in Client,
                        Mutually(X, g, j, b, d), Consents(View(X, d))
                 PROVE  HearsConsent(X, j, b, d)
    BY DEF Heard
  <2>2. j # k
    BY <1>a, <1>1, <1>3, <2>1 DEF Mutually
  <2>3. d # c /\ b # c
    BY <1>1, <2>1, <2>2 DEF Mutually
  <2>4. Mutually(W, f, j, b, d)
    BY <1>1, <1>2, <1>3, <1>9, <2>1, <2>2, <2>3 DEF Mutually
  <2>5. HearsConsent(W, j, b, d)
    BY <1>4, <1>13, <2>1, <2>3, <2>4 DEF Heard
  <2>6. X.up[X.now[d]] = W.up[W.now[d]] /\ X.down = W.down /\ X.now = W.now
    BY <1>2, <2>3, <1>1
  <2>7. LogsIn(View(W, d)) => LogsIn(View(X, d))
    BY <2>6, ViewFields DEF LogsIn
  <2>8. QED BY <1>1, <2>5, <2>6, <2>7 DEF HearsConsent
<1>16. QED BY <1>5, <1>6, <1>7, <1>8, <1>10, <1>11, <1>12, <1>14, <1>15 DEF Together

LEMMA DialsAgreed ==
  ASSUME NEW W, NEW X, NEW f, NEW h, NEW c \in Client, NEW m, NEW k,
         ClientDials(W, X, c, m, k, f, h)
  PROVE  Agreed(X, [f EXCEPT ![k] = c], [h EXCEPT ![k] = W.now[c]])
<1>1. PICK g : g = [f EXCEPT ![k] = c]
  OBVIOUS
<1>2. Together(X, g, [h EXCEPT ![k] = W.now[c]])
  BY <1>1, DialsTogether
<1>3. /\ X.now = W.now /\ X.down = W.down /\ X.state = W.state /\ X.off = W.off
      /\ X.keys = W.keys /\ X.live = W.live /\ X.calling = W.calling /\ X.sCall = W.sCall
      /\ W.state[c] = "STARTED" /\ W.at[c] = "idle" /\ X.at[c] = "callTo" /\ X.call[c] = k
      /\ \A d \in Client : d # c => X.call[d] = W.call[d] /\ X.at[d] = W.at[d]
      /\ \A u \in Session : u # W.now[c] => X.up[u] = W.up[u]
  BY DEF ClientDials, DialsAt, OthersSame
<1>a. /\ k \in Calls /\ \A u \in Session : ~ Has(W.down[u], From(k))
      /\ \A d \in Client : W.call[d] # k
  <2>1. k \in Calls /\ NotKnown(W, c, k)
    BY DialsQueues
  <2>2. QED BY ONLY <2>1 DEF NotKnown
<1>4. f \in [Nat -> Client] /\ k \in Calls /\ k = W.acts + 1 /\ W.acts \in Nat
  BY <1>a DEF ClientDials, DialsAt, WorldType
<1>5. ASSUME NEW d \in Client, d # c  PROVE ClientAgrees(View(X, d), d, g)
  <2>1. View(X, d) = View(W, d)
    <3>1. W.now[d] # W.now[c] /\ W.now[d] \in Session
      <4>1. W.now[d] \in Session /\ W.now[d][1] = d /\ W.now[c][1] = c
        BY DEF ClientDials, WorldType
      <4>2. QED BY <1>5, <4>1
    <3>2. /\ X.up[W.now[d]] = W.up[W.now[d]] /\ X.call[d] = W.call[d] /\ X.at[d] = W.at[d]
      BY <1>3, <1>5, <3>1
    <3>3. QED BY ONLY <1>3, <3>2 DEF View, Srv
  <2>2. ClientAgrees(View(W, d), d, f) /\ ViewType(View(W, d))
    BY ViewTyped DEF ClientDials, Agreed
  <2>3. W.call[d] \in Nat /\ W.call[d] # k /\ \A j \in Nat \ {0} : j # k => g[j] = f[j]
    BY <1>a, <1>1, <1>4 DEF ClientDials, WorldType, Calls
  <2>4. ~ Has(View(W, d).down, From(k))
    <3>1. W.now[d] \in Session
      BY DEF ClientDials, WorldType
    <3>2. QED BY <1>a, <3>1, ViewFields
  <2>5. View(W, d).call = W.call[d]
    BY ViewFields
  <2>6. CalledOnce(View(W, d), d, g)
    BY <2>2, <2>3, <2>4 DEF ClientAgrees, CalledOnce
  <2>7. Roles(View(W, d), d, g)
    BY <2>2, <2>3, <2>5 DEF ClientAgrees, Roles, InCall
  <2>8. QED BY <2>1, <2>2, <2>6, <2>7 DEF ClientAgrees
<1>6. ClientAgrees(View(X, c), c, g)
  <2>1. PICK v : v = View(W, c)
    OBVIOUS
  <2>2. PICK w : w = View(X, c)
    OBVIOUS
  <2>3. W.now[c] \in Session /\ W.sCall \in [Session -> Nat]
    BY DEF ClientDials, WorldType
  <2>4. /\ w.down = v.down /\ w.state = v.state /\ w.off = v.off /\ w.keys = v.keys
        /\ w.srv = v.srv /\ w.live = v.live /\ v.state = "STARTED" /\ v.at = "idle"
        /\ w.at = "callTo" /\ w.call = k
    BY <1>3, <2>1, <2>2, ViewFields DEF Srv
  <2>5. /\ ~ Has(v.up, Unborn(W.acts)) /\ ~ Has(v.down, Unborn(W.acts)) /\ v.srv <= W.acts
    BY <2>3, <1>4, <2>1, ViewFields DEF ClientDials, Always, NoneUnborn, Srv
  <2>6. UpGets(v, w, m) /\ m.op = "CALL_TO" /\ m.call = k
    BY <2>1, <2>2 DEF ClientDials, DialsAt
  <2>7. ViewType(v) /\ ClientAgrees(v, c, f)
    BY <2>1, ViewTyped DEF ClientDials, Agreed
  <2>8. ClientAgrees(w, c, [f EXCEPT ![k] = c])
    BY <1>4, <2>4, <2>5, <2>6, <2>7, Dials
  <2>9. QED BY <1>1, <2>2, <2>8
<1>7. \A d \in Client : ClientAgrees(View(X, d), d, g)
  BY <1>5, <1>6
<1>8. QED BY <1>1, <1>2, <1>7 DEF Agreed

(***************************************************************************)
(* Nothing is on its way: everybody is at rest, or is in calls that match. *)
(***************************************************************************)
LEMMA RestAgreed ==
  ASSUME NEW W, WorldType(W), Always(W), Resting(W), NEW f \in [Nat -> Client], NEW h
  PROVE  Agreed(W, f, h)
<1>1. \A c \in Client : /\ W.up[W.now[c]] = << >> /\ W.down[W.now[c]] = << >>
                        /\ W.at[c] = "idle" /\ ~ W.off[c] /\ W.live[c]
                        /\ W.state[c] = "STARTED" /\ W.now[c] \notin W.calling
                        /\ W.call[c] = 0
  <2>1. \A c \in Client : FreeClient(View(W, c))
    BY DEF Always, Free
  <2>2. ASSUME NEW c \in Client  PROVE W.call[c] = 0
    BY <2>1, ViewFields DEF Resting, Quiescent, FreeClient
  <2>3. QED BY <2>2 DEF Resting, Quiescent
<1>2. \A M : ~ Has(<< >>, M) /\ Once(<< >>, M) /\ \A N : Then(<< >>, M, N)
  BY HasNone
<1>3. \A s \in W.list : \E c \in Client : s = W.now[c]
  BY DEF Resting, Quiescent
<1>4. ASSUME NEW c \in Client  PROVE ClientAgrees(View(W, c), c, f)
  <2>1. PICK v : v = View(W, c)
    OBVIOUS
  <2>2. /\ v.up = << >> /\ v.down = << >> /\ v.at = "idle" /\ v.off = FALSE
        /\ v.state = "STARTED" /\ v.srv = 0 /\ v.call = 0
    BY <1>1, <2>1, ViewFields DEF Srv
  <2>3. CalledOnce(v, c, f) /\ Roles(v, c, f) /\ Accepts(v)
    BY <1>2, <2>2 DEF CalledOnce, Roles, Accepts, InCall
  <2>4. Served(v)
    BY <1>2, <2>2 DEF Served, OffIsLast, CalledByServer, OffByServer, ClientInCall,
       ServerInCall, AsksInCall, InCall
  <2>5. QED BY <2>1, <2>3, <2>4 DEF ClientAgrees
<1>5. \A s \in W.list : /\ s \notin W.calling /\ W.up[s] = << >> /\ W.down[s] = << >>
                        /\ Srv(W, s) = 0
  BY <1>1, <1>3 DEF Srv
<1>6. \A s \in W.list : \A k \in Calls :
        ~ Asks(W, s, k) /\ ~ Pends(W, s, k) /\ OneQuestion(W, s, k) /\ ~ Has(W.up[s], Asked(k))
  BY <1>2, <1>5 DEF Asks, Pends, OneQuestion
<1>7. Mates(W) /\ Found(W) /\ Questions(W, f, h) /\ Held(W) /\ Open(W) /\ NotItself(W)
  BY <1>5, <1>6 DEF Mates, Found, Questions, Held, Open, NotItself
<1>8. OneCalled(W, f) /\ Heard(W, f)
  BY <1>1, <1>2 DEF OneCalled, Called, Heard, Mutually, Calls
<1>9. Consented(W, f)
  BY <1>1, <1>2, <1>5 DEF Consented, Calls, ConsentGoes
<1>10. QED BY <1>4, <1>7, <1>8, <1>9 DEF Agreed, Together

\* When everything has been read, a client is in the call that the server has it in.
LEMMA QuiescentCalls ==
  ASSUME NEW W, NEW f, NEW h, WorldType(W), Quiescent(W), Agreed(W, f, h), NEW d \in Client
  PROVE  /\ W.state[d] \in InCall => Srv(W, W.now[d]) = W.call[d] /\ W.call[d] \in Calls
         /\ Srv(W, W.now[d]) # 0 => W.state[d] \in InCall /\ W.call[d] = Srv(W, W.now[d])
         /\ W.state[d] = "WAITCALL" => f[W.call[d]] = d
         /\ W.state[d] = "RECEIVEDCALL" => f[W.call[d]] # d
<1>1. PICK v : v = View(W, d)
  OBVIOUS
<1>2. /\ v.up = << >> /\ v.down = << >> /\ v.live /\ v.state = W.state[d]
      /\ v.call = W.call[d] /\ v.srv = Srv(W, W.now[d]) /\ W.call[d] \in Nat
  <2>1. /\ W.up[W.now[d]] = << >> /\ W.down[W.now[d]] = << >>
        /\ W.live[d] /\ W.call[d] \in Nat
    BY DEF Quiescent, WorldType
  <2>2. QED BY <1>1, <2>1, ViewFields
<1>3. Roles(v, d, f) /\ ClientInCall(v) /\ ServerInCall(v)
  BY <1>1, <1>2 DEF Agreed, ClientAgrees, Served
<1>4. W.state[d] \in InCall => Srv(W, W.now[d]) = W.call[d] /\ W.call[d] \in Calls
  BY <1>2, <1>3, HasNone DEF ClientInCall, LogsIn, Roles, Calls
<1>5. Srv(W, W.now[d]) # 0 => W.state[d] \in InCall /\ W.call[d] = Srv(W, W.now[d])
  BY <1>2, <1>3, HasNone DEF ServerInCall, LogsIn, Participates
<1>6. QED BY <1>2, <1>3, <1>4, <1>5 DEF Roles

LEMMA QuiescentMatched ==
  ASSUME NEW W, NEW f, NEW h, WorldType(W), Always(W), Quiescent(W), Agreed(W, f, h),
         f \in [Nat -> Client], NEW c \in Client
  PROVE  Matched(W, c)
<1>1. \A d \in Client : /\ W.up[W.now[d]] = << >> /\ W.down[W.now[d]] = << >>
                        /\ W.at[d] = "idle" /\ ~ W.off[d] /\ W.live[d] /\ W.now[d] \in W.list
                        /\ W.now[d] \in Session /\ W.call[d] \in Nat /\ W.state[d] \in State
  BY DEF Quiescent, WorldType
<1>2. \A M : ~ Has(<< >>, M)
  BY HasNone
<1>3. /\ Mates(W) /\ OneCalled(W, f) /\ Consented(W, f) /\ Heard(W, f)
      /\ \A s \in Session : W.partner[s] # s
  BY DEF Agreed, Together, Always, NotWithItself
<1>4. ASSUME NEW d \in Client
      PROVE  /\ W.state[d] \in InCall => Srv(W, W.now[d]) = W.call[d] /\ W.call[d] \in Calls
             /\ Srv(W, W.now[d]) # 0 =>
                  W.state[d] \in InCall /\ W.call[d] = Srv(W, W.now[d])
             /\ W.state[d] = "WAITCALL" => f[W.call[d]] = d
             /\ W.state[d] = "RECEIVEDCALL" => f[W.call[d]] # d
  BY QuiescentCalls
<1>5. W.state[c] = "STARTED" => W.now[c] \notin W.calling
  BY <1>1, <1>3, <1>4 DEF Mates, Srv, InCall
<1>6. ASSUME W.state[c] \in InCall
      PROVE  \E d \in Client :
               /\ W.now[c] \in W.calling /\ W.partner[W.now[c]] = W.now[d]
               /\ W.now[d] \in W.calling /\ W.partner[W.now[d]] = W.now[c]
               /\ W.state[d] = Counterpart[W.state[c]]
  <2>1. PICK k \in Calls : k = W.call[c]
    BY <1>4, <1>6
  <2>2. k # 0 /\ Srv(W, W.now[c]) = k
    BY <1>4, <1>6, <2>1 DEF Calls
  <2>3. W.now[c] \in W.calling /\ W.sCall[W.now[c]] = k
    BY <2>2 DEF Srv
  <2>4. /\ W.partner[W.now[c]] \in W.list /\ W.partner[W.now[c]] \in W.calling
        /\ W.partner[W.partner[W.now[c]]] = W.now[c] /\ W.sCall[W.partner[W.now[c]]] = k
    BY <1>1, <1>3, <2>3 DEF Mates
  <2>5. PICK d \in Client : W.partner[W.now[c]] = W.now[d]
    BY <2>4 DEF Quiescent
  <2>6. /\ W.now[d] \in W.calling /\ W.partner[W.now[d]] = W.now[c] /\ Srv(W, W.now[d]) = k
    BY <2>4, <2>5 DEF Srv
  <2>7. d # c
    BY <1>1, <1>3, <2>5
  <2>8. W.state[d] \in InCall /\ W.call[d] = k
    BY <1>4, <2>2, <2>6
  <2>9. ASSUME NEW a \in Client, NEW b \in Client, a # b, W.call[a] = k, W.call[b] = k,
               Srv(W, W.now[a]) = k, W.partner[W.now[a]] = W.now[b], f[k] # a,
               W.state[a] = "CALLING"
        PROVE  W.state[b] = "CALLING"
    BY <1>1, <2>9, ViewFields, <1>3, <1>2 DEF Mutually, Consents, Heard, LogsIn, HearsConsent
  <2>10. ASSUME NEW a \in Client, NEW b \in Client, W.call[a] = k, f[k] = b,
                W.call[b] = k, W.state[b] = "CALLING", a # b
         PROVE  W.state[a] = "CALLING"
    BY <2>10, <1>3, <1>1, ViewFields DEF ConsentGoes, Consented, Agrees, Consents
  <2>11. f[k] = c \/ f[k] = d
    BY <2>1, <2>8, <1>3, <2>7 DEF Called, OneCalled
  <2>12. W.state[d] = Counterpart[W.state[c]]
    BY <1>6, <2>8, <1>4, <2>1, <2>2, <2>5, <2>7, <2>9, <2>10, <2>11, <2>6 DEF Counterpart, InCall
  <2>13. QED BY <2>3, <2>5, <2>6, <2>12
<1>7. QED BY <1>5, <1>6 DEF Matched

(***************************************************************************)
(* What the steps of a client are for its view, v before and w after.      *)
(***************************************************************************)
LEMMA UnbornLess ==
  ASSUME NEW q, NEW a \in Nat, NEW b \in Nat, a <= b
  PROVE  ~ Has(q, Unborn(a)) => ~ Has(q, Unborn(b))
<1>1. Unborn(b) \subseteq Unborn(a)
  BY SentFields DEF Unborn
<1>2. QED BY <1>1 DEF Has

LEMMA StaysAgrees ==
  ASSUME NEW f, NEW c, NEW v, NEW w, ViewType(v), ClientAgrees(v, c, f), Stays(v, w)
  PROVE  ClientAgrees(w, c, f) /\ Moves(v, w)
<1>1. CalledOnce(w, c, f)
  BY DEF CalledOnce, ClientAgrees, Stays
<1>2. Roles(w, c, f)
  BY DEF Roles, InCall, ClientAgrees, Stays
<1>3. Accepts(w)
  BY DEF Accepts, ClientAgrees, Stays
<1>4. ASSUME w.live  PROVE Served(w)
  <2>0. Served(v)
    BY <1>4 DEF ClientAgrees, Stays
  <2>1. OffIsLast(w)
    BY <1>4, <2>0 DEF OffIsLast, Served, Stays
  <2>2. CalledByServer(w)
    BY <1>4, <2>0 DEF CalledByServer, Served, Stays
  <2>3. OffByServer(w)
    BY <1>4, <2>0 DEF OffByServer, Served, Stays
  <2>4. ClientInCall(w)
    BY <1>4, <2>0 DEF ClientInCall, Served, LogsIn, ClientAgrees, Roles, Stays
  <2>5. ServerInCall(w)
    BY <1>4, <2>0 DEF ServerInCall, Served, Participates, LogsIn, Stays
  <2>6. AsksInCall(w)
    BY <1>4, <2>0 DEF AsksInCall, Served, Participates, LogsIn, Stays
  <2>7. QED BY <2>1, <2>2, <2>3, <2>4, <2>5, <2>6 DEF Served
<1>5. KeepsQuestions(v, w)
  BY DEF KeepsQuestions, Calls, Stays
<1>6. HearsNothingNew(v, w)
  BY DEF HearsNothingNew, Calls, Stays
<1>7. MovesOn(v, w)
  BY DEF MovesOn, Calls, Stays
<1>8. KeepsConsent(v, w)
  BY DEF KeepsConsent, Calls, Consents, Stays
<1>9. ConsentIsHeard(v, w)
  BY DEF ConsentIsHeard, Calls, Consents, LogsIn, Stays
<1>10. QED BY <1>1, <1>2, <1>3, <1>4, <1>5, <1>6, <1>7, <1>8, <1>9 DEF ClientAgrees, Moves

LEMMA StaysSane ==
  ASSUME NEW v, NEW w, NEW a \in Nat, NEW b \in Nat, a <= b, ViewType(v), Sane(v, a),
         Stays(v, w)
  PROVE  Sane(w, b)
<1>1. FreeClient(w)
  BY DEF Sane, FreeClient, Stays
<1>2. KeysComing(w)
  BY DEF Sane, KeysComing, Stays
<1>3. ~ Has(w.up, Unborn(b)) /\ ~ Has(w.down, Unborn(b))
  BY UnbornLess DEF Sane, Stays
<1>4. w.call <= b
  BY DEF Sane, ViewType, Stays
<1>5. QED BY <1>1, <1>2, <1>3, <1>4 DEF Sane

LEMMA SaysAgrees ==
  ASSUME NEW f, NEW c, NEW v, NEW w, NEW m, ViewType(v), ClientAgrees(v, c, f),
         Says(v, w, m)
  PROVE  ClientAgrees(w, c, f) /\ Moves(v, w)
<1>1. /\ m \notin PublicKey /\ m \notin SecretKey /\ m \notin Login /\ m \in Freeing
      /\ \A k : m \notin Token(k) /\ m \notin Answered(k) /\ m \notin Asked(k)
                  /\ m \notin From(k) /\ m \notin Accepted(k) /\ m \notin Off(k)
  BY Kinds DEF Says, UpGets, Grows, TokenOps, Errors
<1>2. CalledOnce(w, c, f)
  BY <1>1 DEF CalledOnce, ClientAgrees, Says, UpGets, Grows
<1>3. Roles(w, c, f)
  BY <1>1 DEF Roles, InCall, ClientAgrees, Says, UpGets, Grows
<1>4. Accepts(w)
  BY <1>1 DEF Accepts, ClientAgrees, Says, UpGets, Grows
<1>5. ASSUME w.live  PROVE Served(w)
  <2>0. Served(v)
    BY <1>5 DEF ClientAgrees, Says
  <2>1. OffIsLast(w)
    BY <1>5, <1>1, <2>0 DEF OffIsLast, Served, Says, UpGets, Grows
  <2>2. CalledByServer(w)
    BY <1>5, <1>1, <2>0 DEF CalledByServer, Served, Says, UpGets, Grows
  <2>3. OffByServer(w)
    BY <1>5, <1>1, <2>0 DEF OffByServer, Served, Says, UpGets, Grows
  <2>4. ClientInCall(w)
    BY <1>5, <1>1, <2>0 DEF ClientInCall, Served, LogsIn, ClientAgrees, Roles, Says, UpGets, Grows
  <2>5. ServerInCall(w)
    BY <1>5, <1>1, <2>0 DEF ServerInCall, Served, Participates, LogsIn, Says, UpGets, Grows
  <2>6. AsksInCall(w)
    BY <1>5, <1>1, <2>0 DEF AsksInCall, Served, Participates, LogsIn, Says, UpGets, Grows
  <2>7. QED BY <2>1, <2>2, <2>3, <2>4, <2>5, <2>6 DEF Served
<1>6. KeepsQuestions(v, w)
  BY <1>1 DEF KeepsQuestions, Calls, Says, UpGets, Grows
<1>7. HearsNothingNew(v, w)
  BY <1>1 DEF HearsNothingNew, Calls, Says, UpGets, Grows
<1>8. MovesOn(v, w)
  BY <1>1 DEF MovesOn, Calls, Says, UpGets, Grows
<1>9. KeepsConsent(v, w)
  BY <1>1 DEF KeepsConsent, Calls, Consents, Says, UpGets, Grows
<1>10. ConsentIsHeard(v, w)
  BY <1>1 DEF ConsentIsHeard, Calls, Consents, LogsIn, Says, UpGets, Grows
<1>11. QED BY <1>2, <1>3, <1>4, <1>5, <1>6, <1>7, <1>8, <1>9, <1>10 DEF ClientAgrees, Moves

LEMMA SaysSane ==
  ASSUME NEW v, NEW w, NEW m, NEW a \in Nat, NEW b \in Nat, a <= b, ViewType(v),
         Sane(v, a), Says(v, w, m)
  PROVE  Sane(w, b)
<1>1. /\ m \in Sent /\ m \notin PublicKey /\ m \notin SecretKey
  BY Kinds DEF Says, UpGets, Grows
<1>2. m \notin Unborn(b)
  BY <1>1, SentFields DEF Unborn, BeginOps, Errors, Sane, Says, UpGets, Grows
<1>3. FreeClient(w)
  BY DEF Sane, FreeClient, Says
<1>4. KeysComing(w)
  BY <1>1, <1>2 DEF Sane, KeysComing, Says, UpGets, Grows
<1>5. ~ Has(w.up, Unborn(b)) /\ ~ Has(w.down, Unborn(b))
  BY <1>1, <1>2, UnbornLess DEF Sane, Says, UpGets, Grows
<1>6. w.call <= b
  BY <1>1, <1>2 DEF Sane, ViewType, Says, UpGets, Grows
<1>7. QED BY <1>3, <1>4, <1>5, <1>6 DEF Sane

LEMMA AssignsWaitAgrees ==
  ASSUME NEW f, NEW c, NEW v, NEW w, ViewType(v), ClientAgrees(v, c, f),
         AssignsWait(v, w), v.state = "STARTED", v.call # 0
  PROVE  ClientAgrees(w, c, f) /\ Moves(v, w)
<1>1. CalledOnce(w, c, f)
  BY DEF CalledOnce, ClientAgrees, AssignsWait
<1>2. Roles(w, c, f)
  BY DEF Roles, InCall, ClientAgrees, AssignsWait
<1>3. Accepts(w)
  BY DEF Accepts, ClientAgrees, AssignsWait
<1>4. ASSUME w.live  PROVE Served(w)
  <2>0. Served(v)
    BY <1>4 DEF ClientAgrees, AssignsWait
  <2>1. OffIsLast(w)
    BY <1>4, <2>0 DEF OffIsLast, Served, AssignsWait
  <2>2. CalledByServer(w)
    BY <1>4, <2>0 DEF CalledByServer, Served, AssignsWait
  <2>3. OffByServer(w)
    BY <1>4, <2>0 DEF OffByServer, Served, AssignsWait
  <2>4. ClientInCall(w)
    BY <1>4, <2>0 DEF ClientInCall, Served, LogsIn, InCall, ClientAgrees, Roles, AssignsWait
  <2>5. ServerInCall(w)
    BY <1>4, <2>0 DEF ServerInCall, Served, Participates, LogsIn, InCall, ViewType, AssignsWait
  <2>6. AsksInCall(w)
    BY <1>4, <2>0 DEF AsksInCall, Served, Participates, LogsIn, InCall, AssignsWait
  <2>7. QED BY <2>1, <2>2, <2>3, <2>4, <2>5, <2>6 DEF Served
<1>5. KeepsQuestions(v, w)
  BY DEF KeepsQuestions, Calls, AssignsWait
<1>6. HearsNothingNew(v, w)
  BY DEF HearsNothingNew, Calls, AssignsWait
<1>7. MovesOn(v, w)
  BY DEF MovesOn, Calls, AssignsWait
<1>8. KeepsConsent(v, w)
  BY DEF KeepsConsent, Calls, Consents, AssignsWait
<1>9. ConsentIsHeard(v, w)
  BY DEF ConsentIsHeard, Calls, Consents, LogsIn, AssignsWait
<1>10. QED BY <1>1, <1>2, <1>3, <1>4, <1>5, <1>6, <1>7, <1>8, <1>9 DEF ClientAgrees, Moves

LEMMA AssignsWaitSane ==
  ASSUME NEW v, NEW w, NEW a \in Nat, NEW b \in Nat, a <= b, ViewType(v), Sane(v, a),
         AssignsWait(v, w)
  PROVE  Sane(w, b)
<1>1. FreeClient(w)
  BY DEF Sane, FreeClient, AssignsWait
<1>2. KeysComing(w)
  BY DEF Sane, KeysComing, AssignsWait
<1>3. ~ Has(w.up, Unborn(b)) /\ ~ Has(w.down, Unborn(b))
  BY UnbornLess DEF Sane, AssignsWait
<1>4. w.call <= b
  BY DEF Sane, ViewType, AssignsWait
<1>5. QED BY <1>1, <1>2, <1>3, <1>4 DEF Sane

LEMMA AssignsCallingAgrees ==
  ASSUME NEW f, NEW c, NEW v, NEW w, ViewType(v), ClientAgrees(v, c, f),
         AssignsCalling(v, w), v.state = "RECEIVEDCALL"
  PROVE  ClientAgrees(w, c, f) /\ Moves(v, w)
<1>1. CalledOnce(w, c, f)
  BY DEF CalledOnce, ClientAgrees, AssignsCalling
<1>2. Roles(w, c, f)
  BY DEF Roles, InCall, ClientAgrees, AssignsCalling
<1>3. Accepts(w)
  BY DEF Accepts, ClientAgrees, AssignsCalling
<1>4. ASSUME w.live  PROVE Served(w)
  <2>0. Served(v)
    BY <1>4 DEF ClientAgrees, AssignsCalling
  <2>1. OffIsLast(w)
    BY <1>4, <2>0 DEF OffIsLast, Served, AssignsCalling
  <2>2. CalledByServer(w)
    BY <1>4, <2>0 DEF CalledByServer, Served, AssignsCalling
  <2>3. OffByServer(w)
    BY <1>4, <2>0 DEF OffByServer, Served, AssignsCalling
  <2>4. ClientInCall(w)
    BY <1>4, <2>0 DEF ClientInCall, Served, LogsIn, InCall, ClientAgrees, Roles, AssignsCalling
  <2>5. ServerInCall(w)
    BY <1>4, <2>0 DEF ServerInCall, Served, Participates, LogsIn, InCall, ViewType, AssignsCalling
  <2>6. AsksInCall(w)
    BY <1>4, <2>0 DEF AsksInCall, Served, Participates, LogsIn, InCall, AssignsCalling
  <2>7. QED BY <2>1, <2>2, <2>3, <2>4, <2>5, <2>6 DEF Served
<1>5. KeepsQuestions(v, w)
  BY DEF KeepsQuestions, Calls, AssignsCalling
<1>6. HearsNothingNew(v, w)
  BY DEF HearsNothingNew, Calls, AssignsCalling
<1>7. MovesOn(v, w)
  BY DEF MovesOn, Calls, AssignsCalling
<1>8. KeepsConsent(v, w)
  BY DEF KeepsConsent, Calls, Consents, AssignsCalling
<1>9. ConsentIsHeard(v, w)
  BY DEF ConsentIsHeard, Calls, Consents, LogsIn, AssignsCalling
<1>10. QED BY <1>1, <1>2, <1>3, <1>4, <1>5, <1>6, <1>7, <1>8, <1>9 DEF ClientAgrees, Moves

LEMMA AssignsCallingSane ==
  ASSUME NEW v, NEW w, NEW a \in Nat, NEW b \in Nat, a <= b, ViewType(v), Sane(v, a),
         AssignsCalling(v, w)
  PROVE  Sane(w, b)
<1>1. FreeClient(w)
  BY DEF Sane, FreeClient, AssignsCalling
<1>2. KeysComing(w)
  BY DEF Sane, KeysComing, AssignsCalling
<1>3. ~ Has(w.up, Unborn(b)) /\ ~ Has(w.down, Unborn(b))
  BY UnbornLess DEF Sane, AssignsCalling
<1>4. w.call <= b
  BY DEF Sane, ViewType, AssignsCalling
<1>5. QED BY <1>1, <1>2, <1>3, <1>4 DEF Sane

LEMMA AcceptsCallAgrees ==
  ASSUME NEW f, NEW c, NEW v, NEW w, NEW m, ViewType(v), ClientAgrees(v, c, f),
         AcceptsCall(v, w, m), v.state = "RECEIVEDCALL"
  PROVE  ClientAgrees(w, c, f) /\ Moves(v, w)
<1>1. /\ m \notin PublicKey /\ m \notin SecretKey /\ m \notin Login /\ m \notin Freeing
      /\ \A k : m \notin Token(k) /\ m \notin Answered(k) /\ m \notin Asked(k)
                  /\ m \notin From(k) /\ (m \in Accepted(k) <=> m.call = k)
                  /\ m \notin Off(k)
  BY Kinds DEF AcceptsCall, UpGets, Grows, TokenOps, Errors
<1>2. CalledOnce(w, c, f)
  BY <1>1 DEF CalledOnce, ClientAgrees, AcceptsCall, UpGets, Grows
<1>3. Roles(w, c, f)
  BY <1>1 DEF Roles, InCall, ClientAgrees, AcceptsCall, UpGets, Grows
<1>4. Accepts(w)
  BY <1>1 DEF Accepts, ClientAgrees, AcceptsCall, UpGets, Grows
<1>5. ASSUME w.live  PROVE Served(w)
  <2>0. Served(v)
    BY <1>5 DEF ClientAgrees, AcceptsCall
  <2>1. OffIsLast(w)
    BY <1>5, <1>1, <2>0 DEF OffIsLast, Served, AcceptsCall, UpGets, Grows
  <2>2. CalledByServer(w)
    BY <1>5, <1>1, <2>0 DEF CalledByServer, Served, AcceptsCall, UpGets, Grows
  <2>3. OffByServer(w)
    BY <1>5, <1>1, <2>0 DEF OffByServer, Served, AcceptsCall, UpGets, Grows
  <2>4. ClientInCall(w)
    BY <1>5, <1>1, <2>0 DEF ClientInCall, Served, LogsIn, InCall, ClientAgrees, Roles, AcceptsCall, UpGets, Grows
  <2>5. ServerInCall(w)
    BY <1>5, <1>1, <2>0 DEF ServerInCall, Served, Participates, LogsIn, InCall, ViewType, AcceptsCall, UpGets, Grows
  <2>6. AsksInCall(w)
    BY <1>5, <1>1, <2>0 DEF AsksInCall, Served, Participates, LogsIn, InCall, AcceptsCall, UpGets, Grows
  <2>7. QED BY <2>1, <2>2, <2>3, <2>4, <2>5, <2>6 DEF Served
<1>6. KeepsQuestions(v, w)
  BY <1>1 DEF KeepsQuestions, Calls, AcceptsCall, UpGets, Grows
<1>7. HearsNothingNew(v, w)
  BY <1>1 DEF HearsNothingNew, Calls, AcceptsCall, UpGets, Grows
<1>8. MovesOn(v, w)
  BY <1>1 DEF MovesOn, Calls, AcceptsCall, UpGets, Grows
<1>9. KeepsConsent(v, w)
  BY <1>1 DEF KeepsConsent, Calls, Consents, AcceptsCall, UpGets, Grows
<1>10. ConsentIsHeard(v, w)
  BY <1>1 DEF ConsentIsHeard, Calls, Consents, LogsIn, AcceptsCall, UpGets, Grows
<1>11. QED BY <1>2, <1>3, <1>4, <1>5, <1>6, <1>7, <1>8, <1>9, <1>10 DEF ClientAgrees, Moves

LEMMA AcceptsCallSane ==
  ASSUME NEW v, NEW w, NEW m, NEW a \in Nat, NEW b \in Nat, a <= b, ViewType(v),
         Sane(v, a), AcceptsCall(v, w, m)
  PROVE  Sane(w, b)
<1>1. /\ m \in Sent /\ m \notin PublicKey /\ m \notin SecretKey
  BY Kinds DEF AcceptsCall, UpGets, Grows
<1>2. m \notin Unborn(b)
  BY <1>1, SentFields DEF Unborn, BeginOps, Errors, Sane, AcceptsCall, UpGets, Grows
<1>3. FreeClient(w)
  BY DEF Sane, FreeClient, AcceptsCall
<1>4. KeysComing(w)
  BY <1>1, <1>2 DEF Sane, KeysComing, AcceptsCall, UpGets, Grows
<1>5. ~ Has(w.up, Unborn(b)) /\ ~ Has(w.down, Unborn(b))
  BY <1>1, <1>2, UnbornLess DEF Sane, AcceptsCall, UpGets, Grows
<1>6. w.call <= b
  BY <1>1, <1>2 DEF Sane, ViewType, AcceptsCall, UpGets, Grows
<1>7. QED BY <1>3, <1>4, <1>5, <1>6 DEF Sane

LEMMA HangsUpAgrees ==
  ASSUME NEW f, NEW c, NEW v, NEW w, NEW m, ViewType(v), ClientAgrees(v, c, f),
         HangsUp(v, w, m)
  PROVE  ClientAgrees(w, c, f) /\ Moves(v, w)
<1>1. /\ m \notin PublicKey /\ m \notin SecretKey /\ m \notin Login /\ m \notin Freeing
      /\ \A k : m \notin Token(k) /\ m \notin Answered(k) /\ m \notin Asked(k)
                  /\ m \notin From(k) /\ m \notin Accepted(k)
                  /\ (m \in Off(k) <=> m.call = k)
  BY Kinds DEF HangsUp, UpGets, Grows, TokenOps, Errors
<1>2. CalledOnce(w, c, f)
  BY <1>1 DEF CalledOnce, ClientAgrees, HangsUp, UpGets, Grows
<1>3. Roles(w, c, f)
  BY <1>1 DEF Roles, InCall, ClientAgrees, HangsUp, UpGets, Grows
<1>4. Accepts(w)
  BY <1>1 DEF Accepts, ClientAgrees, HangsUp, UpGets, Grows
<1>5. ASSUME w.live  PROVE Served(w)
  <2>0. Served(v)
    BY <1>5 DEF ClientAgrees, HangsUp
  <2>1. OffIsLast(w)
    BY <1>5, <1>1, <2>0 DEF OffIsLast, Served, ClientAgrees, CalledOnce, HangsUp, UpGets, Grows
  <2>2. CalledByServer(w)
    BY <1>5, <1>1, <2>0 DEF CalledByServer, Served, HangsUp, UpGets, Grows
  <2>3. OffByServer(w)
    BY <1>5, <1>1, <2>0 DEF OffByServer, Served, HangsUp, UpGets, Grows
  <2>4. ClientInCall(w)
    BY <1>5, <1>1, <2>0 DEF ClientInCall, Served, LogsIn, InCall, ClientAgrees, Roles, HangsUp, UpGets, Grows
  <2>5. ServerInCall(w)
    BY <1>5, <1>1, <2>0 DEF ServerInCall, Served, Participates, LogsIn, InCall, ViewType, HangsUp, UpGets, Grows
  <2>6. AsksInCall(w)
    BY <1>5, <1>1, <2>0 DEF AsksInCall, Served, Participates, LogsIn, InCall, HangsUp, UpGets, Grows
  <2>7. QED BY <2>1, <2>2, <2>3, <2>4, <2>5, <2>6 DEF Served
<1>6. KeepsQuestions(v, w)
  BY <1>1 DEF KeepsQuestions, Calls, HangsUp, UpGets, Grows
<1>7. HearsNothingNew(v, w)
  BY <1>1 DEF HearsNothingNew, Calls, HangsUp, UpGets, Grows
<1>8. MovesOn(v, w)
  BY <1>1 DEF MovesOn, Calls, HangsUp, UpGets, Grows
<1>9. KeepsConsent(v, w)
  BY <1>1 DEF KeepsConsent, Calls, Consents, HangsUp, UpGets, Grows
<1>10. ConsentIsHeard(v, w)
  BY <1>1 DEF ConsentIsHeard, Calls, Consents, LogsIn, HangsUp, UpGets, Grows
<1>11. QED BY <1>2, <1>3, <1>4, <1>5, <1>6, <1>7, <1>8, <1>9, <1>10 DEF ClientAgrees, Moves

LEMMA HangsUpSane ==
  ASSUME NEW v, NEW w, NEW m, NEW a \in Nat, NEW b \in Nat, a <= b, ViewType(v),
         Sane(v, a), HangsUp(v, w, m)
  PROVE  Sane(w, b)
<1>1. /\ m \in Sent /\ m \notin PublicKey /\ m \notin SecretKey
  BY Kinds DEF HangsUp, UpGets, Grows
<1>2. m \notin Unborn(b)
  BY <1>1, SentFields DEF Unborn, BeginOps, Errors, Sane, HangsUp, UpGets, Grows
<1>3. FreeClient(w)
  BY DEF Sane, FreeClient, HangsUp
<1>4. KeysComing(w)
  BY <1>1, <1>2 DEF Sane, KeysComing, HangsUp, UpGets, Grows
<1>5. ~ Has(w.up, Unborn(b)) /\ ~ Has(w.down, Unborn(b))
  BY <1>1, <1>2, UnbornLess DEF Sane, HangsUp, UpGets, Grows
<1>6. w.call <= b
  BY <1>1, <1>2 DEF Sane, ViewType, HangsUp, UpGets, Grows
<1>7. QED BY <1>3, <1>4, <1>5, <1>6 DEF Sane

LEMMA PausesAgrees ==
  ASSUME NEW f, NEW c, NEW v, NEW w, NEW m, ViewType(v), ClientAgrees(v, c, f),
         Pauses(v, w, m)
  PROVE  ClientAgrees(w, c, f) /\ Moves(v, w)
<1>1. /\ m \notin PublicKey /\ m \notin SecretKey /\ m \notin Login /\ m \in Freeing
      /\ \A k : m \notin Token(k) /\ m \notin Answered(k) /\ m \notin Asked(k)
                  /\ m \notin From(k) /\ m \notin Accepted(k) /\ m \notin Off(k)
  BY Kinds DEF Pauses, UpGets, Grows, TokenOps, Errors
<1>2. CalledOnce(w, c, f)
  BY <1>1 DEF CalledOnce, ClientAgrees, Pauses, UpGets, Grows
<1>3. Roles(w, c, f)
  BY <1>1 DEF Roles, InCall, ClientAgrees, Pauses, UpGets, Grows
<1>4. Accepts(w)
  BY <1>1 DEF Accepts, ClientAgrees, Pauses, UpGets, Grows
<1>5. ASSUME w.live  PROVE Served(w)
  <2>0. Served(v)
    BY <1>5 DEF ClientAgrees, Pauses
  <2>1. OffIsLast(w)
    BY <1>5, <1>1, <2>0 DEF OffIsLast, Served, Pauses, UpGets, Grows
  <2>2. CalledByServer(w)
    BY <1>5, <1>1, <2>0 DEF CalledByServer, Served, Pauses, UpGets, Grows
  <2>3. OffByServer(w)
    BY <1>5, <1>1, <2>0 DEF OffByServer, Served, Pauses, UpGets, Grows
  <2>4. ClientInCall(w)
    BY <1>5, <1>1, <2>0 DEF ClientInCall, Served, LogsIn, InCall, ClientAgrees, Roles, Pauses, UpGets, Grows
  <2>5. ServerInCall(w)
    BY <1>5, <1>1, <2>0 DEF ServerInCall, Served, Participates, LogsIn, InCall, ViewType, Pauses, UpGets, Grows
  <2>6. AsksInCall(w)
    BY <1>5, <1>1, <2>0 DEF AsksInCall, Served, Participates, LogsIn, InCall, Pauses, UpGets, Grows
  <2>7. QED BY <2>1, <2>2, <2>3, <2>4, <2>5, <2>6 DEF Served
<1>6. KeepsQuestions(v, w)
  BY <1>1 DEF KeepsQuestions, Calls, Pauses, UpGets, Grows
<1>7. HearsNothingNew(v, w)
  BY <1>1 DEF HearsNothingNew, Calls, Pauses, UpGets, Grows
<1>8. MovesOn(v, w)
  BY <1>1 DEF MovesOn, Calls, Pauses, UpGets, Grows
<1>9. KeepsConsent(v, w)
  BY <1>1 DEF KeepsConsent, Calls, Consents, Pauses, UpGets, Grows
<1>10. ConsentIsHeard(v, w)
  BY <1>1 DEF ConsentIsHeard, Calls, Consents, LogsIn, Pauses, UpGets, Grows
<1>11. QED BY <1>2, <1>3, <1>4, <1>5, <1>6, <1>7, <1>8, <1>9, <1>10 DEF ClientAgrees, Moves

LEMMA PausesSane ==
  ASSUME NEW v, NEW w, NEW m, NEW a \in Nat, NEW b \in Nat, a <= b, ViewType(v),
         Sane(v, a), Pauses(v, w, m)
  PROVE  Sane(w, b)
<1>1. /\ m \in Sent /\ m \notin PublicKey /\ m \notin SecretKey
  BY Kinds DEF Pauses, UpGets, Grows
<1>2. m \notin Unborn(b)
  BY <1>1, SentFields DEF Unborn, BeginOps, Errors, Sane, Pauses, UpGets, Grows
<1>3. FreeClient(w)
  BY DEF Sane, FreeClient, Pauses
<1>4. KeysComing(w)
  BY <1>1, <1>2 DEF Sane, KeysComing, Pauses, UpGets, Grows
<1>5. ~ Has(w.up, Unborn(b)) /\ ~ Has(w.down, Unborn(b))
  BY <1>1, <1>2, UnbornLess DEF Sane, Pauses, UpGets, Grows
<1>6. w.call <= b
  BY <1>1, <1>2 DEF Sane, ViewType, Pauses, UpGets, Grows
<1>7. QED BY <1>3, <1>4, <1>5, <1>6 DEF Sane

LEMMA ResumesAgrees ==
  ASSUME NEW f, NEW c, NEW v, NEW w, ViewType(v), ClientAgrees(v, c, f),
         Resumes(v, w), v.state = "ENDED"
  PROVE  ClientAgrees(w, c, f) /\ Moves(v, w)
<1>1. CalledOnce(w, c, f)
  BY DEF CalledOnce, ClientAgrees, Resumes
<1>2. Roles(w, c, f)
  BY DEF Roles, InCall, ClientAgrees, Resumes
<1>3. Accepts(w)
  BY DEF Accepts, ClientAgrees, Resumes
<1>4. ASSUME w.live  PROVE Served(w)
  <2>0. Served(v)
    BY <1>4 DEF ClientAgrees, Resumes
  <2>1. OffIsLast(w)
    BY <1>4, <2>0 DEF OffIsLast, Served, Resumes
  <2>2. CalledByServer(w)
    BY <1>4, <2>0 DEF CalledByServer, Served, Resumes
  <2>3. OffByServer(w)
    BY <1>4, <2>0 DEF OffByServer, Served, Resumes
  <2>4. ClientInCall(w)
    BY <1>4, <2>0 DEF ClientInCall, Served, LogsIn, InCall, ClientAgrees, Roles, Resumes
  <2>5. ServerInCall(w)
    BY <1>4, <2>0 DEF ServerInCall, Served, Participates, LogsIn, InCall, ViewType, Resumes
  <2>6. AsksInCall(w)
    BY <1>4, <2>0 DEF AsksInCall, Served, Participates, LogsIn, InCall, Resumes
  <2>7. QED BY <2>1, <2>2, <2>3, <2>4, <2>5, <2>6 DEF Served
<1>5. KeepsQuestions(v, w)
  BY DEF KeepsQuestions, Calls, Resumes
<1>6. HearsNothingNew(v, w)
  BY DEF HearsNothingNew, Calls, Resumes
<1>7. MovesOn(v, w)
  BY DEF MovesOn, Calls, Resumes
<1>8. KeepsConsent(v, w)
  BY DEF KeepsConsent, Calls, Consents, Resumes
<1>9. ConsentIsHeard(v, w)
  BY DEF ConsentIsHeard, Calls, Consents, LogsIn, Resumes
<1>10. QED BY <1>1, <1>2, <1>3, <1>4, <1>5, <1>6, <1>7, <1>8, <1>9 DEF ClientAgrees, Moves

LEMMA ResumesSane ==
  ASSUME NEW v, NEW w, NEW a \in Nat, NEW b \in Nat, a <= b, ViewType(v), Sane(v, a),
         Resumes(v, w)
  PROVE  Sane(w, b)
<1>1. FreeClient(w)
  BY DEF Sane, FreeClient, Resumes
<1>2. KeysComing(w)
  BY DEF Sane, KeysComing, Resumes
<1>3. ~ Has(w.up, Unborn(b)) /\ ~ Has(w.down, Unborn(b))
  BY UnbornLess DEF Sane, Resumes
<1>4. w.call <= b
  BY DEF Sane, ViewType, Resumes
<1>5. QED BY <1>1, <1>2, <1>3, <1>4 DEF Sane

LEMMA DropsAgrees ==
  ASSUME NEW f, NEW c, NEW v, NEW w, ViewType(v), ClientAgrees(v, c, f), Drops(v, w),
         KeysComing(v)
  PROVE  ClientAgrees(w, c, f) /\ Moves(v, w)
<1>1. v.live => LogsIn(v) /\ LogsIn(w)
  BY KeysLogIn DEF KeysComing, LogsIn, ViewType, Drops
<1>2. CalledOnce(w, c, f)
  BY <1>1 DEF CalledOnce, ClientAgrees, Drops, Within
<1>3. Roles(w, c, f)
  BY <1>1 DEF Roles, InCall, ClientAgrees, Drops, Within
<1>4. Accepts(w)
  BY <1>1 DEF Accepts, ClientAgrees, Drops, Within
<1>5. ASSUME w.live  PROVE Served(w)
  <2>0. Served(v)
    BY <1>5 DEF ClientAgrees, Drops
  <2>1. OffIsLast(w)
    BY <1>5, <1>1, <2>0 DEF OffIsLast, Served, Drops, Within
  <2>2. CalledByServer(w)
    BY <1>5, <1>1, <2>0 DEF CalledByServer, Served, Drops, Within
  <2>3. OffByServer(w)
    BY <1>5, <1>1, <2>0 DEF OffByServer, Served, Drops, Within
  <2>4. ClientInCall(w)
    BY <1>5, <1>1, <2>0 DEF ClientInCall, Served, LogsIn, ClientAgrees, Roles, Drops, Within
  <2>5. ServerInCall(w)
    BY <1>5, <1>1, <2>0 DEF ServerInCall, Served, Participates, LogsIn, Drops, Within
  <2>6. AsksInCall(w)
    BY <1>5, <1>1, <2>0 DEF AsksInCall, Served, Participates, LogsIn, Drops, Within
  <2>7. QED BY <2>1, <2>2, <2>3, <2>4, <2>5, <2>6 DEF Served
<1>6. KeepsQuestions(v, w)
  BY <1>1 DEF KeepsQuestions, Calls, Drops, Within
<1>7. HearsNothingNew(v, w)
  BY <1>1 DEF HearsNothingNew, Calls, Drops, Within
<1>8. MovesOn(v, w)
  BY <1>1 DEF MovesOn, Calls, Drops, Within
<1>9. KeepsConsent(v, w)
  BY <1>1 DEF KeepsConsent, Calls, Consents, Drops, Within
<1>10. ConsentIsHeard(v, w)
  BY <1>1 DEF ConsentIsHeard, Calls, Consents, LogsIn, Drops, Within
<1>11. QED BY <1>2, <1>3, <1>4, <1>5, <1>6, <1>7, <1>8, <1>9, <1>10 DEF ClientAgrees, Moves

LEMMA DropsSane ==
  ASSUME NEW v, NEW w, NEW a \in Nat, NEW b \in Nat, a <= b, ViewType(v), Sane(v, a),
         Drops(v, w)
  PROVE  Sane(w, b)
<1>1. FreeClient(w)
  BY DEF Sane, FreeClient, Drops
<1>2. KeysComing(w)
  BY DEF Sane, KeysComing, Drops, Within
<1>3. ~ Has(w.up, Unborn(b)) /\ ~ Has(w.down, Unborn(b))
  BY UnbornLess DEF Sane, Drops, Within
<1>4. w.call <= b
  BY DEF Sane, ViewType, Drops, Within
<1>5. QED BY <1>1, <1>2, <1>3, <1>4 DEF Sane

LEMMA LogsInFurtherAgrees ==
  ASSUME NEW f, NEW c, NEW v, NEW w, NEW m, NEW n, ViewType(v),
         ClientAgrees(v, c, f), LogsInFurther(v, w, m, n)
  PROVE  ClientAgrees(w, c, f) /\ Moves(v, w)
<1>1. /\ m \in Login /\ m \notin Freeing
      /\ \A k : m \notin Token(k) /\ m \notin Answered(k) /\ m \notin Asked(k)
                  /\ m \notin From(k) /\ m \notin Accepted(k) /\ m \notin Off(k)
      /\ n \notin PublicKey /\ n \in Login /\ n \notin Freeing
      /\ \A k : n \notin Token(k) /\ n \notin Answered(k) /\ n \notin Asked(k)
                  /\ n \notin From(k) /\ n \notin Accepted(k) /\ n \notin Off(k)
  BY Kinds DEF LogsInFurther, Shrinks, Grows, TokenOps, Errors
<1>2. CalledOnce(w, c, f)
  BY <1>1 DEF CalledOnce, ClientAgrees, LogsInFurther, Shrinks, Grows
<1>3. Roles(w, c, f)
  BY <1>1 DEF Roles, InCall, ClientAgrees, LogsInFurther, Shrinks, Grows
<1>4. Accepts(w)
  BY <1>1 DEF Accepts, ClientAgrees, LogsInFurther, Shrinks, Grows
<1>5. ASSUME w.live  PROVE Served(w)
  <2>0. Served(v)
    BY <1>5 DEF ClientAgrees, LogsInFurther
  <2>1. OffIsLast(w)
    BY <1>5, <1>1, <2>0 DEF OffIsLast, Served, LogsInFurther, Shrinks, Grows
  <2>2. CalledByServer(w)
    BY <1>5, <1>1, <2>0 DEF CalledByServer, Served, LogsInFurther, Shrinks, Grows
  <2>3. OffByServer(w)
    BY <1>5, <1>1, <2>0 DEF OffByServer, Served, LogsInFurther, Shrinks, Grows
  <2>4. ClientInCall(w)
    BY <1>5, <1>1, <2>0 DEF ClientInCall, Served, LogsIn, ClientAgrees, Roles, LogsInFurther, Shrinks, Grows
  <2>5. ServerInCall(w)
    BY <1>5, <1>1, <2>0 DEF ServerInCall, Served, Participates, LogsIn, LogsInFurther, Shrinks, Grows
  <2>6. AsksInCall(w)
    BY <1>5, <1>1, <2>0 DEF AsksInCall, Served, Participates, LogsIn, LogsInFurther, Shrinks, Grows
  <2>7. QED BY <2>1, <2>2, <2>3, <2>4, <2>5, <2>6 DEF Served
<1>6. KeepsQuestions(v, w)
  BY <1>1 DEF KeepsQuestions, Calls, LogsInFurther, Shrinks, Grows
<1>7. HearsNothingNew(v, w)
  BY <1>1 DEF HearsNothingNew, Calls, LogsInFurther, Shrinks, Grows
<1>8. MovesOn(v, w)
  BY <1>1 DEF MovesOn, Calls, LogsInFurther, Shrinks, Grows
<1>9. KeepsConsent(v, w)
  BY <1>1 DEF KeepsConsent, Calls, Consents, LogsInFurther, Shrinks, Grows
<1>10. ConsentIsHeard(v, w)
  BY <1>1 DEF ConsentIsHeard, Calls, Consents, LogsIn, LogsInFurther, Shrinks, Grows
<1>11. QED BY <1>2, <1>3, <1>4, <1>5, <1>6, <1>7, <1>8, <1>9, <1>10 DEF ClientAgrees, Moves

LEMMA LogsInFurtherSane ==
  ASSUME NEW v, NEW w, NEW m, NEW n, NEW a \in Nat, NEW b \in Nat, a <= b,
         ViewType(v), Sane(v, a), LogsInFurther(v, w, m, n)
  PROVE  Sane(w, b)
<1>1. /\ m \in Sent
      /\ n \in Sent /\ n \notin PublicKey
  BY Kinds DEF LogsInFurther, Shrinks, Grows
<1>2. m \notin Unborn(b)
  BY <1>1, SentFields DEF Unborn, BeginOps, Errors, Sane, LogsInFurther, Shrinks, Grows
<1>3. n \notin Unborn(b)
  BY <1>1, SentFields DEF Unborn, BeginOps, Errors, Sane, LogsInFurther, Shrinks, Grows
<1>4. n \in SecretKey <=> m.op = "PUT_PUBLIC_KEY"
  BY Kinds DEF LogsInFurther
<1>5. FreeClient(w)
  BY DEF Sane, FreeClient, LogsInFurther
<1>6. KeysComing(w)
  BY <1>1, <1>2, <1>3, <1>4 DEF Sane, KeysComing, LogsInFurther, Shrinks, Grows
<1>7. ~ Has(w.up, Unborn(b)) /\ ~ Has(w.down, Unborn(b))
  BY <1>1, <1>2, <1>3, <1>4, UnbornLess DEF Sane, LogsInFurther, Shrinks, Grows
<1>8. w.call <= b
  BY <1>1, <1>2, <1>3, <1>4 DEF Sane, ViewType, LogsInFurther, Shrinks, Grows
<1>9. QED BY <1>5, <1>6, <1>7, <1>8 DEF Sane

LEMMA IsLoggedInAgrees ==
  ASSUME NEW f, NEW c, NEW v, NEW w, NEW m, NEW n, ViewType(v),
         ClientAgrees(v, c, f), IsLoggedIn(v, w, m, n),
         v.at \notin {"callTo", "callAccept"}
  PROVE  ClientAgrees(w, c, f) /\ Moves(v, w)
<1>1. /\ m \notin PublicKey /\ m \notin SecretKey /\ m \in Login /\ m \notin Freeing
      /\ \A k : m \notin Token(k) /\ m \notin Answered(k) /\ m \notin Asked(k)
                  /\ m \notin From(k) /\ m \notin Accepted(k) /\ m \notin Off(k)
      /\ n \notin PublicKey /\ n \notin SecretKey /\ n \notin Login /\ n \in Freeing
      /\ \A k : n \notin Token(k) /\ n \notin Answered(k) /\ n \notin Asked(k)
                  /\ n \notin From(k) /\ n \notin Accepted(k) /\ n \notin Off(k)
  BY Kinds DEF IsLoggedIn, Shrinks, Grows, TokenOps, Errors
<1>2. CalledOnce(w, c, f)
  BY <1>1 DEF CalledOnce, ClientAgrees, IsLoggedIn, Shrinks, Grows
<1>3. Roles(w, c, f)
  BY <1>1 DEF Roles, InCall, ClientAgrees, IsLoggedIn, Shrinks, Grows
<1>4. Accepts(w)
  BY <1>1 DEF Accepts, ClientAgrees, IsLoggedIn, Shrinks, Grows
<1>5. ASSUME w.live  PROVE Served(w)
  <2>0. Served(v)
    BY <1>5 DEF ClientAgrees, IsLoggedIn
  <2>1. OffIsLast(w)
    BY <1>5, <1>1, <2>0 DEF OffIsLast, Served, IsLoggedIn, Shrinks, Grows
  <2>2. CalledByServer(w)
    BY <1>5, <1>1, <2>0 DEF CalledByServer, Served, IsLoggedIn, Shrinks, Grows
  <2>3. OffByServer(w)
    BY <1>5, <1>1, <2>0 DEF OffByServer, Served, IsLoggedIn, Shrinks, Grows
  <2>4. ClientInCall(w)
    BY <1>5, <1>1, <2>0 DEF ClientInCall, Served, LogsIn, InCall, ClientAgrees, Roles, IsLoggedIn, Shrinks, Grows
  <2>5. ServerInCall(w)
    BY <1>5, <1>1, <2>0 DEF ServerInCall, Served, Participates, LogsIn, InCall, ViewType, IsLoggedIn, Shrinks, Grows
  <2>6. AsksInCall(w)
    BY <1>5, <1>1, <2>0 DEF AsksInCall, Served, Participates, LogsIn, InCall, IsLoggedIn, Shrinks, Grows
  <2>7. QED BY <2>1, <2>2, <2>3, <2>4, <2>5, <2>6 DEF Served
<1>6. KeepsQuestions(v, w)
  BY <1>1 DEF KeepsQuestions, Calls, IsLoggedIn, Shrinks, Grows
<1>7. HearsNothingNew(v, w)
  BY <1>1 DEF HearsNothingNew, Calls, IsLoggedIn, Shrinks, Grows
<1>8. MovesOn(v, w)
  BY <1>1 DEF MovesOn, Calls, IsLoggedIn, Shrinks, Grows
<1>9. KeepsConsent(v, w)
  BY <1>1 DEF KeepsConsent, Calls, Consents, IsLoggedIn, Shrinks, Grows
<1>10. ConsentIsHeard(v, w)
  BY <1>1 DEF ConsentIsHeard, Calls, Consents, LogsIn, IsLoggedIn, Shrinks, Grows
<1>11. QED BY <1>2, <1>3, <1>4, <1>5, <1>6, <1>7, <1>8, <1>9, <1>10 DEF ClientAgrees, Moves

LEMMA IsLoggedInSane ==
  ASSUME NEW v, NEW w, NEW m, NEW n, NEW a \in Nat, NEW b \in Nat, a <= b,
         ViewType(v), Sane(v, a), IsLoggedIn(v, w, m, n)
  PROVE  Sane(w, b)
<1>1. /\ m \in Sent /\ m \notin PublicKey /\ m \notin SecretKey
      /\ n \in Sent /\ n \notin PublicKey /\ n \notin SecretKey
  BY Kinds DEF IsLoggedIn, Shrinks, Grows
<1>2. m \notin Unborn(b)
  BY <1>1, SentFields DEF Unborn, BeginOps, Errors, Sane, IsLoggedIn, Shrinks, Grows
<1>3. n \notin Unborn(b)
  BY <1>1, SentFields DEF Unborn, BeginOps, Errors, Sane, IsLoggedIn, Shrinks, Grows
<1>4. FreeClient(w)
  BY DEF Sane, FreeClient, IsLoggedIn
<1>5. KeysComing(w)
  BY <1>1, <1>2, <1>3 DEF Sane, KeysComing, IsLoggedIn, Shrinks, Grows
<1>6. ~ Has(w.up, Unborn(b)) /\ ~ Has(w.down, Unborn(b))
  BY <1>1, <1>2, <1>3, UnbornLess DEF Sane, IsLoggedIn, Shrinks, Grows
<1>7. w.call <= b
  BY <1>1, <1>2, <1>3 DEF Sane, ViewType, IsLoggedIn, Shrinks, Grows
<1>8. QED BY <1>4, <1>5, <1>6, <1>7 DEF Sane

LEMMA HearsOffAgrees ==
  ASSUME NEW f, NEW c, NEW v, NEW w, NEW m, ViewType(v), ClientAgrees(v, c, f),
         HearsOff(v, w, m), m.call = v.call, v.live => TokenRules(v)
  PROVE  ClientAgrees(w, c, f) /\ Moves(v, w)
<1>1. /\ m \notin PublicKey /\ m \notin SecretKey /\ m \notin Login /\ m \notin Freeing
      /\ \A k : m \notin Token(k) /\ m \notin Answered(k) /\ m \notin Asked(k)
                  /\ m \notin From(k) /\ m \notin Accepted(k)
                  /\ (m \in Off(k) <=> m.call = k)
  BY Kinds DEF HearsOff, Shrinks, TokenOps, Errors
<1>2. CalledOnce(w, c, f)
  BY <1>1 DEF CalledOnce, ClientAgrees, HearsOff, Shrinks, TokenRules
<1>3. Roles(w, c, f)
  BY <1>1 DEF Roles, InCall, ClientAgrees, HearsOff, Shrinks, TokenRules
<1>4. Accepts(w)
  BY <1>1 DEF Accepts, ClientAgrees, HearsOff, Shrinks, TokenRules
<1>5. ASSUME w.live  PROVE Served(w)
  <2>0. Served(v)
    BY <1>5 DEF ClientAgrees, HearsOff
  <2>1. OffIsLast(w)
    BY <1>5, <1>1, <2>0 DEF OffIsLast, Served, HearsOff, Shrinks, TokenRules
  <2>2. CalledByServer(w)
    BY <1>5, <1>1, <2>0 DEF CalledByServer, Served, HearsOff, Shrinks, TokenRules
  <2>3. OffByServer(w)
    BY <1>5, <1>1, <2>0 DEF OffByServer, Served, HearsOff, Shrinks, TokenRules
  <2>4. ClientInCall(w)
    BY <1>5, <1>1, <2>0 DEF ClientInCall, Served, LogsIn, InCall, ClientAgrees, Roles, HearsOff, Shrinks, TokenRules
  <2>5. ServerInCall(w)
    BY <1>5, <1>1, <2>0 DEF OffByServer, Served, ViewType, Shrinks, HearsOff, ServerInCall,
       Participates, LogsIn
  <2>6. AsksInCall(w)
    BY <1>5, <1>1, AskedNone, <2>0 DEF TokenRules, Shrinks, HearsOff, AsksInCall, Served,
       Participates, LogsIn
  <2>7. QED BY <2>1, <2>2, <2>3, <2>4, <2>5, <2>6 DEF Served
<1>6. KeepsQuestions(v, w)
  BY <1>1 DEF KeepsQuestions, Calls, HearsOff, Shrinks, TokenRules
<1>7. HearsNothingNew(v, w)
  BY <1>1 DEF HearsNothingNew, Calls, HearsOff, Shrinks, TokenRules
<1>8. MovesOn(v, w)
  BY <1>1 DEF MovesOn, Calls, HearsOff, Shrinks, TokenRules
<1>9. KeepsConsent(v, w)
  BY <1>1 DEF KeepsConsent, Calls, Consents, HearsOff, Shrinks, TokenRules
<1>10. ConsentIsHeard(v, w)
  BY <1>1 DEF ConsentIsHeard, Calls, Consents, LogsIn, HearsOff, Shrinks, TokenRules
<1>11. QED BY <1>2, <1>3, <1>4, <1>5, <1>6, <1>7, <1>8, <1>9, <1>10 DEF ClientAgrees, Moves

LEMMA HearsOffSane ==
  ASSUME NEW v, NEW w, NEW m, NEW a \in Nat, NEW b \in Nat, a <= b, ViewType(v),
         Sane(v, a), HearsOff(v, w, m)
  PROVE  Sane(w, b)
<1>1. /\ m \in Sent /\ m \notin PublicKey /\ m \notin SecretKey
  BY Kinds DEF HearsOff, Shrinks
<1>2. m \notin Unborn(b)
  BY <1>1, SentFields DEF Unborn, BeginOps, Errors, Sane, HearsOff, Shrinks, TokenRules
<1>3. FreeClient(w)
  BY DEF Sane, FreeClient, HearsOff
<1>4. KeysComing(w)
  BY <1>1, <1>2 DEF Sane, KeysComing, HearsOff, Shrinks, TokenRules
<1>5. ~ Has(w.up, Unborn(b)) /\ ~ Has(w.down, Unborn(b))
  BY <1>1, <1>2, UnbornLess DEF Sane, HearsOff, Shrinks, TokenRules
<1>6. w.call <= b
  BY <1>1, <1>2 DEF Sane, ViewType, HearsOff, Shrinks, TokenRules
<1>7. QED BY <1>3, <1>4, <1>5, <1>6 DEF Sane

LEMMA HearsErrorAgrees ==
  ASSUME NEW f, NEW c, NEW v, NEW w, NEW m, ViewType(v), ClientAgrees(v, c, f),
         HearsError(v, w, m), m.call = v.call, v.live => TokenRules(v)
  PROVE  ClientAgrees(w, c, f) /\ Moves(v, w)
<1>1. /\ m \notin PublicKey /\ m \notin SecretKey /\ m \notin Login /\ m \notin Freeing
      /\ \A k : (m \in Token(k) <=> m.call = k) /\ m \notin Answered(k)
                  /\ m \notin Asked(k) /\ m \notin From(k) /\ m \notin Accepted(k)
                  /\ m \notin Off(k)
  BY Kinds DEF HearsError, Shrinks, TokenOps, Errors
<1>2. v.call # 0 /\ (v.live => ~ Has(v.up, Token(v.call)) /\ v.srv # v.call)
  BY <1>1 DEF ClientAgrees, Roles, InCall, TokenRules, Shrinks, ViewType, HearsError
<1>3. CalledOnce(w, c, f)
  BY <1>1, <1>2 DEF CalledOnce, ClientAgrees, HearsError, Shrinks, TokenRules
<1>4. Roles(w, c, f)
  BY <1>1, <1>2 DEF Roles, InCall, ClientAgrees, HearsError, Shrinks, TokenRules
<1>5. Accepts(w)
  BY <1>1, <1>2 DEF Accepts, ClientAgrees, HearsError, Shrinks, TokenRules
<1>6. ASSUME w.live  PROVE Served(w)
  <2>0. Served(v)
    BY <1>6 DEF ClientAgrees, HearsError
  <2>1. OffIsLast(w)
    BY <1>6, <1>1, <1>2, <2>0 DEF OffIsLast, Served, HearsError, Shrinks, TokenRules
  <2>2. CalledByServer(w)
    BY <1>6, <1>1, <1>2, <2>0 DEF CalledByServer, Served, HearsError, Shrinks, TokenRules
  <2>3. OffByServer(w)
    BY <1>6, <1>1, <1>2, <2>0 DEF OffByServer, Served, HearsError, Shrinks, TokenRules
  <2>4. ClientInCall(w)
    BY <1>6, <1>1, <1>2, <2>0 DEF ClientInCall, Served, LogsIn, InCall, ClientAgrees, Roles, HearsError, Shrinks, TokenRules
  <2>5. ServerInCall(w)
    BY <1>6, <1>1, <1>2, <2>0 DEF ServerInCall, Served, Participates, LogsIn, InCall, ViewType, HearsError, Shrinks, TokenRules
  <2>6. AsksInCall(w)
    BY <1>6, <1>1, <1>2, <2>0, AskedNone DEF AsksInCall, Served, Participates, LogsIn, InCall, HearsError, Shrinks, TokenRules
  <2>7. QED BY <2>1, <2>2, <2>3, <2>4, <2>5, <2>6 DEF Served
<1>7. KeepsQuestions(v, w)
  BY <1>1, <1>2 DEF KeepsQuestions, Calls, HearsError, Shrinks, TokenRules
<1>8. HearsNothingNew(v, w)
  BY <1>1, <1>2 DEF HearsNothingNew, Calls, HearsError, Shrinks, TokenRules
<1>9. MovesOn(v, w)
  BY <1>1, <1>2 DEF MovesOn, Calls, HearsError, Shrinks, TokenRules
<1>10. KeepsConsent(v, w)
  BY <1>1, <1>2 DEF KeepsConsent, Calls, Consents, HearsError, Shrinks, TokenRules
<1>11. ConsentIsHeard(v, w)
  BY <1>1, <1>2 DEF ConsentIsHeard, Calls, Consents, LogsIn, HearsError, Shrinks, TokenRules
<1>12. QED BY <1>3, <1>4, <1>5, <1>6, <1>7, <1>8, <1>9, <1>10, <1>11 DEF ClientAgrees, Moves

LEMMA HearsErrorSane ==
  ASSUME NEW v, NEW w, NEW m, NEW a \in Nat, NEW b \in Nat, a <= b, ViewType(v),
         Sane(v, a), HearsError(v, w, m)
  PROVE  Sane(w, b)
<1>1. /\ m \in Sent /\ m \notin PublicKey /\ m \notin SecretKey
  BY Kinds DEF HearsError, Shrinks, Errors
<1>2. m \notin Unborn(b)
  BY <1>1, SentFields DEF Unborn, BeginOps, Errors, Sane, HearsError, Shrinks, TokenRules
<1>3. FreeClient(w)
  BY DEF Sane, FreeClient, HearsError
<1>4. KeysComing(w)
  BY <1>1, <1>2 DEF Sane, KeysComing, HearsError, Shrinks, TokenRules
<1>5. ~ Has(w.up, Unborn(b)) /\ ~ Has(w.down, Unborn(b))
  BY <1>1, <1>2, UnbornLess DEF Sane, HearsError, Shrinks, TokenRules
<1>6. w.call <= b
  BY <1>1, <1>2 DEF Sane, ViewType, HearsError, Shrinks, TokenRules
<1>7. QED BY <1>3, <1>4, <1>5, <1>6 DEF Sane

LEMMA IgnoresAgrees ==
  ASSUME NEW f, NEW c, NEW v, NEW w, NEW m, ViewType(v), ClientAgrees(v, c, f),
         Ignores(v, w, m), m.op # "CALLED_FROM", m.call = 0 \/ m.call # v.call
  PROVE  ClientAgrees(w, c, f) /\ Moves(v, w)
<1>1. \A k : /\ m \notin From(k)
             /\ m \in Token(k) \/ m \in Off(k) \/ m \in Accepted(k) => m.call = k
  BY Kinds DEF Shrinks, Ignores
<1>2. CalledOnce(w, c, f)
  BY <1>1 DEF CalledOnce, ClientAgrees, Ignores, Shrinks
<1>3. Roles(w, c, f)
  BY <1>1 DEF Roles, InCall, ClientAgrees, Ignores, Shrinks
<1>4. Accepts(w)
  BY <1>1 DEF Accepts, ClientAgrees, Ignores, Shrinks
<1>5. ASSUME w.live  PROVE Served(w)
  <2>0. Served(v)
    BY <1>5 DEF ClientAgrees, Ignores
  <2>1. OffIsLast(w)
    BY <1>5, <1>1, <2>0 DEF OffIsLast, Served, Ignores, Shrinks
  <2>2. CalledByServer(w)
    BY <1>5, <1>1, <2>0 DEF CalledByServer, Served, Ignores, Shrinks
  <2>3. OffByServer(w)
    BY <1>5, <1>1, <2>0 DEF OffByServer, Served, Ignores, Shrinks
  <2>4. ClientInCall(w)
    BY <1>5, <1>1, <2>0 DEF ClientInCall, Served, LogsIn, ClientAgrees, Roles, Ignores, Shrinks
  <2>5. ServerInCall(w)
    BY <1>5, <1>1, <2>0 DEF ServerInCall, Served, Participates, LogsIn, Ignores, Shrinks
  <2>6. AsksInCall(w)
    BY <1>5, <1>1, <2>0 DEF AsksInCall, Served, Participates, LogsIn, Ignores, Shrinks
  <2>7. QED BY <2>1, <2>2, <2>3, <2>4, <2>5, <2>6 DEF Served
<1>6. KeepsQuestions(v, w)
  BY <1>1 DEF KeepsQuestions, Calls, Ignores, Shrinks
<1>7. HearsNothingNew(v, w)
  BY <1>1 DEF HearsNothingNew, Calls, Ignores, Shrinks
<1>8. MovesOn(v, w)
  BY <1>1 DEF MovesOn, Calls, Ignores, Shrinks
<1>9. KeepsConsent(v, w)
  BY <1>1 DEF KeepsConsent, Calls, Consents, Ignores, Shrinks
<1>10. ConsentIsHeard(v, w)
  BY <1>1 DEF ConsentIsHeard, Calls, Consents, LogsIn, Ignores, Shrinks
<1>11. QED BY <1>2, <1>3, <1>4, <1>5, <1>6, <1>7, <1>8, <1>9, <1>10 DEF ClientAgrees, Moves

LEMMA IgnoresSane ==
  ASSUME NEW v, NEW w, NEW m, NEW a \in Nat, NEW b \in Nat, a <= b, ViewType(v),
         Sane(v, a), Ignores(v, w, m)
  PROVE  Sane(w, b)
<1>1. m \notin PublicKey /\ m \notin SecretKey
  BY Kinds DEF Ignores, Shrinks
<1>2. FreeClient(w)
  BY DEF Sane, FreeClient, Ignores
<1>3. KeysComing(w)
  BY <1>1 DEF Sane, KeysComing, Ignores, Shrinks
<1>4. ~ Has(w.up, Unborn(b)) /\ ~ Has(w.down, Unborn(b))
  BY <1>1, UnbornLess DEF Sane, Ignores, Shrinks
<1>5. w.call <= b
  BY <1>1 DEF Sane, ViewType, Ignores, Shrinks
<1>6. QED BY <1>2, <1>3, <1>4, <1>5 DEF Sane

LEMMA IsCalledAgrees ==
  ASSUME NEW f, NEW c, NEW v, NEW w, NEW m, ViewType(v), ClientAgrees(v, c, f),
         IsCalled(v, w, m), v.state = "STARTED", m.call # 0
  PROVE  ClientAgrees(w, c, f) /\ Moves(v, w)
<1>1. /\ m \notin PublicKey /\ m \notin SecretKey /\ m \notin Login /\ m \notin Freeing
      /\ \A k : m \notin Token(k) /\ m \notin Answered(k) /\ m \notin Asked(k)
                  /\ (m \in From(k) <=> m.call = k) /\ m \notin Accepted(k)
                  /\ m \notin Off(k)
  BY Kinds DEF IsCalled, Shrinks, TokenOps, Errors
<1>2. m.call \in Nat \ {0} /\ Has(v.down, From(m.call))
  BY <1>1, SentFields DEF Shrinks, IsCalled
<1>3. f[m.call] # c /\ v.call # m.call /\ (v.live => v.srv = m.call \/ Has(w.down, Off(m.call)))
  BY <1>1, <1>2 DEF ClientAgrees, Served, CalledOnce, CalledByServer, Shrinks, IsCalled
<1>4. CalledOnce(w, c, f)
  BY <1>1, <1>2, <1>3 DEF CalledOnce, ClientAgrees, IsCalled, Shrinks
<1>5. Roles(w, c, f)
  BY <1>1, <1>2, <1>3 DEF Roles, InCall, ClientAgrees, IsCalled, Shrinks
<1>6. Accepts(w)
  BY <1>1, <1>2, <1>3 DEF Accepts, ClientAgrees, IsCalled, Shrinks
<1>7. ASSUME w.live  PROVE Served(w)
  <2>0. Served(v)
    BY <1>7 DEF ClientAgrees, IsCalled
  <2>1. OffIsLast(w)
    BY <1>7, <1>1, <1>2, <1>3, <2>0 DEF OffIsLast, Served, IsCalled, Shrinks
  <2>2. CalledByServer(w)
    BY <1>7, <1>1, <1>2, <1>3, <2>0 DEF CalledByServer, Served, IsCalled, Shrinks
  <2>3. OffByServer(w)
    BY <1>7, <1>1, <1>2, <1>3, <2>0 DEF OffByServer, Served, IsCalled, Shrinks
  <2>4. ClientInCall(w)
    BY <1>7, <1>1, <1>2, <1>3, <2>0 DEF ClientInCall, Served, LogsIn, InCall, ClientAgrees, Roles, IsCalled, Shrinks
  <2>5. ServerInCall(w)
    BY <1>7, <1>1, <1>2, <1>3, <2>0 DEF ServerInCall, Served, Participates, LogsIn, InCall, ViewType, IsCalled, Shrinks
  <2>6. AsksInCall(w)
    BY <1>7, <1>1, <1>2, <1>3, <2>0 DEF AsksInCall, Served, Participates, LogsIn, InCall, IsCalled, Shrinks
  <2>7. QED BY <2>1, <2>2, <2>3, <2>4, <2>5, <2>6 DEF Served
<1>8. KeepsQuestions(v, w)
  BY <1>1, <1>2, <1>3 DEF KeepsQuestions, Calls, IsCalled, Shrinks
<1>9. HearsNothingNew(v, w)
  BY <1>1, <1>2, <1>3 DEF HearsNothingNew, Calls, IsCalled, Shrinks
<1>10. MovesOn(v, w)
  BY <1>1, <1>2, <1>3 DEF MovesOn, Calls, IsCalled, Shrinks
<1>11. KeepsConsent(v, w)
  BY <1>1, <1>2, <1>3 DEF KeepsConsent, Calls, Consents, IsCalled, Shrinks
<1>12. ConsentIsHeard(v, w)
  BY <1>1, <1>2, <1>3 DEF ConsentIsHeard, Calls, Consents, LogsIn, ClientAgrees, Accepts, IsCalled, Shrinks
<1>13. QED BY <1>4, <1>5, <1>6, <1>7, <1>8, <1>9, <1>10, <1>11, <1>12 DEF ClientAgrees, Moves

LEMMA IsCalledSane ==
  ASSUME NEW v, NEW w, NEW m, NEW a \in Nat, NEW b \in Nat, a <= b, ViewType(v),
         Sane(v, a), IsCalled(v, w, m)
  PROVE  Sane(w, b)
<1>1. /\ m \in Sent /\ m \notin PublicKey /\ m \notin SecretKey
  BY Kinds DEF IsCalled, Shrinks
<1>2. m \notin Unborn(b)
  BY <1>1, SentFields DEF Unborn, BeginOps, Errors, Sane, IsCalled, Shrinks
<1>3. m.call <= a /\ m.call \in Nat
  BY <1>1, SentFields DEF Sane, Shrinks, IsCalled, Unborn
<1>4. FreeClient(w)
  BY DEF Sane, FreeClient, IsCalled
<1>5. KeysComing(w)
  BY <1>1, <1>2, <1>3 DEF Sane, KeysComing, IsCalled, Shrinks
<1>6. ~ Has(w.up, Unborn(b)) /\ ~ Has(w.down, Unborn(b))
  BY <1>1, <1>2, <1>3, UnbornLess DEF Sane, IsCalled, Shrinks
<1>7. w.call <= b
  BY <1>1, <1>2, <1>3 DEF Sane, ViewType, IsCalled, Shrinks
<1>8. QED BY <1>4, <1>5, <1>6, <1>7 DEF Sane

LEMMA HearsAcceptAgrees ==
  ASSUME NEW f, NEW c, NEW v, NEW w, NEW m, ViewType(v), ClientAgrees(v, c, f),
         HearsAccept(v, w, m), v.state = "WAITCALL", m.call = v.call
  PROVE  ClientAgrees(w, c, f) /\ Moves(v, w)
<1>1. /\ m \notin PublicKey /\ m \notin SecretKey /\ m \notin Login /\ m \notin Freeing
      /\ \A k : m \notin Token(k) /\ m \notin Answered(k) /\ m \notin Asked(k)
                  /\ m \notin From(k) /\ (m \in Accepted(k) <=> m.call = k)
                  /\ m \notin Off(k)
  BY Kinds DEF HearsAccept, Shrinks, TokenOps, Errors
<1>2. CalledOnce(w, c, f)
  BY <1>1 DEF CalledOnce, ClientAgrees, HearsAccept, Shrinks
<1>3. Roles(w, c, f)
  BY <1>1 DEF Roles, InCall, ClientAgrees, HearsAccept, Shrinks
<1>4. Accepts(w)
  BY <1>1 DEF Accepts, ClientAgrees, HearsAccept, Shrinks
<1>5. ASSUME w.live  PROVE Served(w)
  <2>0. Served(v)
    BY <1>5 DEF ClientAgrees, HearsAccept
  <2>1. OffIsLast(w)
    BY <1>5, <1>1, <2>0 DEF OffIsLast, Served, HearsAccept, Shrinks
  <2>2. CalledByServer(w)
    BY <1>5, <1>1, <2>0 DEF CalledByServer, Served, HearsAccept, Shrinks
  <2>3. OffByServer(w)
    BY <1>5, <1>1, <2>0 DEF OffByServer, Served, HearsAccept, Shrinks
  <2>4. ClientInCall(w)
    BY <1>5, <1>1, <2>0 DEF ClientInCall, Served, LogsIn, InCall, ClientAgrees, Roles, HearsAccept, Shrinks
  <2>5. ServerInCall(w)
    BY <1>5, <1>1, <2>0 DEF ServerInCall, Served, Participates, LogsIn, InCall, ViewType, HearsAccept, Shrinks
  <2>6. AsksInCall(w)
    BY <1>5, <1>1, <2>0 DEF AsksInCall, Served, Participates, LogsIn, InCall, HearsAccept, Shrinks
  <2>7. QED BY <2>1, <2>2, <2>3, <2>4, <2>5, <2>6 DEF Served
<1>6. KeepsQuestions(v, w)
  BY <1>1 DEF KeepsQuestions, Calls, HearsAccept, Shrinks
<1>7. HearsNothingNew(v, w)
  BY <1>1 DEF HearsNothingNew, Calls, HearsAccept, Shrinks
<1>8. MovesOn(v, w)
  BY <1>1 DEF MovesOn, Calls, HearsAccept, Shrinks
<1>9. KeepsConsent(v, w)
  BY <1>1 DEF KeepsConsent, Calls, Consents, HearsAccept, Shrinks
<1>10. ConsentIsHeard(v, w)
  BY <1>1 DEF ConsentIsHeard, Calls, Consents, LogsIn, HearsAccept, Shrinks
<1>11. QED BY <1>2, <1>3, <1>4, <1>5, <1>6, <1>7, <1>8, <1>9, <1>10 DEF ClientAgrees, Moves

LEMMA HearsAcceptSane ==
  ASSUME NEW v, NEW w, NEW m, NEW a \in Nat, NEW b \in Nat, a <= b, ViewType(v),
         Sane(v, a), HearsAccept(v, w, m)
  PROVE  Sane(w, b)
<1>1. /\ m \in Sent /\ m \notin PublicKey /\ m \notin SecretKey
  BY Kinds DEF HearsAccept, Shrinks
<1>2. m \notin Unborn(b)
  BY <1>1, SentFields DEF Unborn, BeginOps, Errors, Sane, HearsAccept, Shrinks
<1>3. FreeClient(w)
  BY DEF Sane, FreeClient, HearsAccept
<1>4. KeysComing(w)
  BY <1>1, <1>2 DEF Sane, KeysComing, HearsAccept, Shrinks
<1>5. ~ Has(w.up, Unborn(b)) /\ ~ Has(w.down, Unborn(b))
  BY <1>1, <1>2, UnbornLess DEF Sane, HearsAccept, Shrinks
<1>6. w.call <= b
  BY <1>1, <1>2 DEF Sane, ViewType, HearsAccept, Shrinks
<1>7. QED BY <1>3, <1>4, <1>5, <1>6 DEF Sane

LEMMA AsksFurtherAgrees ==
  ASSUME NEW f, NEW c, NEW v, NEW w, NEW m, NEW n, ViewType(v),
         ClientAgrees(v, c, f), AsksFurther(v, w, m, n), v.state = "WAITCALL",
         m.call = v.call
  PROVE  ClientAgrees(w, c, f) /\ Moves(v, w)
<1>1. /\ m \notin PublicKey /\ m \notin SecretKey /\ m \notin Login /\ m \notin Freeing
      /\ \A k : (m \in Token(k) <=> m.call = k) /\ (m \in Answered(k) <=> m.call = k)
                  /\ m \notin Asked(k) /\ m \notin From(k) /\ m \notin Accepted(k)
                  /\ m \notin Off(k)
      /\ n \notin PublicKey /\ n \notin SecretKey /\ n \notin Login /\ n \notin Freeing
      /\ \A k : (n \in Token(k) <=> n.call = k) /\ n \notin Answered(k)
                  /\ (n \in Asked(k) <=> n.call = k) /\ n \notin From(k)
                  /\ n \notin Accepted(k) /\ n \notin Off(k)
  BY Kinds DEF AsksFurther, Shrinks, UpGets, Grows, TokenOps, Errors
<1>2. CalledOnce(w, c, f)
  BY <1>1 DEF CalledOnce, ClientAgrees, AsksFurther, Shrinks, UpGets, Grows
<1>3. Roles(w, c, f)
  BY <1>1 DEF Roles, InCall, ClientAgrees, AsksFurther, Shrinks, UpGets, Grows
<1>4. Accepts(w)
  BY <1>1 DEF Accepts, ClientAgrees, AsksFurther, Shrinks, UpGets, Grows
<1>5. ASSUME w.live  PROVE Served(w)
  <2>0. Served(v)
    BY <1>5 DEF ClientAgrees, AsksFurther
  <2>1. OffIsLast(w)
    BY <1>5, <1>1, <2>0 DEF OffIsLast, Served, AsksFurther, Shrinks, UpGets, Grows
  <2>2. CalledByServer(w)
    BY <1>5, <1>1, <2>0 DEF CalledByServer, Served, AsksFurther, Shrinks, UpGets, Grows
  <2>3. OffByServer(w)
    BY <1>5, <1>1, <2>0 DEF OffByServer, Served, AsksFurther, Shrinks, UpGets, Grows
  <2>4. ClientInCall(w)
    BY <1>5, <1>1, <2>0 DEF ClientInCall, Served, LogsIn, InCall, ClientAgrees, Roles, AsksFurther, Shrinks, UpGets, Grows
  <2>5. ServerInCall(w)
    BY <1>5, <1>1, <2>0 DEF ServerInCall, Served, Participates, LogsIn, InCall, ViewType, AsksFurther, Shrinks, UpGets, Grows
  <2>6. AsksInCall(w)
    BY <1>5, <1>1, <2>0 DEF AsksInCall, Served, Participates, LogsIn, InCall, AsksFurther, Shrinks, UpGets, Grows
  <2>7. QED BY <2>1, <2>2, <2>3, <2>4, <2>5, <2>6 DEF Served
<1>6. KeepsQuestions(v, w)
  BY <1>1 DEF KeepsQuestions, Calls, AsksFurther, Shrinks, UpGets, Grows
<1>7. HearsNothingNew(v, w)
  BY <1>1 DEF HearsNothingNew, Calls, AsksFurther, Shrinks, UpGets, Grows
<1>8. MovesOn(v, w)
  BY <1>1 DEF MovesOn, Calls, AsksFurther, Shrinks, UpGets, Grows
<1>9. KeepsConsent(v, w)
  BY <1>1 DEF KeepsConsent, Calls, Consents, AsksFurther, Shrinks, UpGets, Grows
<1>10. ConsentIsHeard(v, w)
  BY <1>1 DEF ConsentIsHeard, Calls, Consents, LogsIn, ClientAgrees, Accepts, AsksFurther, Shrinks, UpGets, Grows
<1>11. QED BY <1>2, <1>3, <1>4, <1>5, <1>6, <1>7, <1>8, <1>9, <1>10 DEF ClientAgrees, Moves

LEMMA AsksFurtherSane ==
  ASSUME NEW v, NEW w, NEW m, NEW n, NEW a \in Nat, NEW b \in Nat, a <= b,
         ViewType(v), Sane(v, a), AsksFurther(v, w, m, n)
  PROVE  Sane(w, b)
<1>1. /\ m \in Sent /\ m \notin PublicKey /\ m \notin SecretKey
      /\ n \in Sent /\ n \notin PublicKey /\ n \notin SecretKey
  BY Kinds DEF AsksFurther, Shrinks, UpGets, Grows
<1>2. m \notin Unborn(b)
  BY <1>1, SentFields DEF Unborn, BeginOps, Errors, Sane, AsksFurther, Shrinks, UpGets, Grows
<1>3. n \notin Unborn(b)
  BY <1>1, SentFields DEF Unborn, BeginOps, Errors, Sane, AsksFurther, Shrinks, UpGets, Grows
<1>4. FreeClient(w)
  BY DEF Sane, FreeClient, AsksFurther
<1>5. KeysComing(w)
  BY <1>1, <1>2, <1>3 DEF Sane, KeysComing, AsksFurther, Shrinks, UpGets, Grows
<1>6. ~ Has(w.up, Unborn(b)) /\ ~ Has(w.down, Unborn(b))
  BY <1>1, <1>2, <1>3, UnbornLess DEF Sane, AsksFurther, Shrinks, UpGets, Grows
<1>7. w.call <= b
  BY <1>1, <1>2, <1>3 DEF Sane, ViewType, AsksFurther, Shrinks, UpGets, Grows
<1>8. QED BY <1>4, <1>5, <1>6, <1>7 DEF Sane

LEMMA StopsAgrees ==
  ASSUME NEW f, NEW c, NEW v, NEW w, ViewType(v), ClientAgrees(v, c, f), Stops(v, w)
  PROVE  ClientAgrees(w, c, f) /\ Moves(v, w)
<1>1. CalledOnce(w, c, f)
  BY DEF CalledOnce, ClientAgrees, Stops, Within
<1>2. Roles(w, c, f)
  BY DEF Roles, InCall, ClientAgrees, Stops, Within
<1>3. Accepts(w)
  BY DEF Accepts, ClientAgrees, Stops, Within
<1>4. ~ w.live
  BY DEF Stops
<1>5. KeepsQuestions(v, w)
  BY DEF KeepsQuestions, Calls, Stops, Within
<1>6. HearsNothingNew(v, w)
  BY DEF HearsNothingNew, Calls, Stops, Within
<1>7. MovesOn(v, w)
  BY DEF MovesOn, Calls, Stops, Within
<1>8. KeepsConsent(v, w)
  BY DEF KeepsConsent, Calls, Consents, Stops, Within
<1>9. ConsentIsHeard(v, w)
  BY DEF ConsentIsHeard, Calls, Consents, LogsIn, Stops, Within
<1>10. QED BY <1>1, <1>2, <1>3, <1>4, <1>5, <1>6, <1>7, <1>8, <1>9 DEF ClientAgrees, Moves

LEMMA StopsSane ==
  ASSUME NEW v, NEW w, NEW a \in Nat, NEW b \in Nat, a <= b, ViewType(v), Sane(v, a),
         Stops(v, w)
  PROVE  Sane(w, b)
<1>1. FreeClient(w)
  BY DEF Sane, FreeClient, Stops
<1>2. KeysComing(w)
  BY DEF Sane, KeysComing, Stops, Within
<1>3. ~ Has(w.up, Unborn(b)) /\ ~ Has(w.down, Unborn(b))
  BY UnbornLess DEF Sane, Stops, Within
<1>4. w.call <= b
  BY DEF Sane, ViewType, Stops, Within
<1>5. QED BY <1>1, <1>2, <1>3, <1>4 DEF Sane

LEMMA CrashesAgrees ==
  ASSUME NEW f, NEW c, NEW v, NEW w, ViewType(v), ClientAgrees(v, c, f),
         Crashes(v, w)
  PROVE  ClientAgrees(w, c, f) /\ Moves(v, w)
<1>1. CalledOnce(w, c, f)
  BY DEF CalledOnce, ClientAgrees, Crashes, Within
<1>2. Roles(w, c, f)
  BY DEF Roles, InCall, ClientAgrees, Crashes, Within
<1>3. Accepts(w)
  BY DEF Accepts, ClientAgrees, Crashes, Within
<1>4. ~ w.live
  BY DEF Crashes
<1>5. KeepsQuestions(v, w)
  BY DEF KeepsQuestions, Calls, Crashes, Within
<1>6. HearsNothingNew(v, w)
  BY DEF HearsNothingNew, Calls, Crashes, Within
<1>7. MovesOn(v, w)
  BY DEF MovesOn, Calls, Crashes, Within
<1>8. KeepsConsent(v, w)
  BY DEF KeepsConsent, Calls, Consents, Crashes, Within
<1>9. ConsentIsHeard(v, w)
  BY DEF ConsentIsHeard, Calls, Consents, LogsIn, Crashes, Within
<1>10. QED BY <1>1, <1>2, <1>3, <1>4, <1>5, <1>6, <1>7, <1>8, <1>9 DEF ClientAgrees, Moves

LEMMA CrashesSane ==
  ASSUME NEW v, NEW w, NEW a \in Nat, NEW b \in Nat, a <= b, ViewType(v), Sane(v, a),
         Crashes(v, w)
  PROVE  Sane(w, b)
<1>1. FreeClient(w)
  BY DEF Sane, FreeClient, Crashes
<1>2. KeysComing(w)
  BY DEF Sane, KeysComing, Crashes, Within
<1>3. ~ Has(w.up, Unborn(b)) /\ ~ Has(w.down, Unborn(b))
  BY UnbornLess DEF Sane, Crashes, Within
<1>4. w.call <= b
  BY DEF Sane, ViewType, Crashes, Within
<1>5. QED BY <1>1, <1>2, <1>3, <1>4 DEF Sane

LEMMA AlwaysSane ==
  ASSUME NEW W, WorldType(W), Always(W), NEW c \in Client
  PROVE  Sane(View(W, c), W.acts)
<1>1. FreeClient(View(W, c)) /\ KeysComing(View(W, c))
  BY DEF Always, Free
<1>2. W.now[c] \in Session
  BY DEF WorldType
<1>3. /\ ~ Has(W.up[W.now[c]], Unborn(W.acts)) /\ ~ Has(W.down[W.now[c]], Unborn(W.acts))
      /\ W.call[c] <= W.acts
  BY <1>2 DEF Always, NoneUnborn
<1>4. QED BY <1>1, <1>3, ViewFields DEF Sane

\* A step of a client keeps that.
LEMMA ClientAlways ==
  ASSUME NEW W, NEW X, NEW c \in Client, WorldType(W), WorldType(X), Always(W),
         OthersSame(W, X, c), W.acts <= X.acts, Sane(View(X, c), X.acts)
  PROVE  Always(X)
<1>1. /\ X.list = W.list /\ X.calling = W.calling /\ X.partner = W.partner
      /\ X.sCall = W.sCall /\ X.now = W.now
      /\ \A s \in Session : s # W.now[c] => X.up[s] = W.up[s] /\ X.down[s] = W.down[s]
      /\ W.now[c] \in Session /\ W.now[c][1] = c /\ W.acts \in Nat /\ X.acts \in Nat
      /\ \A s \in Session : W.sCall[s] \in Nat
      /\ \A d \in Client : W.call[d] \in Nat
  BY DEF OthersSame, WorldType
<1>2. NoneAhead(X)
  BY <1>1 DEF Ahead, Session, Always, NoneAhead
<1>3. NotWithItself(X)
  BY <1>1 DEF Always, NotWithItself
<1>4. NoneUnborn(X)
  BY <1>1, ViewFields, UnbornLess DEF Sane, Always, NoneUnborn, OthersSame
<1>5. Free(X)
  <2>1. SUFFICES ASSUME NEW d \in Client
                 PROVE  FreeClient(View(X, d)) /\ KeysComing(View(X, d))
    BY DEF Free
  <2>2. CASE d = c
    BY <2>2 DEF Sane
  <2>3. CASE d # c
    <3>1. /\ FreeClient(View(W, d)) /\ KeysComing(View(W, d))
      BY DEF Always, Free
    <3>2. W.now[d] # W.now[c] /\ W.now[d] \in Session
      BY <1>1, <2>3 DEF WorldType
    <3>3. View(X, d) = View(W, d)
      BY <1>1, <2>3, <3>2 DEF View, OthersSame, Srv
    <3>4. QED BY <3>1, <3>3
  <2>4. QED BY <2>2, <2>3
<1>6. QED BY <1>2, <1>3, <1>4, <1>5 DEF Always

LEMMA ClientAgreement ==
  ASSUME NEW W, NEW X, NEW c \in Client, WorldType(W), WorldType(X), Always(W),
         OthersSame(W, X, c), Agreement(W),
         \A f, h : Agreed(W, f, h) =>
           ClientAgrees(View(X, c), c, f) /\ Moves(View(W, c), View(X, c))
  PROVE  Agreement(X)
<1>1. PICK f \in [Nat -> Client], h \in [Nat -> Session] : Agreed(W, f, h)
  BY DEF Agreement
<1>2. ClientAgrees(View(X, c), c, f) /\ Moves(View(W, c), View(X, c))
  BY <1>1
<1>3. ClientMoves(W, X, c, f, h)
  BY <1>1, <1>2 DEF ClientMoves, Always
<1>4. Agreed(X, f, h)
  BY <1>2, <1>3, ClientMovesAgreed
<1>5. QED BY <1>4 DEF Agreement

(***************************************************************************)
(* The variables as such a record.                                         *)
(***************************************************************************)
LEMMA WorldFields ==
  ASSUME NEW W, W = World
  PROVE  /\ \A s \in Session : W.up[s] = Upward(s) /\ W.down[s] = Downward(s)
         /\ W.list = sessionList /\ W.partner = callingSession /\ W.sCall = sCall
         /\ \A s \in Session : /\ s \in W.calling <=> sState[s] = "CALLING"
                               /\ s \in W.ended <=> sState[s] = "ENDED"
         /\ W.calling \subseteq Session /\ W.ended \subseteq Session
         /\ \A c \in Client : /\ W.now[c] = Now(c) /\ W.live[c] = Live(c)
                              /\ W.off[c] = Offed(c)
         /\ W.state = state /\ W.call = call /\ W.at = at /\ W.keys = keys /\ W.acts = acts
  BY DEF World

LEMMA NextWorldFields ==
  ASSUME NEW X, X = World'
  PROVE  /\ \A s \in Session : X.up[s] = Upward(s)' /\ X.down[s] = Downward(s)'
         /\ X.list = sessionList' /\ X.partner = callingSession' /\ X.sCall = sCall'
         /\ \A s \in Session : /\ s \in X.calling <=> sState'[s] = "CALLING"
                               /\ s \in X.ended <=> sState'[s] = "ENDED"
         /\ X.calling \subseteq Session /\ X.ended \subseteq Session
         /\ \A c \in Client : /\ X.now[c] = Now(c)' /\ X.live[c] = Live(c)'
                              /\ X.off[c] = Offed(c)'
         /\ X.state = state' /\ X.call = call' /\ X.at = at' /\ X.keys = keys'
         /\ X.acts = acts'
  BY DEF World

LEMMA QueuesTyped ==
  ASSUME TypeInv, NEW s \in Session
  PROVE  Upward(s) \in Seq(Sent) /\ Downward(s) \in Seq(Sent)
<1>1. /\ s[1] \in Client /\ up[s] \in Seq(Sent) /\ down[s] \in Seq(Sent)
      /\ outputMessageQueue[s[1]] \in Seq(Sent) /\ received[s[1]] \in Sent \cup {None}
  BY SessionClient DEF TypeInv, UpTypes, DownTypes, OutputTypes, NetTypes
<1>2. << >> \in Seq(Sent) /\ \A m \in Sent : <<m>> \in Seq(Sent)
  OBVIOUS
<1>3. \A p, q \in Seq(Sent) : p \o q \in Seq(Sent)
  OBVIOUS
<1>4. (IF Connected(s) THEN outputMessageQueue[s[1]] ELSE << >>) \in Seq(Sent)
  BY <1>1, <1>2
<1>5. (IF Reading(s) THEN <<received[s[1]]>> ELSE << >>) \in Seq(Sent)
  BY <1>1, <1>2 DEF Reading
<1>6. QED BY <1>1, <1>3, <1>4, <1>5 DEF Upward, Downward

LEMMA WorldTyped ==
  ASSUME TypeInv
  PROVE  WorldType(World)
<1>1. PICK W : W = World
  OBVIOUS
<1>2. /\ W.up = [s \in Session |-> Upward(s)] /\ W.down = [s \in Session |-> Downward(s)]
      /\ W.now = [c \in Client |-> Now(c)] /\ W.live = [c \in Client |-> Live(c)]
      /\ W.off = [c \in Client |-> Offed(c)]
      /\ W.calling = {s \in Session : sState[s] = "CALLING"}
      /\ W.ended = {s \in Session : sState[s] = "ENDED"}
      /\ W.list = sessionList /\ W.partner = callingSession /\ W.sCall = sCall
      /\ W.state = state /\ W.call = call /\ W.at = at /\ W.keys = keys /\ W.acts = acts
  BY <1>1 DEF World
<1>3. W.up \in [Session -> Seq(Sent)] /\ W.down \in [Session -> Seq(Sent)]
  BY <1>2, QueuesTyped
<1>4. W.now \in [Client -> Session] /\ \A c \in Client : W.now[c][1] = c
  BY NowType, <1>2 DEF Now, TypeInv
<1>5. W.live \in [Client -> BOOLEAN] /\ \A c \in Client : W.live[c] => W.now[c] \in W.list
  <2>1. \A c \in Client : Live(c) \in BOOLEAN /\ (Live(c) => Now(c) \in sessionList)
    BY DEF Live
  <2>2. QED BY <1>2, <2>1
<1>6. W.off \in [Client -> BOOLEAN]
  BY <1>2 DEF Offed
<1>7. acts \in Nat
  BY BoundAssumption DEF TypeInv, CounterTypes
<1>8. WorldType(W)
  BY <1>2, <1>3, <1>4, <1>5, <1>6, <1>7 DEF WorldType, TypeInv, StateTypes, UiTypes, NetTypes, PartyTypes,
     NumberTypes
<1>9. QED BY <1>1, <1>8

LEMMA WorldTypes == TypeInv => WorldType(World)
  BY WorldTyped

LEMMA WorldTypesNext ==
  ASSUME TypeInv', NEW X, X = World'
  PROVE  WorldType(X)
<1>1. TypeInv' => WorldType(World)'
  BY WorldTypes, PTL
<1>2. QED BY <1>1

LEMMA WorldView ==
  ASSUME TypeInv, NEW c \in Client, NEW v, v = View(World, c)
  PROVE  /\ v.up = UpOf(c) /\ v.down = DownOf(c) /\ v.state = state[c] /\ v.call = call[c]
         /\ v.at = at[c] /\ v.off = Offed(c) /\ v.keys = keys[c] /\ v.live = Live(c)
         /\ v.srv = SrvOf(c) /\ ViewType(v)
<1>1. PICK W : W = World
  OBVIOUS
<1>2. Now(c) \in Session /\ Now(c)[1] = c
  BY NowType DEF TypeInv, Now
<1>3. /\ W.now[c] = Now(c) /\ W.up[Now(c)] = Upward(Now(c)) /\ W.down[Now(c)] = Downward(Now(c))
      /\ W.live[c] = Live(c) /\ W.off[c] = Offed(c) /\ W.state = state /\ W.call = call
      /\ W.at = at /\ W.keys = keys /\ W.sCall = sCall
      /\ Now(c) \in W.calling <=> sState[Now(c)] = "CALLING"
  BY <1>1, <1>2, WorldFields
<1>4. Upward(Now(c)) = UpOf(c) /\ Downward(Now(c)) = DownOf(c)
  BY <1>2 DEF Upward, UpOf, Downward, DownOf, Connected, Reading
<1>5. ViewType(v)
  BY <1>1, WorldTyped, ViewTyped
<1>6. QED BY <1>1, <1>3, <1>4, <1>5, ViewFields DEF Srv, SrvOf

LEMMA WorldViews == TypeInv => Views
  BY WorldView DEF Views

LEMMA WorldViewNext ==
  ASSUME TypeInv', NEW c \in Client, NEW X, X = World', NEW w, w = View(X, c)
  PROVE  /\ w.up = UpOf(c)' /\ w.down = DownOf(c)' /\ w.state = state'[c] /\ w.call = call'[c]
         /\ w.at = at'[c] /\ w.off = Offed(c)' /\ w.keys = keys'[c] /\ w.live = Live(c)'
         /\ w.srv = SrvOf(c)' /\ ViewType(w)
<1>1. TypeInv' => Views'
  BY WorldViews, PTL
<1>2. w = View(World', c)
  OBVIOUS
<1>3. QED BY <1>1, <1>2 DEF Views

(***************************************************************************)
(* What a client does leaves the others and the server as they are.        *)
(***************************************************************************)
LEMMA OnlyClient ==
  ASSUME TypeInv, NEW c \in Client, ClientOnly(c), NEW W, W = World, NEW X, X = World'
  PROVE  OthersSame(W, X, c)
<1>1. \A d \in Client : Now(d) \in Session /\ Now(d)[1] = d /\ Now(d)' = Now(d)
  BY NowType DEF Now, TypeInv, ClientOnly
<1>2. /\ X.list = W.list /\ X.partner = W.partner /\ X.sCall = W.sCall
      /\ W.now[c] = Now(c) /\ X.state = state' /\ W.state = state
      /\ X.call = call' /\ W.call = call /\ X.at = at' /\ W.at = at
      /\ X.keys = keys' /\ W.keys = keys
      /\ \A d \in Client : /\ W.live[d] = Live(d) /\ W.off[d] = Offed(d)
                           /\ X.live[d] = Live(d)' /\ X.off[d] = Offed(d)'
      /\ \A s \in Session : /\ W.up[s] = Upward(s) /\ W.down[s] = Downward(s)
                            /\ X.up[s] = Upward(s)' /\ X.down[s] = Downward(s)'
  BY WorldFields, NextWorldFields DEF ClientOnly
<1>3. X.calling = W.calling /\ X.ended = W.ended /\ X.now = W.now
  BY <1>1 DEF World, ClientOnly
<1>4. ASSUME NEW s \in Session, s # W.now[c]
      PROVE  X.up[s] = W.up[s] /\ X.down[s] = W.down[s]
  <2>1. s[1] \in Client /\ s # Now(c) /\ up'[s] = up[s] /\ down'[s] = down[s]
    BY <1>2, <1>4, SessionClient DEF ClientOnly
  <2>2. CASE s = Now(s[1])
    <3>1. s[1] # c
      BY <2>1, <2>2
    <3>2. /\ thread'[s[1]] = thread[s[1]] /\ received'[s[1]] = received[s[1]]
          /\ outputMessageQueue'[s[1]] = outputMessageQueue[s[1]] /\ Now(s[1])' = Now(s[1])
      BY <1>1, <2>1, <3>1 DEF ClientOnly
    <3>3. (Connected(s)' <=> Connected(s)) /\ (Reading(s)' <=> Reading(s))
      BY <3>2 DEF Connected, Reading
    <3>4. Upward(s)' = Upward(s) /\ Downward(s)' = Downward(s)
      BY <2>1, <3>2, <3>3 DEF Upward, Downward
    <3>5. QED BY <1>2, <3>4
  <2>3. CASE s # Now(s[1])
    <3>1. ~ Connected(s) /\ ~ Connected(s)' /\ ~ Reading(s) /\ ~ Reading(s)'
      BY <1>1, <2>1, <2>3 DEF Connected, Reading
    <3>2. QED BY <1>2, <2>1, <3>1 DEF Upward, Downward
  <2>4. QED BY <2>2, <2>3
<1>5. \A d \in Client : d # c => Live(d)' = Live(d) /\ Offed(d)' = Offed(d)
  BY <1>1 DEF Live, Offed, ClientOnly
<1>6. Live(c)' => Live(c)
  BY <1>1 DEF Live, ClientOnly
<1>7. \A d \in Client : d # c =>
        state'[d] = state[d] /\ call'[d] = call[d] /\ at'[d] = at[d] /\ keys'[d] = keys[d]
  BY DEF ClientOnly
<1>8. QED BY <1>2, <1>3, <1>4, <1>5, <1>6, <1>7 DEF OthersSame

(***************************************************************************)
(* What the queues of a client are for its view.                           *)
(***************************************************************************)
LEMMA ClientQueues ==
  ASSUME TypeInv, NEW c \in Client
  PROVE  /\ Now(c) \in Session /\ up[Now(c)] \in Seq(Sent) /\ down[Now(c)] \in Seq(Sent)
         /\ outputMessageQueue[c] \in Seq(Sent) /\ received[c] \in Sent \cup {None}
         /\ UpOf(c) \in Seq(Sent) /\ DownOf(c) \in Seq(Sent)
<1>1. /\ Now(c) \in Session /\ up[Now(c)] \in Seq(Sent) /\ down[Now(c)] \in Seq(Sent)
      /\ outputMessageQueue[c] \in Seq(Sent) /\ received[c] \in Sent \cup {None}
  BY NowType DEF TypeInv, UpTypes, DownTypes, OutputTypes, NetTypes
<1>2. PICK v : v = View(World, c)
  OBVIOUS
<1>3. v.up = UpOf(c) /\ v.down = DownOf(c) /\ ViewType(v)
  BY <1>2, WorldView
<1>4. QED BY <1>1, <1>3 DEF ViewType

\* The client queues a message.
LEMMA QueuedIs ==
  ASSUME TypeInv, NEW c \in Client, OnLine(c), NEW m \in Sent, Queue(c, m),
         up'[Now(c)] = up[Now(c)]
  PROVE  /\ thread[c] = "connected" => Grows(UpOf(c), UpOf(c)', m)
         /\ thread[c] # "connected" => UpOf(c)' = UpOf(c) /\ ~ Live(c)
<1>1. /\ Now(c)' = Now(c) /\ thread'[c] = thread[c] /\ up'[Now(c)] = up[Now(c)]
      /\ outputMessageQueue'[c] = Append(outputMessageQueue[c], m)
  BY DEF OnLine, Now, Queue, TypeInv, OutputTypes
<1>2. CASE thread[c] = "connected"
  <2>1. PICK p \in Seq(Sent), q \in Seq(Sent) : p = up[Now(c)] /\ q = outputMessageQueue[c]
    BY ClientQueues
  <2>2. UpOf(c) = p \o q /\ UpOf(c)' = p \o Append(q, m)
    BY <1>1, <1>2, <2>1 DEF UpOf
  <2>3. p \o Append(q, m) = Append(p \o q, m) /\ p \o q \in Seq(Sent)
    BY JoinedQueues
  <2>4. QED BY <1>2, <2>2, <2>3, Growth
<1>3. CASE thread[c] # "connected"
  BY <1>1, <1>3 DEF UpOf, Live
<1>4. QED BY <1>2, <1>3

LEMMA SilentIs ==
  ASSUME NEW c \in Client, OnLine(c), outputMessageQueue'[c] = outputMessageQueue[c],
         up'[Now(c)] = up[Now(c)]
  PROVE  UpOf(c)' = UpOf(c)
<1>1. Now(c)' = Now(c) /\ thread'[c] = thread[c]
  BY DEF OnLine, Now
<1>2. QED BY <1>1 DEF UpOf

LEMMA DeafIs ==
  ASSUME NEW c \in Client, connections' = connections, received'[c] = received[c],
         down'[Now(c)] = down[Now(c)]
  PROVE  DownOf(c)' = DownOf(c)
<1>1. Now(c)' = Now(c)
  BY DEF Now
<1>2. QED BY <1>1 DEF DownOf

\* It reads a message.
LEMMA ReadIs ==
  ASSUME TypeInv, NEW c \in Client, OnLine(c), received[c] = None, received'[c] = None,
         down[Now(c)] # << >>, down'[Now(c)] = Tail(down[Now(c)])
  PROVE  Shrinks(DownOf(c), DownOf(c)', Head(down[Now(c)]))
<1>1. Now(c)' = Now(c)
  BY DEF OnLine, Now
<1>2. PICK q \in Seq(Sent) : q = down[Now(c)]
  BY ClientQueues
<1>3. << >> \o q = q /\ << >> \o Tail(q) = Tail(q)
  BY <1>2, TailElements
<1>4. DownOf(c) = q /\ DownOf(c)' = Tail(q)
  BY <1>1, <1>2, <1>3 DEF DownOf
<1>5. QED BY <1>2, <1>4, Shrinkage

\* It begins with a message.
LEMMA TakenIs ==
  ASSUME TypeInv, NEW c \in Client, OnLine(c), received[c] = None, down[Now(c)] # << >>,
         received'[c] = Head(down[Now(c)]), down'[Now(c)] = Tail(down[Now(c)])
  PROVE  DownOf(c)' = DownOf(c)
<1>1. Now(c)' = Now(c)
  BY DEF OnLine, Now
<1>2. PICK q \in Seq(Sent) : q = down[Now(c)] /\ q # << >>
  BY ClientQueues
<1>3. << >> \o q = q /\ <<Head(q)>> \o Tail(q) = q /\ Head(q) \in Sent
  BY <1>2
<1>4. Head(q) # None
  BY <1>3, NoneAssumption DEF Sent
<1>5. QED BY <1>1, <1>2, <1>3, <1>4 DEF DownOf

\* It has done with a message.
LEMMA CompletedIs ==
  ASSUME TypeInv, NEW c \in Client, connections' = connections, received[c] # None,
         received'[c] = None,
         down'[Now(c)] = down[Now(c)]
  PROVE  Shrinks(DownOf(c), DownOf(c)', received[c])
<1>1. Now(c)' = Now(c)
  BY DEF Now
<1>2. PICK q \in Seq(Sent), m \in Sent : q = down[Now(c)] /\ m = received[c]
  BY ClientQueues
<1>3. PICK p \in Seq(Sent) : p = <<m>> \o q
  <2>1. <<m>> \in Seq(Sent)
    BY <1>2
  <2>2. <<m>> \o q \in Seq(Sent)
    BY <1>2, <2>1, JoinedQueues
  <2>3. QED BY <2>2
<1>4. p # << >> /\ Head(p) = m /\ Tail(p) = q /\ << >> \o q = q
  BY <1>3
<1>5. DownOf(c) = p /\ DownOf(c)' = q
  BY <1>1, <1>2, <1>3, <1>4 DEF DownOf
<1>6. QED BY <1>2, <1>4, <1>5, Shrinkage

LEMMA WrittenQueue ==
  ASSUME NEW p \in Seq(Sent), NEW q \in Seq(Sent), q # << >>, NEW r, r = Append(p, Head(q))
  PROVE  r \o Tail(q) = p \o q
<1>1. Append(p, Head(q)) \o Tail(q) = p \o q
  BY JoinedQueues
<1>2. QED BY <1>1, Zenon

\* A message is written, or dropped.
LEMMA WrittenIs ==
  ASSUME TypeInv, NEW c \in Client, OnLine(c), thread[c] = "connected",
         outputMessageQueue[c] # << >>,
         outputMessageQueue'[c] = Tail(outputMessageQueue[c])
  PROVE  /\ up'[Now(c)] = Append(up[Now(c)], Head(outputMessageQueue[c])) =>
              UpOf(c)' = UpOf(c)
         /\ up'[Now(c)] = up[Now(c)] =>
              /\ UpOf(c)' \in Seq(Sent) /\ Within(UpOf(c)', UpOf(c))
              /\ \A M : Has(UpOf(c), M) /\ Head(outputMessageQueue[c]) \notin M =>
                   Has(UpOf(c)', M)
<1>1. Now(c)' = Now(c) /\ thread'[c] = "connected"
  BY DEF OnLine, Now
<1>2. PICK p \in Seq(Sent), q \in Seq(Sent) :
        p = up[Now(c)] /\ q = outputMessageQueue[c] /\ q # << >>
  BY ClientQueues
<1>3. Tail(q) \in Seq(Sent)
  BY <1>2, TailElements
<1>4. UpOf(c) = p \o q /\ UpOf(c)' = up'[Now(c)] \o Tail(q)
  BY <1>1, <1>2 DEF UpOf
<1>5. /\ p \o Tail(q) \in Seq(Sent)
      /\ \A r : r = Append(p, Head(q)) => r \o Tail(q) = p \o q
  BY <1>2, <1>3, JoinedQueues, WrittenQueue
<1>6. Within(p \o Tail(q), p \o q)
  BY <1>2, WithinDrop
<1>7. \A M : Has(p \o q, M) /\ Head(q) \notin M => Has(p \o Tail(q), M)
  <2>1. \A M : /\ Has(p \o q, M) <=> Has(p, M) \/ Has(q, M)
               /\ Has(p \o Tail(q), M) <=> Has(p, M) \/ Has(Tail(q), M)
               /\ Has(q, M) <=> Head(q) \in M \/ Has(Tail(q), M)
    BY <1>2, <1>3, HasJoin, HasTail
  <2>2. QED BY <2>1
<1>8. QED BY <1>2, <1>4, <1>5, <1>6, <1>7

\* The thread leaves the connection: some of what was on its way is lost.
LEMMA LeftIs ==
  ASSUME TypeInv, NEW c \in Client, connections' = connections, thread'[c] # "connected",
         NEW n \in 0..Len(up[Now(c)]),
         up'[Now(c)] = up[Now(c)] \/ up'[Now(c)] = SubSeq(up[Now(c)], 1, n)
  PROVE  UpOf(c)' \in Seq(Sent) /\ Within(UpOf(c)', UpOf(c)) /\ ~ Live(c)'
<1>1. Now(c)' = Now(c)
  BY DEF Now
<1>2. PICK p \in Seq(Sent), q \in Seq(Sent) :
        p = up[Now(c)] /\ q = (IF thread[c] = "connected" THEN outputMessageQueue[c] ELSE << >>)
  <2>1. up[Now(c)] \in Seq(Sent) /\ outputMessageQueue[c] \in Seq(Sent)
    BY ClientQueues
  <2>2. << >> \in Seq(Sent)
    OBVIOUS
  <2>3. QED BY <2>1, <2>2
<1>3. UpOf(c) = p \o q /\ p \o q \in Seq(Sent)
  BY <1>2 DEF UpOf
<1>4. p = SubSeq(p, 1, Len(p)) /\ Len(p) \in 0..Len(p)
  OBVIOUS
<1>5. PICK k \in 0..Len(p) : up'[Now(c)] = SubSeq(p, 1, k)
  BY <1>2, <1>4
<1>6. SubSeq(p, 1, k) \in Seq(Sent) /\ SubSeq(p, 1, k) \o << >> = SubSeq(p, 1, k)
  BY QueuePrefix
<1>7. UpOf(c)' = SubSeq(p, 1, k)
  BY <1>1, <1>5, <1>6 DEF UpOf
<1>8. SubSeq(p \o q, 1, k) = SubSeq(p, 1, k) /\ k \in 0..Len(p \o q)
  BY JoinedQueues
<1>9. Within(SubSeq(p \o q, 1, k), p \o q)
  BY <1>3, <1>8, WithinPrefix
<1>10. QED BY <1>1, <1>3, <1>6, <1>7, <1>8, <1>9 DEF Live

(***************************************************************************)
(* A step of a client, in terms of what it changes of its view.            *)
(***************************************************************************)
LEMMA ClientStep ==
  ASSUME TypeInv, TypeInv', ProtocolAgreed, NEW c \in Client, ClientOnly(c), acts <= acts',
         \A v, w : IsView(v, c) /\ IsView(w, c)' /\ Sane(v, acts) =>
           Sane(w, acts') /\ (~ overtaken' => ~ overtaken /\ StepAgrees(v, w, c))
  PROVE  ProtocolAgreed'
<1>1. PICK W : W = World
  OBVIOUS
<1>2. PICK X : X = World'
  OBVIOUS
<1>3. PICK v : v = View(W, c)
  OBVIOUS
<1>4. PICK w : w = View(X, c)
  OBVIOUS
<1>5. WorldType(W) /\ WorldType(X)
  BY <1>1, <1>2, WorldTypes, WorldTypesNext
<1>6. OthersSame(W, X, c)
  BY <1>1, <1>2, OnlyClient
<1>7. IsView(v, c)
  BY <1>1, <1>3, WorldView DEF IsView
<1>8. IsView(w, c)'
  BY <1>2, <1>4, WorldViewNext DEF IsView
<1>9. /\ Kept(W, overtaken)
      /\ W.acts = acts /\ X.acts = acts'
  BY <1>1, <1>2, WorldFields, NextWorldFields DEF ProtocolAgreed
<1>10. Always(W)
  BY <1>9 DEF Kept
<1>11. Sane(v, acts)
  BY <1>3, <1>5, <1>9, <1>10, AlwaysSane
<1>12. Sane(w, acts') /\ (~ overtaken' => ~ overtaken /\ StepAgrees(v, w, c))
  BY <1>7, <1>8, <1>11
<1>13. Always(X)
  BY <1>4, <1>5, <1>6, <1>9, <1>10, <1>12, ClientAlways
<1>14. ASSUME ~ overtaken'  PROVE Agreement(X)
  BY <1>9, <1>12, <1>14, <1>3, <1>5, RulesOfTokens, ViewFields, <1>4, <1>6, <1>10, ClientAgreement
     DEF Kept, Agreed, StepAgrees
<1>15. Kept(X, overtaken')
  BY <1>13, <1>14 DEF Kept
<1>16. QED BY <1>2, <1>15 DEF ProtocolAgreed

LEMMA ViewRest ==
  ASSUME NEW c, ClientOnly(c)
  PROVE  /\ Now(c)' = Now(c) /\ SrvOf(c)' = SrvOf(c)
         /\ thread'[c] = thread[c] => Live(c)' = Live(c)
         /\ thread'[c] # "connected" => ~ Live(c)'
         /\ handler'[c] = handler[c] => Offed(c)' = Offed(c)
<1>1. /\ connections' = connections /\ sessionList' = sessionList /\ sState' = sState
      /\ sCall' = sCall
  BY DEF ClientOnly
<1>2. Now(c)' = Now(c)
  BY <1>1 DEF Now
<1>3. QED BY <1>1, <1>2 DEF SrvOf, Live, Offed

LEMMA ActsTyped == TypeInv => acts \in Nat
  BY BoundAssumption DEF TypeInv, CounterTypes

LEMMA ActsTypedNext == TypeInv' => acts' \in Nat
<1>1. TypeInv' => (acts \in Nat)'
  BY ActsTyped, PTL
<1>2. QED BY <1>1

LEMMA UiView ==
  ASSUME NEW c \in Client, UiOnly(c)
  PROVE  /\ ClientOnly(c) /\ OnLine(c) /\ DownOf(c)' = DownOf(c) /\ SrvOf(c)' = SrvOf(c)
         /\ keys' = keys /\ Live(c)' = Live(c) /\ up'[Now(c)] = up[Now(c)]
         /\ handler'[c] = handler[c] => Offed(c)' = Offed(c)
         /\ outputMessageQueue'[c] = outputMessageQueue[c] => UpOf(c)' = UpOf(c)
<1>1. ClientOnly(c)
  BY DEF UiOnly, ClientOnly, serverVars, channels
<1>2. OnLine(c) /\ up' = up /\ down' = down /\ received' = received
  BY DEF UiOnly, OnLine, channels
<1>3. DownOf(c)' = DownOf(c)
  BY <1>2, DeafIs DEF OnLine
<1>4. outputMessageQueue'[c] = outputMessageQueue[c] => UpOf(c)' = UpOf(c)
  BY <1>2, SilentIs
<1>5. QED BY <1>1, <1>2, <1>3, <1>4, ViewRest DEF UiOnly

LEMMA UiQueues ==
  ASSUME TypeInv, NEW c \in Client, UiOnly(c), NEW m \in Sent, Queue(c, m),
         NEW v, IsView(v, c), NEW w, IsView(w, c)'
  PROVE  UpGets(v, w, m)
<1>1. OnLine(c) /\ up'[Now(c)] = up[Now(c)]
  BY UiView
<1>2. /\ thread[c] = "connected" => Grows(UpOf(c), UpOf(c)', m)
      /\ thread[c] # "connected" => UpOf(c)' = UpOf(c) /\ ~ Live(c)
  BY <1>1, QueuedIs
<1>3. v.up = UpOf(c) /\ w.up = UpOf(c)' /\ v.live = Live(c)
  BY DEF IsView
<1>4. QED BY <1>2, <1>3 DEF UpGets

LEMMA NumberAgreed ==
  ASSUME TypeInv, TypeInv', ProtocolAgreed, NEW c \in Client, getNewPhoneNumber(c)
  PROVE  ProtocolAgreed'
<1>1. PICK m : m = Plain("GET_NEWPHONENUMBER", 0)
  OBVIOUS
<1>2. m \in Sent /\ m.op = "GET_NEWPHONENUMBER" /\ m.call = 0
  BY <1>1, PlainType DEF Plain, buildOperation
<1>3. /\ Queue(c, m) /\ acts' = acts + 1 /\ overtaken' = overtaken /\ state' = state
      /\ call' = call /\ at' = at /\ handler' = handler
      /\ UNCHANGED <<serverVars, channels, thread, received, connections, keys>>
  BY <1>1 DEF getNewPhoneNumber, Act, uiVars, netVars
<1>4. UiOnly(c)
  BY <1>3 DEF UiOnly, Queue, TypeInv, OutputTypes
<1>5. acts \in Nat /\ acts' \in Nat /\ acts <= acts'
  BY <1>3, ActsTyped, ActsTypedNext
<1>6. ASSUME NEW v, NEW w, IsView(v, c), IsView(w, c)'
      PROVE  Says(v, w, m)
  BY <1>2, <1>3, <1>4, <1>6, UiQueues, UiView DEF Says, IsView, UiOnly
<1>7. ASSUME NEW v, NEW w, IsView(v, c), IsView(w, c)', Sane(v, acts)
      PROVE  Sane(w, acts') /\ (~ overtaken' => ~ overtaken /\ StepAgrees(v, w, c))
  BY <1>6, <1>7, <1>5, SaysSane, SaysAgrees, <1>3 DEF IsView, StepAgrees
<1>8. ClientOnly(c)
  BY <1>4, UiView
<1>9. QED BY <1>5, <1>7, <1>8, ClientStep

LEMMA AssignAgreed ==
  ASSUME TypeInv, TypeInv', ProtocolAgreed, NEW c \in Client, Assign(c)
  PROVE  ProtocolAgreed'
<1>1. /\ at[c] \in {"callTo", "callAccept"} /\ at'[c] = "idle"
      /\ state'[c] = IF at[c] = "callTo" THEN "WAITCALL" ELSE "CALLING"
      /\ \A d \in Client \ {c} : at'[d] = at[d] /\ state'[d] = state[d]
  BY DEF Assign, TypeInv, UiTypes, StateTypes
<1>2. /\ call' = call /\ handler' = handler /\ outputMessageQueue' = outputMessageQueue
      /\ UNCHANGED <<serverVars, channels, thread, received, connections, keys>>
      /\ acts' = acts
      /\ ~ overtaken' => /\ ~ overtaken /\ call[c] # 0
                         /\ state[c] = IF at[c] = "callTo" THEN "STARTED" ELSE "RECEIVEDCALL"
  BY DEF Assign, Overtaken, netVars
<1>3. UiOnly(c)
  BY <1>1, <1>2 DEF UiOnly
<1>4. acts \in Nat /\ acts' \in Nat /\ acts <= acts'
  BY <1>2, ActsTyped
<1>5. ASSUME NEW v, NEW w, IsView(v, c), IsView(w, c)', Sane(v, acts)
      PROVE  Sane(w, acts') /\ (~ overtaken' => ~ overtaken /\ StepAgrees(v, w, c))
  BY <1>2, <1>3, UiView, <1>5, <1>1, <1>4, AssignsWaitSane, AssignsWaitAgrees, AssignsCallingSane,
     AssignsCallingAgrees DEF IsView, AssignsWait, StepAgrees, AssignsCalling
<1>6. ClientOnly(c)
  BY <1>3, UiView
<1>7. QED BY <1>4, <1>5, <1>6, ClientStep

LEMMA AcceptAgreed ==
  ASSUME TypeInv, TypeInv', ProtocolAgreed, NEW c \in Client, Accept(c)
  PROVE  ProtocolAgreed'
<1>1. PICK m : m = buildOperation("CALL_ACCEPT", None, EncodedKey(c), call[c])
  OBVIOUS
<1>2. m \in Sent /\ m.op = "CALL_ACCEPT" /\ m.call = call[c]
  BY VoiceKeyType, <1>1, KeyMessageType DEF Accept, TypeInv, StateTypes, buildOperation
<1>3. /\ Queue(c, m) /\ acts' = acts + 1 /\ state' = state /\ call' = call
      /\ handler' = handler /\ at[c] = "idle" /\ at'[c] = "callAccept"
      /\ \A d \in Client \ {c} : at'[d] = at[d]
      /\ UNCHANGED <<serverVars, channels, thread, received, connections, keys>>
      /\ ~ overtaken' => ~ overtaken /\ state[c] = "RECEIVEDCALL"
  BY <1>1 DEF Accept, Act, Idle, netVars, Overtaken, TypeInv, UiTypes
<1>4. UiOnly(c)
  BY <1>3 DEF UiOnly, Queue, TypeInv, OutputTypes
<1>5. acts \in Nat /\ acts' \in Nat /\ acts <= acts'
  BY <1>3, ActsTyped, ActsTypedNext
<1>6. ASSUME NEW v, NEW w, IsView(v, c), IsView(w, c)', Sane(v, acts)
      PROVE  Sane(w, acts') /\ (~ overtaken' => ~ overtaken /\ StepAgrees(v, w, c))
  BY <1>2, <1>3, <1>4, <1>6, UiQueues, UiView, <1>5, AcceptsCallSane, AcceptsCallAgrees
     DEF AcceptsCall, IsView, UiOnly, StepAgrees
<1>7. ClientOnly(c)
  BY <1>4, UiView
<1>8. QED BY <1>5, <1>6, <1>7, ClientStep

\* CallingFragment.destroy, by the user or because MSG_CALLOFFED is handled.
LEMMA DestroyAgreed ==
  ASSUME TypeInv, TypeInv', ProtocolAgreed, NEW c \in Client, destroy(c), at[c] = "idle",
         at' = at, acts <= acts', overtaken' = overtaken,
         \A d \in Client \ {c} : handler'[d] = handler[d],
         UNCHANGED <<serverVars, channels, thread, received, connections, keys>>
  PROVE  ProtocolAgreed'
<1>1. PICK m : m = Plain("CALL_OFF", call[c])
  OBVIOUS
<1>2. m \in Sent /\ m.op = "CALL_OFF" /\ m.call = call[c]
  BY <1>1, PlainType DEF Plain, buildOperation, TypeInv, StateTypes
<1>3. /\ Queue(c, m) /\ state'[c] = "STARTED" /\ call'[c] = 0
      /\ \A d \in Client \ {c} : state'[d] = state[d] /\ call'[d] = call[d]
  BY <1>1 DEF destroy, TypeInv, StateTypes
<1>4. UiOnly(c)
  BY <1>3 DEF UiOnly, Queue, TypeInv, OutputTypes
<1>5. acts \in Nat /\ acts' \in Nat
  BY ActsTyped, ActsTypedNext
<1>6. ASSUME NEW v, NEW w, IsView(v, c), IsView(w, c)', Sane(v, acts)
      PROVE  Sane(w, acts') /\ (~ overtaken' => ~ overtaken /\ StepAgrees(v, w, c))
  BY <1>2, <1>3, <1>4, <1>6, UiQueues, UiView, <1>5, HangsUpSane, HangsUpAgrees DEF HangsUp,
     IsView, UiOnly, StepAgrees
<1>7. ClientOnly(c)
  BY <1>4, UiView
<1>8. QED BY <1>6, <1>7, ClientStep

LEMMA HangUpAgreed ==
  ASSUME TypeInv, TypeInv', ProtocolAgreed, NEW c \in Client, HangUp(c)
  PROVE  ProtocolAgreed'
<1>1. /\ destroy(c) /\ at[c] = "idle" /\ at' = at /\ acts' = acts + 1
      /\ overtaken' = overtaken /\ handler' = handler
      /\ UNCHANGED <<serverVars, channels, thread, received, connections, keys>>
  BY DEF HangUp, Idle, Act, netVars
<1>2. acts <= acts'
  BY <1>1, ActsTyped
<1>3. QED BY <1>1, <1>2, DestroyAgreed

\* A step after which the client has the same view.
LEMMA SameViewAgreed ==
  ASSUME TypeInv, TypeInv', ProtocolAgreed, NEW c \in Client, ClientOnly(c), acts' = acts,
         ~ overtaken' => ~ overtaken,
         \A v, w : IsView(v, c) /\ IsView(w, c)' => Stays(v, w)
  PROVE  ProtocolAgreed'
<1>1. acts \in Nat /\ acts' \in Nat /\ acts <= acts'
  BY ActsTyped
<1>2. ASSUME NEW v, NEW w, IsView(v, c), IsView(w, c)', Sane(v, acts)
      PROVE  Sane(w, acts') /\ (~ overtaken' => ~ overtaken /\ StepAgrees(v, w, c))
  BY <1>2, <1>1, StaysSane, StaysAgrees DEF IsView, StepAgrees
<1>3. QED BY <1>1, <1>2, ClientStep

LEMMA OtherMessages ==
  ASSUME NEW S, NEW p \in Seq(S), NEW e, p # << >>, Head(p) # e
  PROVE  Contains(Tail(p), e) <=> Contains(p, e)
<1>1. Tail(p) \in Seq(S)
  BY TailElements
<1>2. DOMAIN Tail(p) = 1..Len(Tail(p)) /\ DOMAIN p = 1..Len(p)
  BY <1>1
<1>3. Has(p, {e}) <=> Has(Tail(p), {e})
  BY HasTail
<1>4. QED BY <1>2, <1>3 DEF Has, Contains

LEMMA HandleAgreed ==
  ASSUME TypeInv, TypeInv', ProtocolAgreed, NEW c \in Client, handleMessage(c)
  PROVE  ProtocolAgreed'
<1>1. /\ at[c] = "idle" /\ handler[c] # << >> /\ handler'[c] = Tail(handler[c])
      /\ \A d \in Client \ {c} : handler'[d] = handler[d]
      /\ at' = at /\ acts' = acts /\ overtaken' = overtaken
      /\ UNCHANGED <<serverVars, channels, thread, received, connections, keys>>
  BY DEF handleMessage, netVars, TypeInv, UiTypes
<1>2. CASE destroy(c)
  BY <1>1, ActsTyped, <1>2, DestroyAgreed
<1>3. CASE ~ destroy(c)
  <2>1. Head(handler[c]) # "MSG_CALLOFFED" /\ UNCHANGED <<state, outputMessageQueue, call>>
    BY <1>3 DEF handleMessage
  <2>2. UiOnly(c)
    BY <1>1, <2>1 DEF UiOnly
  <2>3. Offed(c)' <=> Offed(c)
    <3>1. PICK S : S = {"MSG_CALLEDFROM", "MSG_CALLRESPONSE", "MSG_CALLOFFED"}
      OBVIOUS
    <3>2. PICK p \in Seq(S) : p = handler[c]
      BY <3>1 DEF TypeInv, UiTypes
    <3>3. Contains(Tail(p), "MSG_CALLOFFED") <=> Contains(p, "MSG_CALLOFFED")
      <4>1. p # << >> /\ Head(p) # "MSG_CALLOFFED"
        BY <1>1, <2>1, <3>2
      <4>2. QED BY ONLY <3>2, <4>1, OtherMessages
    <3>4. QED BY <1>1, <3>2, <3>3 DEF Offed, Contains
  <2>4. Offed(c)' = Offed(c)
    BY <2>3 DEF Offed
  <2>5. ASSUME NEW v, NEW w, IsView(v, c), IsView(w, c)'
        PROVE  Stays(v, w)
    BY <2>1, <2>2, UiView, <1>1, <2>4, <2>5 DEF Stays, IsView
  <2>6. ClientOnly(c)
    BY <2>2, UiView
  <2>7. QED BY <1>1, <2>5, <2>6, SameViewAgreed
<1>4. QED BY <1>2, <1>3

LEMMA PauseAgreed ==
  ASSUME TypeInv, TypeInv', ProtocolAgreed, NEW c \in Client, onPause(c)
  PROVE  ProtocolAgreed'
<1>1. PICK m : m = Plain("BYE", 0)
  OBVIOUS
<1>2. m \in Sent /\ m.op = "BYE" /\ m.call = 0
  BY <1>1, PlainType DEF Plain, buildOperation
<1>3. /\ Queue(c, m) /\ acts' = acts /\ call' = call /\ overtaken' = overtaken
      /\ handler' = handler /\ at[c] = "idle" /\ at'[c] = "onPause"
      /\ state[c] # "CALLING" /\ state'[c] = "ENDED"
      /\ \A d \in Client \ {c} : at'[d] = at[d] /\ state'[d] = state[d]
      /\ UNCHANGED <<serverVars, channels, thread, received, connections, keys>>
  BY <1>1 DEF onPause, Idle, netVars, TypeInv, UiTypes, StateTypes
<1>4. UiOnly(c)
  BY <1>3 DEF UiOnly, Queue, TypeInv, OutputTypes
<1>5. acts \in Nat /\ acts' \in Nat /\ acts <= acts'
  BY <1>3, ActsTyped
<1>6. ASSUME NEW v, NEW w, IsView(v, c), IsView(w, c)', Sane(v, acts)
      PROVE  Sane(w, acts') /\ (~ overtaken' => ~ overtaken /\ StepAgrees(v, w, c))
  BY <1>2, <1>3, <1>4, <1>6, UiQueues, UiView, <1>5, PausesSane, PausesAgrees DEF Pauses, IsView,
     UiOnly, StepAgrees
<1>7. ClientOnly(c)
  BY <1>4, UiView
<1>8. QED BY <1>5, <1>6, <1>7, ClientStep

\* The thread leaves the connection, or the user thread makes it leave.
LEMMA StopAgreed ==
  ASSUME TypeInv, TypeInv', ProtocolAgreed, NEW c \in Client, ClientOnly(c), acts' = acts,
         ~ overtaken' => ~ overtaken, thread'[c] # "connected",
         NEW n \in 0..Len(up[Now(c)]),
         up'[Now(c)] = up[Now(c)] \/ up'[Now(c)] = SubSeq(up[Now(c)], 1, n),
         down'[Now(c)] = down[Now(c)], received'[c] = received[c], state'[c] = state[c],
         call'[c] = call[c], handler'[c] = handler[c], keys'[c] = keys[c],
         at'[c] = at[c] \/ (at[c] = "onPause" /\ at'[c] = "idle")
  PROVE  ProtocolAgreed'
<1>1. acts \in Nat /\ acts' \in Nat /\ acts <= acts'
  BY ActsTyped
<1>2. connections' = connections
  BY DEF ClientOnly
<1>3. UpOf(c)' \in Seq(Sent) /\ Within(UpOf(c)', UpOf(c)) /\ ~ Live(c)'
  BY <1>2, LeftIs
<1>4. DownOf(c)' = DownOf(c) /\ SrvOf(c)' = SrvOf(c) /\ Offed(c)' = Offed(c)
  BY <1>2, DeafIs, ViewRest
<1>5. ASSUME NEW v, NEW w, IsView(v, c), IsView(w, c)', Sane(v, acts)
      PROVE  Sane(w, acts') /\ (~ overtaken' => ~ overtaken /\ StepAgrees(v, w, c))
  BY <1>3, <1>4, <1>5, <1>1, StopsSane, StopsAgrees DEF Stops, IsView, StepAgrees
<1>6. QED BY <1>1, <1>5, ClientStep

LEMMA DoStopAgreed ==
  ASSUME TypeInv, TypeInv', ProtocolAgreed, NEW c \in Client, doStop(c)
  PROVE  ProtocolAgreed'
<1>1. /\ at[c] = "onPause" /\ at'[c] = "idle" /\ thread'[c] # "connected"
      /\ \A d \in Client \ {c} : at'[d] = at[d] /\ thread'[d] = thread[d]
      /\ UNCHANGED <<state, handler, outputMessageQueue, received, connections, keys,
                     serverVars, channels, call, overtaken, acts>>
  BY DEF doStop, TypeInv, UiTypes, NetTypes
<1>2. ClientOnly(c)
  BY <1>1 DEF ClientOnly, serverVars, channels
<1>3. PICK n : n = 0
  OBVIOUS
<1>4. n \in 0..Len(up[Now(c)])
  BY ClientQueues, <1>3
<1>5. up' = up /\ down' = down
  BY <1>1 DEF channels
<1>6. QED BY <1>1, <1>2, <1>4, <1>5, StopAgreed

LEMMA ResumeAgreed ==
  ASSUME TypeInv, TypeInv', ProtocolAgreed, NEW c \in Client, onResume(c)
  PROVE  ProtocolAgreed'
<1>1. /\ at[c] = "idle" /\ state'[c] = "INITED"
      /\ thread'[c] = "connected" <=> thread[c] = "connected"
      /\ \A d \in Client \ {c} : state'[d] = state[d] /\ thread'[d] = thread[d]
      /\ UNCHANGED <<handler, at, outputMessageQueue, received, connections, keys,
                     serverVars, channels, call, acts>>
      /\ ~ overtaken' => ~ overtaken /\ state[c] = "ENDED"
  <2>1. state \in [Client -> State] /\ thread \in [Client -> Thread]
    BY DEF TypeInv, StateTypes, NetTypes
  <2>2. /\ at[c] = "idle" /\ state' = [state EXCEPT ![c] = "INITED"]
        /\ thread' = [thread EXCEPT ![c] = IF @ = "stopped" THEN "closed" ELSE @]
        /\ UNCHANGED <<handler, at, outputMessageQueue, received, connections, keys,
                       serverVars, channels, call, acts>>
    BY DEF onResume
  <2>3. ~ overtaken' => ~ overtaken /\ state[c] = "ENDED"
    BY DEF onResume, Overtaken
  <2>4. /\ state'[c] = "INITED" /\ (thread'[c] = "connected" <=> thread[c] = "connected")
        /\ \A d \in Client \ {c} : state'[d] = state[d] /\ thread'[d] = thread[d]
    BY <2>1, <2>2
  <2>5. QED BY <2>2, <2>3, <2>4
<1>2. ClientOnly(c)
  BY <1>1 DEF ClientOnly, serverVars, channels
<1>3. acts \in Nat /\ acts' \in Nat /\ acts <= acts'
  BY <1>1, ActsTyped
<1>4. /\ Now(c)' = Now(c) /\ up' = up /\ down' = down /\ sessionList' = sessionList
  BY <1>1 DEF Now, channels, serverVars
<1>5. /\ UpOf(c)' = UpOf(c) /\ DownOf(c)' = DownOf(c) /\ SrvOf(c)' = SrvOf(c)
      /\ Live(c)' = Live(c) /\ Offed(c)' = Offed(c)
  BY <1>1, <1>4, <1>2, ViewRest DEF UpOf, Live, DownOf
<1>6. ASSUME NEW v, NEW w, IsView(v, c), IsView(w, c)', Sane(v, acts)
      PROVE  Sane(w, acts') /\ (~ overtaken' => ~ overtaken /\ StepAgrees(v, w, c))
  BY <1>1, <1>5, <1>6, <1>3, ResumesSane, ResumesAgrees DEF Resumes, IsView, StepAgrees
<1>7. QED BY <1>2, <1>3, <1>6, ClientStep

LEMMA CrashAgreed ==
  ASSUME TypeInv, TypeInv', ProtocolAgreed, NEW c \in Client, Crash(c)
  PROVE  ProtocolAgreed'
<1>1. /\ thread'[c] = "stopped" /\ received'[c] = None /\ state'[c] = "ENDED"
      /\ handler'[c] = << >> /\ at'[c] = "idle" /\ call'[c] = 0
      /\ UNCHANGED <<connections, keys, serverVars, channels, overtaken, acts>>
  BY DEF Crash, TypeInv, StateTypes, NetTypes, UiTypes
<1>2. \A d \in Client \ {c} :
        /\ thread'[d] = thread[d] /\ received'[d] = received[d]
        /\ outputMessageQueue'[d] = outputMessageQueue[d] /\ state'[d] = state[d]
        /\ call'[d] = call[d] /\ at'[d] = at[d] /\ handler'[d] = handler[d]
  BY DEF Crash, TypeInv, StateTypes, NetTypes, UiTypes, OutputTypes
<1>3. ClientOnly(c)
  BY <1>1, <1>2 DEF ClientOnly, serverVars, channels
<1>4. acts \in Nat /\ acts' \in Nat /\ acts <= acts'
  BY <1>1, ActsTyped
<1>5. up' = up /\ down' = down /\ connections' = connections
  BY <1>1 DEF channels
<1>6. UpOf(c)' \in Seq(Sent) /\ Within(UpOf(c)', UpOf(c)) /\ ~ Live(c)'
  BY ClientQueues, <1>1, <1>5, LeftIs
<1>7. DownOf(c)' \in Seq(Sent) /\ Within(DownOf(c)', DownOf(c))
  BY <1>1, <1>5, CompletedIs, DeafIs, ClientQueues, WithinItself DEF Shrinks, Within
<1>8. ~ Offed(c)'
  BY <1>1 DEF Offed
<1>9. ASSUME NEW v, NEW w, IsView(v, c), IsView(w, c)', Sane(v, acts)
      PROVE  Sane(w, acts') /\ (~ overtaken' => ~ overtaken /\ StepAgrees(v, w, c))
  BY <1>1, <1>6, <1>7, <1>8, <1>9, <1>4, CrashesSane, CrashesAgrees DEF Crashes, IsView,
     StepAgrees
<1>10. QED BY <1>3, <1>4, <1>9, ClientStep

LEMMA LeavingAgreed ==
  ASSUME TypeInv, TypeInv', ProtocolAgreed, NEW c \in Client, Leaving(c)
  PROVE  ProtocolAgreed'
<1>1. /\ thread[c] # "connected" /\ thread'[c] # "connected"
      /\ \A d \in Client \ {c} : thread'[d] = thread[d]
      /\ UNCHANGED <<state, handler, at, outputMessageQueue, received, connections, keys,
                     serverVars, channels, call, overtaken, acts>>
  BY DEF Leaving, uiVars, TypeInv, NetTypes
<1>2. ClientOnly(c)
  BY <1>1 DEF ClientOnly, serverVars, channels
<1>3. Now(c)' = Now(c) /\ up' = up /\ down' = down
  BY <1>1 DEF Now, channels
<1>4. /\ UpOf(c)' = UpOf(c) /\ DownOf(c)' = DownOf(c) /\ SrvOf(c)' = SrvOf(c)
      /\ Live(c)' = Live(c) /\ Offed(c)' = Offed(c)
  BY <1>1, <1>3, <1>2, ViewRest DEF UpOf, Live, DownOf
<1>5. ASSUME NEW v, NEW w, IsView(v, c), IsView(w, c)'
      PROVE  Stays(v, w)
  BY <1>1, <1>4, <1>5 DEF Stays, IsView
<1>6. QED BY <1>1, <1>2, <1>5, SameViewAgreed

LEMMA LostAgreed ==
  ASSUME TypeInv, TypeInv', ProtocolAgreed, NEW c \in Client, NEW lost, close(c, lost)
  PROVE  ProtocolAgreed'
<1>1. PICK n \in 0..Len(up[Now(c)]) : up' = [up EXCEPT ![Now(c)] = SubSeq(@, 1, n)]
  BY DEF close
<1>2. Now(c) \in Session
  BY NowType DEF TypeInv
<1>3. /\ up'[Now(c)] = SubSeq(up[Now(c)], 1, n)
      /\ \A s \in Session : s # Now(c) => up'[s] = up[s]
  BY <1>1, <1>2 DEF TypeInv, UpTypes
<1>4. /\ thread'[c] = "closed"
      /\ \A d \in Client \ {c} : thread'[d] = thread[d]
      /\ UNCHANGED <<state, handler, at, outputMessageQueue, received, connections, keys,
                     serverVars, down, call, overtaken, acts>>
  BY DEF close, uiVars, TypeInv, NetTypes
<1>5. ClientOnly(c)
  BY <1>3, <1>4 DEF ClientOnly, serverVars
<1>6. thread'[c] # "connected" /\ (~ overtaken' => ~ overtaken)
  BY <1>4
<1>7. QED BY <1>3, <1>4, <1>5, <1>6, StopAgreed

LEMMA WriteAgreed ==
  ASSUME TypeInv, TypeInv', ProtocolAgreed, NEW c \in Client, write(c)
  PROVE  ProtocolAgreed'
<1>1. /\ thread[c] = "connected" /\ outputMessageQueue[c] # << >>
      /\ outputMessageQueue'[c] = Tail(outputMessageQueue[c])
      /\ \A d \in Client \ {c} : outputMessageQueue'[d] = outputMessageQueue[d]
      /\ UNCHANGED <<state, handler, at, thread, received, connections, keys, serverVars,
                     down, call, overtaken, acts>>
  BY DEF write, Looping, uiVars, netVars, TypeInv, OutputTypes
<1>2. PICK m : m = Head(outputMessageQueue[c])
  OBVIOUS
<1>3. Now(c) \in Session
  BY NowType DEF TypeInv
<1>4. /\ \A s \in Session : s # Now(c) => up'[s] = up[s]
      /\ \/ up'[Now(c)] = Append(up[Now(c)], m)
         \/ /\ up'[Now(c)] = up[Now(c)] /\ keys[c] # "AES" /\ m.op # "PUT_PUBLIC_KEY"
            /\ keys[c] # "none" => m.op # "PUT_SECRET_KEY"
  BY <1>2, <1>3 DEF write, TypeInv, UpTypes
<1>5. ClientOnly(c) /\ OnLine(c)
  BY <1>1, <1>4 DEF ClientOnly, OnLine, serverVars
<1>6. acts \in Nat /\ acts' \in Nat /\ acts <= acts'
  BY <1>1, ActsTyped
<1>7. /\ DownOf(c)' = DownOf(c) /\ SrvOf(c)' = SrvOf(c) /\ Live(c)' = Live(c)
      /\ Offed(c)' = Offed(c)
  BY <1>1, <1>5, ViewRest, DeafIs
<1>8. CASE up'[Now(c)] = Append(up[Now(c)], m)
  BY <1>1, <1>2, <1>5, <1>8, WrittenIs, <1>7, SameViewAgreed DEF Stays, IsView
<1>9. CASE up'[Now(c)] # Append(up[Now(c)], m)
  <2>1. /\ up'[Now(c)] = up[Now(c)] /\ keys[c] # "AES" /\ m \notin PublicKey
        /\ keys[c] # "none" => m \notin SecretKey
    BY <1>4, <1>9 DEF PublicKey, SecretKey, All
  <2>2. /\ UpOf(c)' \in Seq(Sent) /\ Within(UpOf(c)', UpOf(c))
        /\ \A M : Has(UpOf(c), M) /\ m \notin M => Has(UpOf(c)', M)
    BY <1>1, <1>2, <1>5, <2>1, WrittenIs
  <2>3. ASSUME NEW v, NEW w, IsView(v, c), IsView(w, c)', Sane(v, acts)
        PROVE  Sane(w, acts') /\ (~ overtaken' => ~ overtaken /\ StepAgrees(v, w, c))
    BY <2>1, <2>2, <1>1, <1>7, <2>3, <1>6, DropsSane, DropsAgrees DEF Drops, IsView, Sane,
       StepAgrees
  <2>4. QED BY <1>5, <1>6, <2>3, ClientStep
<1>10. QED BY <1>8, <1>9

LEMMA MessageAdded ==
  ASSUME NEW S, NEW p \in Seq(S), NEW d \in S, NEW e
  PROVE  Contains(Append(p, d), e) <=> Contains(p, e) \/ d = e
<1>1. Append(p, d) \in Seq(S)
  BY AppendElements
<1>2. DOMAIN Append(p, d) = 1..Len(Append(p, d)) /\ DOMAIN p = 1..Len(p)
  BY <1>1
<1>3. Has(Append(p, d), {e}) <=> Has(p, {e}) \/ d \in {e}
  BY HasAppend
<1>4. QED BY <1>2, <1>3 DEF Has, Contains

\* A message for the handler of the user interface.
LEMMA HandlerGets ==
  ASSUME TypeInv, NEW c \in Client,
         NEW d \in {"MSG_CALLEDFROM", "MSG_CALLRESPONSE", "MSG_CALLOFFED"},
         handler'[c] = Append(handler[c], d)
  PROVE  Offed(c)' <=> Offed(c) \/ d = "MSG_CALLOFFED"
<1>1. PICK S : S = {"MSG_CALLEDFROM", "MSG_CALLRESPONSE", "MSG_CALLOFFED"}
  OBVIOUS
<1>2. PICK p \in Seq(S) : p = handler[c]
  BY <1>1 DEF TypeInv, UiTypes
<1>3. Contains(Append(p, d), "MSG_CALLOFFED") <=> Contains(p, "MSG_CALLOFFED") \/ d = "MSG_CALLOFFED"
  <2>1. d \in S
    BY <1>1
  <2>2. PICK e : e = "MSG_CALLOFFED"
    OBVIOUS
  <2>3. Contains(Append(p, d), e) <=> Contains(p, e) \/ d = e
    BY ONLY <1>2, <2>1, MessageAdded
  <2>4. QED BY <2>2, <2>3
<1>4. QED BY <1>2, <1>3 DEF Offed, Contains

LEMMA ReadReads ==
  ASSUME TypeInv, NEW c \in Client, read(c)
  PROVE  ClientOnly(c) /\ \E m : Reads(c, m)
<1>1. PICK m : m = Head(down[Now(c)])
  OBVIOUS
<1>2. Now(c) \in Session
  BY NowType DEF TypeInv
<1>3. /\ thread[c] = "connected" /\ received[c] = None /\ down[Now(c)] # << >>
      /\ down'[Now(c)] = Tail(down[Now(c)]) /\ up' = up /\ at' = at /\ acts' = acts
      /\ \A s \in Session : s # Now(c) => down'[s] = down[s]
      /\ UNCHANGED <<thread, connections, serverVars>>
      /\ LoggedIn(c, m) \/ Begin(c, m) \/ Ended(c, m) \/ Ignored(c, m)
  BY <1>1, <1>2 DEF read, Looping, TypeInv, DownTypes
<1>4. m \in Sent
  BY ClientQueues, <1>1, <1>3, QueueHead
<1>5. \A d \in Client \ {c} :
        /\ received'[d] = received[d] /\ outputMessageQueue'[d] = outputMessageQueue[d]
        /\ state'[d] = state[d] /\ call'[d] = call[d] /\ handler'[d] = handler[d]
        /\ keys'[d] = keys[d]
  BY <1>3 DEF LoggedIn, Queue, TypeInv, StateTypes, NetTypes, OutputTypes, Begin, Ended, UiTypes,
     Ignored
<1>6. ClientOnly(c)
  BY <1>3, <1>5 DEF ClientOnly, serverVars
<1>7. Reads(c, m)
  BY <1>1, <1>3, <1>4 DEF Reads, OnLine
<1>8. QED BY <1>6, <1>7

\* What it is for the view.
LEMMA ReadsView ==
  ASSUME TypeInv, NEW c \in Client, ClientOnly(c), NEW m, Reads(c, m)
  PROVE  /\ SrvOf(c)' = SrvOf(c) /\ Live(c)' = Live(c)
         /\ handler' = handler => Offed(c)' = Offed(c)
         /\ received' = received => Shrinks(DownOf(c), DownOf(c)', m)
         /\ received'[c] = m => DownOf(c)' = DownOf(c)
         /\ outputMessageQueue' = outputMessageQueue => UpOf(c)' = UpOf(c)
         /\ \A n \in Sent : Queue(c, n) => Grows(UpOf(c), UpOf(c)', n)
<1>1. /\ thread[c] = "connected" /\ received[c] = None /\ OnLine(c) /\ down[Now(c)] # << >>
      /\ m = Head(down[Now(c)]) /\ down'[Now(c)] = Tail(down[Now(c)])
      /\ up'[Now(c)] = up[Now(c)]
  BY DEF Reads
<1>2. SrvOf(c)' = SrvOf(c) /\ Live(c)' = Live(c) /\ (handler' = handler => Offed(c)' = Offed(c))
  BY <1>1, ViewRest DEF OnLine
<1>3. ASSUME received' = received  PROVE Shrinks(DownOf(c), DownOf(c)', m)
  BY <1>1, <1>3, ReadIs
<1>4. ASSUME received'[c] = m  PROVE DownOf(c)' = DownOf(c)
  BY <1>1, <1>4, TakenIs
<1>5. ASSUME outputMessageQueue' = outputMessageQueue  PROVE UpOf(c)' = UpOf(c)
  BY <1>1, <1>5, SilentIs
<1>6. ASSUME NEW n \in Sent, Queue(c, n)  PROVE Grows(UpOf(c), UpOf(c)', n)
  BY <1>1, <1>6, QueuedIs
<1>7. QED BY <1>2, <1>3, <1>4, <1>5, <1>6

LEMMA LoggedInAgreed ==
  ASSUME TypeInv, TypeInv', ProtocolAgreed, NEW c \in Client, ClientOnly(c),
         NEW m, Reads(c, m), LoggedIn(c, m)
  PROVE  ProtocolAgreed'
<1>1. PICK n : n = Plain(Reply[m.op], 0)
  OBVIOUS
<1>2. /\ m.op \in {"PUT_PUBLIC_KEY", "PUT_SECRET_KEY", "VERSION_OK"}
      /\ n.op = (CASE m.op = "PUT_PUBLIC_KEY" -> "PUT_SECRET_KEY"
                   [] m.op = "PUT_SECRET_KEY" -> "PUT_CURRENT_VERSION"
                   [] OTHER -> "PUT_PRANKKEY")
      /\ n.call = 0
  BY <1>1 DEF LoggedIn, Reply, Plain, buildOperation
<1>3. n \in Sent
  BY <1>1, <1>2, PlainType DEF Reply
<1>4. /\ Queue(c, n) /\ received' = received /\ handler' = handler
      /\ keys'[c] = (CASE m.op = "PUT_PUBLIC_KEY" -> "RSA" [] m.op = "PUT_SECRET_KEY" -> "AES"
                       [] OTHER -> keys[c])
      /\ state'[c] = (IF m.op = "VERSION_OK" THEN "STARTED" ELSE state[c])
      /\ call'[c] = (IF m.op = "VERSION_OK" THEN 0 ELSE call[c])
      /\ ~ overtaken' => /\ ~ overtaken
                         /\ m.op = "VERSION_OK" => at[c] \notin {"callTo", "callAccept"}
  <2>1. /\ state \in [Client -> State] /\ call \in [Client -> Nat]
        /\ keys \in [Client -> {"none", "RSA", "AES"}]
    BY DEF TypeInv, StateTypes, NetTypes
  <2>2. /\ Queue(c, n) /\ received' = received /\ handler' = handler
        /\ keys' = [keys EXCEPT ![c] = CASE m.op = "PUT_PUBLIC_KEY" -> "RSA"
                                        [] m.op = "PUT_SECRET_KEY" -> "AES"
                                        [] OTHER -> @]
        /\ state' = [state EXCEPT ![c] = IF m.op = "VERSION_OK" THEN "STARTED" ELSE @]
        /\ call' = [call EXCEPT ![c] = IF m.op = "VERSION_OK" THEN 0 ELSE @]
    BY <1>1 DEF LoggedIn
  <2>3. ~ overtaken' => /\ ~ overtaken
                        /\ m.op = "VERSION_OK" => at[c] \notin {"callTo", "callAccept"}
    BY DEF LoggedIn, Overtaken
  <2>4. keys'[c] = (CASE m.op = "PUT_PUBLIC_KEY" -> "RSA" [] m.op = "PUT_SECRET_KEY" -> "AES"
                      [] OTHER -> keys[c])
    BY <2>1, <2>2
  <2>5. /\ state'[c] = (IF m.op = "VERSION_OK" THEN "STARTED" ELSE state[c])
        /\ call'[c] = (IF m.op = "VERSION_OK" THEN 0 ELSE call[c])
    BY <2>1, <2>2
  <2>6. QED BY <2>2, <2>3, <2>4, <2>5
<1>5. at' = at /\ acts' = acts
  BY DEF Reads
<1>6. acts \in Nat /\ acts' \in Nat /\ acts <= acts'
  BY <1>5, ActsTyped
<1>7. /\ SrvOf(c)' = SrvOf(c) /\ Live(c)' = Live(c) /\ Offed(c)' = Offed(c)
      /\ Shrinks(DownOf(c), DownOf(c)', m) /\ Grows(UpOf(c), UpOf(c)', n)
  BY <1>3, <1>4, ReadsView
<1>8. ASSUME NEW v, NEW w, IsView(v, c), IsView(w, c)', Sane(v, acts)
      PROVE  Sane(w, acts') /\ (~ overtaken' => ~ overtaken /\ StepAgrees(v, w, c))
  <2>1. /\ Shrinks(v.down, w.down, m) /\ Grows(v.up, w.up, n) /\ w.srv = v.srv
        /\ w.live = v.live /\ w.off = v.off /\ w.at = v.at /\ v.at = at[c] /\ ViewType(v)
        /\ v.keys = keys[c] /\ w.keys = keys'[c] /\ v.state = state[c] /\ w.state = state'[c]
        /\ v.call = call[c] /\ w.call = call'[c]
    BY <1>5, <1>7, <1>8 DEF IsView
  <2>2. CASE m.op = "VERSION_OK"
    BY <1>2, <1>3, <1>4, <2>1, <2>2, <1>6, <1>8, IsLoggedInSane, IsLoggedInAgrees DEF IsLoggedIn,
       StepAgrees
  <2>3. CASE m.op # "VERSION_OK"
    BY <1>2, <1>3, <1>4, <2>1, <2>3, <1>6, <1>8, LogsInFurtherSane, LogsInFurtherAgrees
       DEF LogsInFurther, StepAgrees
  <2>4. QED BY <2>2, <2>3
<1>9. QED BY <1>6, <1>8, ClientStep

LEMMA BeginAgreed ==
  ASSUME TypeInv, TypeInv', ProtocolAgreed, NEW c \in Client, ClientOnly(c),
         NEW m, Reads(c, m), Begin(c, m)
  PROVE  ProtocolAgreed'
<1>1. /\ received'[c] = m
      /\ UNCHANGED <<outputMessageQueue, keys, state, handler, call>>
      /\ ~ overtaken' => ~ overtaken
  BY DEF Begin, Overtaken, TypeInv, NetTypes
<1>2. at' = at /\ acts' = acts
  BY DEF Reads
<1>3. /\ SrvOf(c)' = SrvOf(c) /\ Live(c)' = Live(c) /\ Offed(c)' = Offed(c)
      /\ DownOf(c)' = DownOf(c) /\ UpOf(c)' = UpOf(c)
  BY <1>1, ReadsView
<1>4. ASSUME NEW v, NEW w, IsView(v, c), IsView(w, c)'
      PROVE  Stays(v, w)
  BY <1>1, <1>2, <1>3, <1>4 DEF Stays, IsView
<1>5. QED BY <1>1, <1>2, <1>4, SameViewAgreed

LEMMA EndedAgreed ==
  ASSUME TypeInv, TypeInv', ProtocolAgreed, NEW c \in Client, ClientOnly(c),
         NEW m, Reads(c, m), Ended(c, m)
  PROVE  ProtocolAgreed'
<1>1. /\ UNCHANGED <<received, outputMessageQueue, keys>>
      /\ state'[c] = "STARTED" /\ call'[c] = 0
      /\ ~ overtaken' => ~ overtaken /\ m.call = call[c]
      /\ \/ /\ m.op = "CALL_OFF" /\ state[c] \in InCall
            /\ handler'[c] = Append(handler[c], "MSG_CALLOFFED")
         \/ m.op \in Errors /\ state[c] = "WAITCALL" /\ handler' = handler
  BY DEF Ended, Overtaken, TypeInv, StateTypes, UiTypes
<1>2. at' = at /\ acts' = acts
  BY DEF Reads
<1>3. acts \in Nat /\ acts' \in Nat /\ acts <= acts'
  BY <1>2, ActsTyped
<1>4. /\ SrvOf(c)' = SrvOf(c) /\ Live(c)' = Live(c)
      /\ handler' = handler => Offed(c)' = Offed(c)
      /\ Shrinks(DownOf(c), DownOf(c)', m) /\ UpOf(c)' = UpOf(c)
  BY <1>1, ReadsView
<1>5. ASSUME NEW v, NEW w, IsView(v, c), IsView(w, c)', Sane(v, acts)
      PROVE  Sane(w, acts') /\ (~ overtaken' => ~ overtaken /\ StepAgrees(v, w, c))
  BY <1>1, <1>2, <1>4, <1>5, HandlerGets, <1>3, HearsOffSane, HearsOffAgrees, HearsErrorSane,
     HearsErrorAgrees DEF IsView, Errors, HearsOff, StepAgrees, HearsError
<1>6. QED BY <1>3, <1>5, ClientStep

LEMMA IgnoredAgreed ==
  ASSUME TypeInv, TypeInv', ProtocolAgreed, NEW c \in Client, ClientOnly(c),
         NEW m, Reads(c, m), Ignored(c, m)
  PROVE  ProtocolAgreed'
<1>1. /\ UNCHANGED <<received, outputMessageQueue, keys, state, handler, call>>
      /\ m.op \in {"CALLED_FROM", "CALL_RESPONSE", "CALL_ACCEPT", "CALL_OFF",
                   "PUT_PHONENUMBER"} \cup Errors
      /\ ~ overtaken' => /\ ~ overtaken /\ m.op # "CALLED_FROM"
                         /\ m.call = 0 \/ m.call # call[c]
  BY DEF Ignored, Overtaken, Expected
<1>2. at' = at /\ acts' = acts /\ m \in Sent
  BY DEF Reads
<1>3. m \notin Login
  BY <1>1, <1>2, Kinds DEF Errors
<1>4. acts \in Nat /\ acts' \in Nat /\ acts <= acts'
  BY <1>2, ActsTyped
<1>5. /\ SrvOf(c)' = SrvOf(c) /\ Live(c)' = Live(c) /\ Offed(c)' = Offed(c)
      /\ Shrinks(DownOf(c), DownOf(c)', m) /\ UpOf(c)' = UpOf(c)
  BY <1>1, ReadsView
<1>6. ASSUME NEW v, NEW w, IsView(v, c), IsView(w, c)', Sane(v, acts)
      PROVE  Sane(w, acts') /\ (~ overtaken' => ~ overtaken /\ StepAgrees(v, w, c))
  BY <1>1, <1>2, <1>3, <1>5, <1>6, <1>4, IgnoresSane, IgnoresAgrees DEF Ignores, IsView,
     StepAgrees
<1>7. QED BY <1>4, <1>6, ClientStep

LEMMA ReadAgreed ==
  ASSUME TypeInv, TypeInv', ProtocolAgreed, NEW c \in Client, read(c)
  PROVE  ProtocolAgreed'
<1>1. ClientOnly(c) /\ \E m : Reads(c, m)
  BY ReadReads
<1>2. PICK m : Reads(c, m)
  BY <1>1
<1>3. LoggedIn(c, m) \/ Begin(c, m) \/ Ended(c, m) \/ Ignored(c, m)
  BY <1>2 DEF Reads
<1>4. QED BY <1>1, <1>2, <1>3, LoggedInAgreed, BeginAgreed, EndedAgreed, IgnoredAgreed

\* What every step of Complete has in common.
LEMMA CompleteView ==
  ASSUME TypeInv, NEW c \in Client, Complete(c), NEW m, m = received[c]
  PROVE  /\ ClientOnly(c) /\ OnLine(c) /\ acts' = acts /\ at' = at /\ keys' = keys
         /\ m \in Sent /\ Shrinks(DownOf(c), DownOf(c)', m)
         /\ SrvOf(c)' = SrvOf(c) /\ Live(c)' = Live(c)
         /\ handler' = handler => Offed(c)' = Offed(c)
         /\ outputMessageQueue' = outputMessageQueue => UpOf(c)' = UpOf(c)
         /\ \A n \in Sent : Queue(c, n) =>
              \/ Grows(UpOf(c), UpOf(c)', n)
              \/ UpOf(c)' = UpOf(c) /\ ~ Live(c)
         /\ ~ overtaken' => ~ overtaken /\ ~ Stale(c, m)
<1>1. /\ received[c] # None /\ received'[c] = None
      /\ \A d \in Client \ {c} : received'[d] = received[d]
      /\ UNCHANGED <<at, thread, connections, keys, serverVars, channels, acts>>
      /\ ~ overtaken' => ~ overtaken /\ ~ Stale(c, m)
  BY DEF Complete, Overtaken, TypeInv, NetTypes
<1>2. m \in Sent
  BY <1>1 DEF TypeInv, NetTypes
<1>3. \A d \in Client \ {c} :
        /\ outputMessageQueue'[d] = outputMessageQueue[d] /\ handler'[d] = handler[d]
        /\ state'[d] = state[d] /\ call'[d] = call[d]
  BY DEF Complete, Queue, TypeInv, StateTypes, UiTypes, OutputTypes
<1>4. ClientOnly(c)
  BY <1>1, <1>3 DEF ClientOnly, serverVars, channels
<1>5. OnLine(c) /\ up' = up /\ down' = down /\ connections' = connections
  BY <1>1 DEF OnLine, channels
<1>6. Shrinks(DownOf(c), DownOf(c)', m)
  BY <1>1, <1>5, CompletedIs
<1>7. outputMessageQueue' = outputMessageQueue => UpOf(c)' = UpOf(c)
  BY <1>5, SilentIs
<1>8. ASSUME NEW n \in Sent, Queue(c, n)
      PROVE  Grows(UpOf(c), UpOf(c)', n) \/ (UpOf(c)' = UpOf(c) /\ ~ Live(c))
  BY <1>5, <1>8, QueuedIs
<1>9. /\ SrvOf(c)' = SrvOf(c) /\ Live(c)' = Live(c)
      /\ handler' = handler => Offed(c)' = Offed(c)
  BY <1>4, <1>5, ViewRest DEF OnLine
<1>10. QED BY <1>1, <1>2, <1>4, <1>5, <1>6, <1>7, <1>8, <1>9

LEMMA CompleteAgreed ==
  ASSUME TypeInv, TypeInv', ProtocolAgreed, NEW c \in Client, Complete(c)
  PROVE  ProtocolAgreed'
<1>1. PICK m : m = received[c]
  OBVIOUS
<1>2. /\ ClientOnly(c) /\ acts' = acts /\ at' = at /\ keys' = keys
      /\ m \in Sent /\ Shrinks(DownOf(c), DownOf(c)', m)
      /\ SrvOf(c)' = SrvOf(c) /\ Live(c)' = Live(c)
      /\ handler' = handler => Offed(c)' = Offed(c)
      /\ outputMessageQueue' = outputMessageQueue => UpOf(c)' = UpOf(c)
      /\ \A n \in Sent : Queue(c, n) =>
           \/ Grows(UpOf(c), UpOf(c)', n)
           \/ UpOf(c)' = UpOf(c) /\ ~ Live(c)
      /\ ~ overtaken' => ~ overtaken /\ ~ Stale(c, m)
  BY <1>1, CompleteView
<1>3. acts \in Nat /\ acts' \in Nat /\ acts <= acts'
  BY <1>2, ActsTyped
<1>4. CASE m.op = "CALLED_FROM"
  <2>1. /\ state'[c] = "RECEIVEDCALL" /\ call'[c] = m.call
        /\ handler'[c] = Append(handler[c], "MSG_CALLEDFROM")
        /\ UNCHANGED outputMessageQueue
    BY <1>1, <1>4 DEF Complete, TypeInv, StateTypes, UiTypes
  <2>2. Offed(c)' = Offed(c)
    BY <2>1, HandlerGets DEF Offed
  <2>3. ~ overtaken' => state[c] = "STARTED"
    BY <1>2, <1>4 DEF Stale, Expected
  <2>4. ASSUME NEW v, NEW w, IsView(v, c), IsView(w, c)', Sane(v, acts)
        PROVE  Sane(w, acts') /\ (~ overtaken' => ~ overtaken /\ StepAgrees(v, w, c))
    <3>1. IsCalled(v, w, m) /\ ViewType(v) /\ v.state = state[c]
      BY <1>2, <1>4, <2>1, <2>2, <2>4 DEF IsCalled, IsView
    <3>2. Sane(w, acts')
      BY <1>3, <2>4, <3>1, IsCalledSane
    <3>3. m.call # 0
      BY <2>4, <3>1, <1>2, <1>4 DEF Sane, IsCalled, Shrinks, Unborn, BeginOps
    <3>4. ~ overtaken' => StepAgrees(v, w, c)
      BY <2>3, <3>1, <3>3, IsCalledAgrees DEF StepAgrees
    <3>5. QED BY <1>2, <3>2, <3>4
  <2>5. QED BY <1>2, <1>3, <2>4, ClientStep
<1>5. CASE m.op = "CALL_ACCEPT"
  BY <1>1, <1>5, <1>2, <1>3, HearsAcceptSane, HearsAcceptAgrees, ClientStep DEF Complete, TypeInv,
     StateTypes, Stale, Expected, HearsAccept, IsView, StepAgrees
<1>6. CASE m.op = "CALL_RESPONSE"
  <2>1. PICK n : n = buildOperation("CALL_TO2", None, EncodedKey(c), m.call)
    OBVIOUS
  <2>2. /\ Queue(c, n) /\ otherRSACrypto[c] # None
        /\ handler'[c] = Append(handler[c], "MSG_CALLRESPONSE")
        /\ UNCHANGED <<state, call>>
    BY <1>1, <1>6, <2>1 DEF Complete, TypeInv, UiTypes
  <2>3. n \in Sent /\ n.op = "CALL_TO2" /\ n.call = m.call
    BY <2>2, VoiceKeyType, <1>2, <2>1, KeyMessageType, SentFields DEF TypeInv, buildOperation
  <2>4. Offed(c)' = Offed(c)
    BY <2>2, HandlerGets DEF Offed
  <2>5. ~ overtaken' => state[c] = "WAITCALL" /\ m.call = call[c]
    BY <1>2, <1>6 DEF Stale, Expected
  <2>6. ASSUME NEW v, NEW w, IsView(v, c), IsView(w, c)', Sane(v, acts)
        PROVE  Sane(w, acts') /\ (~ overtaken' => ~ overtaken /\ StepAgrees(v, w, c))
    <3>1. v.up = UpOf(c) /\ w.up = UpOf(c)' /\ v.live = Live(c)
      BY <2>6 DEF IsView
    <3>2. UpGets(v, w, n)
      BY <1>2, <2>2, <2>3, <3>1 DEF UpGets
    <3>3. AsksFurther(v, w, m, n) /\ ViewType(v) /\ v.state = state[c] /\ v.call = call[c]
      BY <1>2, <1>6, <2>2, <2>3, <2>4, <2>6, <3>2 DEF AsksFurther, IsView
    <3>4. Sane(w, acts')
      BY <1>3, <2>6, <3>3, AsksFurtherSane
    <3>5. ~ overtaken' => StepAgrees(v, w, c)
      BY <2>5, <3>3, AsksFurtherAgrees DEF StepAgrees
    <3>6. QED BY <1>2, <3>4, <3>5
  <2>7. QED BY <1>2, <1>3, <2>6, ClientStep
<1>7. QED BY <1>1, <1>4, <1>5, <1>6 DEF Complete

\* Everything that was sent has been read.
LEMMA SettledQuiescent ==
  ASSUME TypeInv, Settled, NEW W, W = World
  PROVE  Quiescent(W)
<1>1. ASSUME NEW c \in Client
      PROVE  /\ UpOf(c) = << >> /\ DownOf(c) = << >> /\ at[c] = "idle" /\ ~ Offed(c) /\ Live(c)
  BY DEF Settled, UpOf, DownOf, Offed, Live
<1>2. ASSUME NEW c \in Client
      PROVE  /\ W.up[W.now[c]] = << >> /\ W.down[W.now[c]] = << >>
             /\ W.at[c] = "idle" /\ ~ W.off[c] /\ W.live[c] /\ W.now[c] = Now(c)
  BY WorldView, WorldFields, <1>1, ViewFields
<1>3. W.list = {W.now[c] : c \in Client}
  BY <1>2, WorldFields DEF Settled
<1>4. QED BY <1>2, <1>3 DEF Quiescent

LEMMA RestResting ==
  ASSUME TypeInv, Rest, NEW W, W = World
  PROVE  Resting(W)
<1>1. Quiescent(W)
  BY SettledQuiescent DEF Rest
<1>2. ASSUME NEW c \in Client  PROVE W.state[c] = "STARTED" /\ W.now[c] \notin W.calling
  BY WorldFields, NowType DEF TypeInv, Rest
<1>3. QED BY <1>1, <1>2 DEF Resting

\* At rest nobody is in a call, whatever was overtaken before.
LEMMA RestAgreement ==
  ASSUME TypeInv, Rest, NEW W, W = World, Always(W), NEW c \in Client
  PROVE  Agreement(W)
<1>1. Now(c) \in Session
  BY NowType DEF TypeInv
<1>2. PICK f \in [Nat -> Client], h \in [Nat -> Session] :
        f = [n \in Nat |-> c] /\ h = [n \in Nat |-> Now(c)]
  BY <1>1
<1>3. WorldType(W) /\ Resting(W)
  BY RestResting, WorldTypes
<1>4. Agreed(W, f, h)
  BY <1>3, RestAgreed
<1>5. QED BY <1>4 DEF Agreement

LEMMA DialSane ==
  ASSUME NEW v, NEW w, NEW m, NEW a \in Nat, ViewType(v), Sane(v, a),
         UpGets(v, w, m), m.op = "CALL_TO", m.call = a + 1, w.call = a + 1, w.at = "callTo",
         w.down = v.down, w.keys = v.keys, w.live = v.live
  PROVE  Sane(w, a + 1)
<1>1. a + 1 \in Nat /\ a <= a + 1
  OBVIOUS
<1>2. m \in Sent /\ m \notin Unborn(a + 1)
  BY <1>1 DEF UpGets, Unborn
<1>3. FreeClient(w)
  BY DEF FreeClient
<1>4. KeysComing(w)
  BY DEF Sane, KeysComing, UpGets, Grows
<1>5. ~ Has(w.up, Unborn(a + 1)) /\ ~ Has(w.down, Unborn(a + 1))
  BY <1>1, <1>2, UnbornLess DEF Sane, UpGets, Grows
<1>6. QED BY <1>1, <1>3, <1>4, <1>5 DEF Sane

LEMMA DialAgreed ==
  ASSUME TypeInv, TypeInv', ProtocolAgreed, NEW c \in Client,
         NEW number \in Client \cup {None}, Dial(c, number)
  PROVE  ProtocolAgreed'
<1>1. PICK k, m : k = acts + 1 /\ m = buildOperation("CALL_TO", number, None, k)
  OBVIOUS
<1>2. acts \in Nat /\ k \in Nat /\ acts <= k
  BY <1>1, ActsTyped
<1>3. m \in Sent /\ m.op = "CALL_TO" /\ m.call = k
  BY <1>1, <1>2, NumberMessageType DEF buildOperation
<1>4. /\ Queue(c, m) /\ acts' = k /\ state' = state /\ handler' = handler
      /\ state[c] = "STARTED" /\ at[c] = "idle" /\ at'[c] = "callTo" /\ call'[c] = k
      /\ \A d \in Client \ {c} : at'[d] = at[d] /\ call'[d] = call[d]
      /\ UNCHANGED <<serverVars, channels, thread, received, connections, keys>>
      /\ ~ overtaken' => ~ overtaken \/ Rest
  BY <1>1 DEF Dial, Act, Idle, netVars, TypeInv, UiTypes, StateTypes
<1>5. UiOnly(c)
  BY <1>4 DEF UiOnly, Queue, TypeInv, OutputTypes
<1>6. PICK W : W = World
  OBVIOUS
<1>7. PICK X : X = World'
  OBVIOUS
<1>8. PICK v : v = View(W, c)
  OBVIOUS
<1>9. PICK w : w = View(X, c)
  OBVIOUS
<1>10. WorldType(W) /\ WorldType(X)
  BY <1>6, <1>7, WorldTypes, WorldTypesNext
<1>11. OthersSame(W, X, c)
  BY <1>5, <1>6, <1>7, OnlyClient, UiView
<1>12. IsView(v, c) /\ IsView(w, c)'
  BY <1>6, <1>8, WorldView, <1>7, <1>9, WorldViewNext DEF IsView
<1>13. UpGets(v, w, m)
  BY <1>3, <1>4, <1>5, <1>12, UiQueues
<1>14. /\ w.down = v.down /\ w.srv = v.srv /\ w.live = v.live /\ w.off = v.off
       /\ w.state = v.state /\ w.keys = v.keys /\ v.state = "STARTED" /\ v.at = "idle"
       /\ w.at = "callTo" /\ w.call = k
  BY <1>4, <1>5, UiView, <1>12 DEF IsView
<1>15. Kept(W, overtaken) /\ W.acts = acts /\ X.acts = k
  BY <1>4, <1>6, <1>7, WorldFields, NextWorldFields DEF ProtocolAgreed
<1>16. Always(W)
  BY <1>15 DEF Kept
<1>17. Always(X)
  BY <1>8, <1>10, <1>15, <1>16, AlwaysSane, <1>1, <1>2, <1>3, <1>12, <1>13, <1>14, DialSane, <1>9,
     <1>11, ClientAlways DEF IsView
<1>18. DialsAt(W, X, c, m, k)
  <2>1. X.state = W.state /\ X.keys = W.keys
    BY <1>4, <1>5, <1>6, <1>7, WorldFields, NextWorldFields DEF UiOnly
  <2>2. X.live = W.live /\ X.off = W.off
    <3>1. \A d \in Client : X.live[d] = W.live[d] /\ X.off[d] = W.off[d]
      BY <1>8, <1>9, <1>11, <1>14, ViewFields DEF OthersSame
    <3>2. /\ X.live \in [Client -> BOOLEAN] /\ W.live \in [Client -> BOOLEAN]
          /\ X.off \in [Client -> BOOLEAN] /\ W.off \in [Client -> BOOLEAN]
      BY <1>10 DEF WorldType
    <3>3. X.live = W.live
      BY ONLY <3>1, <3>2
    <3>4. X.off = W.off
      BY ONLY <3>1, <3>2
    <3>5. QED BY <3>3, <3>4
  <2>3. X.down = W.down
    <3>1. \A s \in Session : X.down[s] = W.down[s]
      BY <1>8, <1>9, <1>11, <1>14, ViewFields DEF OthersSame
    <3>2. QED BY <1>10, <3>1 DEF WorldType
  <2>4. /\ W.state[c] = "STARTED" /\ W.at[c] = "idle" /\ X.at[c] = "callTo" /\ X.call[c] = k
    BY <1>8, <1>9, <1>12, <1>14, ViewFields
  <2>5. QED BY <1>1, <1>3, <1>8, <1>9, <1>11, <1>13, <1>15, <2>1, <2>2, <2>3, <2>4 DEF DialsAt
<1>19. ASSUME ~ overtaken'  PROVE Agreement(X)
  <2>1. Agreement(W)
    BY <1>4, <1>6, <1>15, <1>16, <1>19, RestAgreement DEF Kept
  <2>2. PICK f \in [Nat -> Client], h \in [Nat -> Session] : Agreed(W, f, h)
    BY <2>1 DEF Agreement
  <2>3. ClientDials(W, X, c, m, k, f, h)
    BY <1>10, <1>16, <1>18, <2>2 DEF ClientDials
  <2>4. Agreed(X, [f EXCEPT ![k] = c], [h EXCEPT ![k] = W.now[c]])
    BY <2>3, DialsAgreed
  <2>5. /\ [f EXCEPT ![k] = c] \in [Nat -> Client]
        /\ [h EXCEPT ![k] = W.now[c]] \in [Nat -> Session]
    BY <1>2, <1>10, <2>2 DEF WorldType
  <2>6. QED BY <2>4, <2>5 DEF Agreement
<1>20. Kept(X, overtaken')
  BY <1>17, <1>19 DEF Kept
<1>21. QED BY <1>7, <1>20 DEF ProtocolAgreed

(***************************************************************************)
(* A new connection.                                                       *)
(***************************************************************************)
LEMMA ReconnectsAlways ==
  ASSUME NEW W, NEW X, NEW c \in Client, NEW s, NEW m, WorldType(W), WorldType(X),
         Always(W), Reconnects(W, X, c, s, m), X.keys[c] = "none", m.call = 0
  PROVE  Always(X)
<1>1. /\ s \in Session /\ s[1] = c /\ X.now[c] = s /\ X.list = W.list \cup {s}
      /\ X.calling = W.calling /\ X.partner = W.partner /\ X.sCall = W.sCall /\ X.down = W.down
      /\ X.state = W.state /\ X.call = W.call /\ X.at = W.at /\ X.off = W.off
      /\ X.acts = W.acts /\ m \in Sent /\ m.op = "PUT_PUBLIC_KEY"
      /\ \A u \in Session : u # s => X.up[u] = W.up[u]
      /\ \A d \in Client : d # c =>
           X.now[d] = W.now[d] /\ X.live[d] = W.live[d] /\ X.keys[d] = W.keys[d]
      /\ Grows(<< >>, X.up[s], m)
  BY DEF Reconnects
<1>2. W.now[c] \in Session /\ s[2] > W.now[c][2] /\ W.acts \in Nat
  BY <1>1 DEF Reconnects, Ahead, WorldType
<1>3. \A M : Has(X.up[s], M) <=> m \in M
  BY <1>1, HasNone DEF Grows
<1>4. NoneAhead(X)
  BY <1>1, <1>2 DEF NoneAhead, Session, Ahead, Always
<1>5. NotWithItself(X)
  BY <1>1 DEF Always, NotWithItself
<1>6. NoneUnborn(X)
  <2>1. m \notin Unborn(X.acts)
    BY <1>1, <1>2 DEF Unborn, BeginOps
  <2>2. QED BY <1>1, <1>3, <2>1 DEF Always, NoneUnborn
<1>7. Free(X)
  <2>1. SUFFICES ASSUME NEW d \in Client
                 PROVE  FreeClient(View(X, d)) /\ KeysComing(View(X, d))
    BY DEF Free
  <2>2. FreeClient(View(W, d)) /\ KeysComing(View(W, d))
    BY DEF Always, Free
  <2>3. CASE d = c
    BY <1>1, <2>2, ViewFields, <1>3, Kinds, <2>3 DEF FreeClient, KeysComing
  <2>4. CASE d # c
    <3>1. W.now[d] \in Session /\ W.now[d] # s /\ X.now[d] = W.now[d]
      BY <1>1, <2>4 DEF WorldType
    <3>2. View(X, d) = View(W, d)
      BY <1>1, <2>4, <3>1 DEF View, Srv
    <3>3. QED BY <2>2, <3>2
  <2>5. QED BY <2>3, <2>4
<1>8. QED BY <1>4, <1>5, <1>6, <1>7 DEF Always

LEMMA ConnectAgreed ==
  ASSUME TypeInv, TypeInv', Limits, Running, ProtocolAgreed, NEW c \in Client,
         OnNetworkConnected(c)
  PROVE  ProtocolAgreed'
<1>1. PICK s, m : s = <<c, connections[c] + 1>> /\ m = Plain("PUT_PUBLIC_KEY", 0)
  OBVIOUS
<1>2. /\ connections[c] \in Nat /\ s \in Session /\ s[1] = c /\ s[2] = connections[c] + 1
      /\ s # Now(c)
  BY ConnectsInTime, BoundAssumption, <1>1 DEF TypeInv, NetTypes, MaxConnections, Now, Session
<1>3. m \in Sent /\ m.op = "PUT_PUBLIC_KEY" /\ m.call = 0
  BY <1>1, PlainType DEF Plain, buildOperation
<1>4. /\ thread[c] = "closed" /\ thread'[c] = "connected" /\ received[c] = None
      /\ connections'[c] = connections[c] + 1 /\ keys'[c] = "none"
      /\ outputMessageQueue'[c] = <<m>>
      /\ \A d \in Client \ {c} :
           /\ thread'[d] = thread[d] /\ connections'[d] = connections[d]
           /\ keys'[d] = keys[d] /\ outputMessageQueue'[d] = outputMessageQueue[d]
  <2>1. /\ thread \in [Client -> Thread] /\ keys \in [Client -> {"none", "RSA", "AES"}]
        /\ connections \in [Client -> 0..MaxConnections]
        /\ outputMessageQueue \in [Client -> Seq(Sent)]
    BY DEF TypeInv, NetTypes, OutputTypes
  <2>2. /\ thread[c] = "closed" /\ thread' = [thread EXCEPT ![c] = "connected"]
        /\ connections' = [connections EXCEPT ![c] = @ + 1]
        /\ keys' = [keys EXCEPT ![c] = "none"]
        /\ outputMessageQueue' = [outputMessageQueue EXCEPT ![c] = <<m>>]
    BY <1>1 DEF OnNetworkConnected
  <2>3. received[c] = None
    BY <2>2 DEF Running
  <2>4. QED BY <2>1, <2>2, <2>3
<1>5. /\ sState'[s] = "INITED" /\ \A u \in Session : u # s => sState'[u] = sState[u]
      /\ sessionList' = sessionList \cup {s}
      /\ UNCHANGED <<state, at, handler, received, callingSession, sCall, up, down, call,
                     overtaken, acts>>
  BY <1>1, <1>2 DEF OnNetworkConnected, uiVars, channels, TypeInv, PartyTypes
<1>6. /\ Now(c)' = s /\ \A d \in Client : d # c => Now(d)' = Now(d)
      /\ \A d \in Client : Now(d) \in Session /\ Now(d)[1] = d
  BY <1>1, <1>2, <1>4, NowType DEF Now, TypeInv
<1>7. PICK W : W = World
  OBVIOUS
<1>8. PICK X : X = World'
  OBVIOUS
<1>9. WorldType(W) /\ WorldType(X)
  BY <1>7, <1>8, WorldTypes, WorldTypesNext
<1>10. /\ Kept(W, overtaken) /\ Always(W) /\ W.acts = acts /\ X.acts = acts
  BY <1>5, <1>7, <1>8, WorldFields, NextWorldFields DEF ProtocolAgreed, Kept
<1>11. W.now[c] = Now(c) /\ Ahead(W, s)
  BY <1>7, WorldFields, <1>1, <1>2 DEF Now, Ahead
<1>12. up[s] = << >> /\ sState[s] # "CALLING"
  BY <1>2, <1>10, <1>11, <1>7, WorldFields, ConnectsInTime, <1>1 DEF Always, NoneAhead, Limits,
     TypeInv
<1>13. ASSUME NEW u \in Session, u # s
       PROVE  X.up[u] = W.up[u]
  <2>1. W.up[u] = Upward(u) /\ X.up[u] = Upward(u)' /\ u[1] \in Client
    BY <1>7, <1>8, <1>13, WorldFields, NextWorldFields, SessionClient
  <2>2. CASE u[1] = c
    BY <1>4, <1>6, <1>13, <2>2, <1>5, <2>1 DEF Connected, Upward
  <2>3. CASE u[1] # c
    BY <1>4, <1>6, <2>1, <2>3, <1>5 DEF Connected, Upward
  <2>4. QED BY <2>2, <2>3
<1>14. Grows(<< >>, X.up[s], m)
  <2>1. X.up[s] = Upward(s)' /\ Connected(s)'
    BY <1>2, <1>4, <1>6, <1>8, NextWorldFields DEF Connected
  <2>2. << >> \o <<m>> = Append(<< >>, m)
    BY <1>3
  <2>3. X.up[s] = Append(<< >>, m)
    BY <1>2, <1>4, <1>5, <1>12, <2>1, <2>2 DEF Upward
  <2>4. << >> \in Seq(Sent)
    OBVIOUS
  <2>5. QED BY <1>3, <2>3, <2>4, Growth
<1>15. X.down = W.down
  <2>1. ASSUME NEW u \in Session  PROVE X.down[u] = W.down[u]
    <3>1. W.down[u] = Downward(u) /\ X.down[u] = Downward(u)' /\ u[1] \in Client
      BY <1>7, <1>8, WorldFields, NextWorldFields, SessionClient
    <3>2. Reading(u)' = Reading(u)
      BY <1>4, <1>5, <1>6, <3>1 DEF Reading
    <3>3. QED BY <1>5, <3>1, <3>2 DEF Downward
  <2>2. QED BY <1>9, <2>1 DEF WorldType
<1>16. ASSUME NEW d \in Client, d # c
       PROVE  X.now[d] = W.now[d] /\ X.live[d] = W.live[d] /\ X.keys[d] = W.keys[d]
  BY <1>7, <1>8, WorldFields, NextWorldFields, <1>2, <1>6, <1>16, <1>4, <1>5 DEF Live
<1>17. X.calling = W.calling /\ \A u \in Session : u # s /\ u \in W.ended => u \in X.ended
  BY <1>5, <1>7, <1>8, <1>12 DEF World
<1>18. /\ X.state = W.state /\ X.call = W.call /\ X.at = W.at /\ X.off = W.off
       /\ X.partner = W.partner /\ X.sCall = W.sCall /\ X.list = W.list \cup {s}
       /\ X.now[c] = s /\ X.keys[c] = "none"
  BY <1>4, <1>5, <1>6, <1>7, <1>8 DEF World, Offed
<1>19. Reconnects(W, X, c, s, m)
  BY <1>2, <1>3, <1>10, <1>11, <1>13, <1>14, <1>15, <1>16, <1>17, <1>18 DEF Reconnects
<1>20. Always(X)
  BY <1>3, <1>9, <1>10, <1>18, <1>19, ReconnectsAlways
<1>21. ASSUME ~ overtaken'  PROVE Agreement(X)
  BY <1>5, <1>10, <1>21, <1>9, <1>19, ReconnectsAgreed DEF Kept, Agreement, ClientReconnects,
     Always
<1>22. Kept(X, overtaken')
  BY <1>20, <1>21 DEF Kept
<1>23. QED BY <1>8, <1>22 DEF ProtocolAgreed

(***************************************************************************)
(* A step of the server.                                                   *)
(***************************************************************************)
LEMMA WithinJoin ==
  ASSUME NEW m \in Sent, NEW q \in Seq(Sent), NEW n \in 0..Len(q)
  PROVE  Within(<<m>> \o SubSeq(q, 1, n), <<m>> \o q)
<1>1. PICK r \in Seq(Sent) : r = SubSeq(q, 1, n)
  BY QueuePrefix
<1>2. PICK l \in Seq(Sent) : l = <<m>>
  <2>1. <<m>> \in Seq(Sent)
    OBVIOUS
  <2>2. QED BY <2>1
<1>3. PICK p \in Seq(Sent) : p = l \o q
  BY JoinedQueues
<1>4. PICK o \in Seq(Sent) : o = l \o r
  BY JoinedQueues
<1>5. /\ \A M : Has(p, M) <=> Has(l, M) \/ Has(q, M)
      /\ \A M : Has(o, M) <=> Has(l, M) \/ Has(r, M)
  BY <1>3, <1>4, HasJoin
<1>6. Within(r, q)
  BY <1>1, WithinPrefix
<1>7. ASSUME NEW M, Once(p, M)  PROVE Once(o, M)
  <2>1. Len(r) = n /\ n \in Nat /\ n <= Len(q) /\ Len(q) \in Nat /\ Len(l) = 1
    BY <1>1, <1>2
  <2>2. Len(p) = Len(q) + 1 /\ Len(o) = n + 1
    BY <1>2, <1>3, <1>4, <2>1
  <2>3. \A i \in 1..Len(r) : r[i] = q[i]
    BY <1>1, <2>1, QueuePrefix
  <2>4. \A i \in 1..Len(o) : o[i] = IF i = 1 THEN m ELSE r[i - 1]
    BY <1>2, <1>4, <2>1, <2>2
  <2>5. \A i \in 1..Len(p) : p[i] = IF i = 1 THEN m ELSE q[i - 1]
    BY <1>2, <1>3, <2>1, <2>2
  <2>6. \A i \in 1..Len(o) : i \in 1..Len(p) /\ o[i] = p[i]
    <3>1. SUFFICES ASSUME NEW i \in 1..Len(o)  PROVE i \in 1..Len(p) /\ o[i] = p[i]
      OBVIOUS
    <3>2. i \in 1..Len(p)
      BY <2>1, <2>2
    <3>3. i # 1 => i - 1 \in 1..Len(r)
      BY <2>1, <2>2
    <3>4. QED BY <2>3, <2>4, <2>5, <3>2, <3>3
  <2>7. QED BY ONLY <1>7, <2>6 DEF Once
<1>8. Within(o, p)
  BY <1>5, <1>6, <1>7 DEF Within
<1>9. QED BY <1>1, <1>2, <1>3, <1>4, <1>8

LEMMA ServerQueues ==
  ASSUME TypeInv, ServerOnly, NEW W, W = World, NEW X, X = World', NEW u \in Session
  PROVE  /\ up'[u] = up[u] => X.up[u] = W.up[u]
         /\ down'[u] = down[u] => X.down[u] = W.down[u]
         /\ up[u] # << >> /\ up'[u] = Tail(up[u]) => Shrinks(W.up[u], X.up[u], Head(up[u]))
         /\ \A n \in Sent : down'[u] = Append(down[u], n) => Grows(W.down[u], X.down[u], n)
         /\ \A n \in 0..Len(down[u]) : down'[u] = SubSeq(down[u], 1, n) =>
              Within(X.down[u], W.down[u])
<1>1. /\ W.up[u] = Upward(u) /\ W.down[u] = Downward(u)
      /\ X.up[u] = Upward(u)' /\ X.down[u] = Downward(u)'
  BY WorldFields, NextWorldFields
<1>2. /\ Now(u[1])' = Now(u[1]) /\ outputMessageQueue' = outputMessageQueue
      /\ thread' = thread /\ received' = received
  BY DEF Now, ServerOnly
<1>3. (Connected(u)' <=> Connected(u)) /\ (Reading(u)' <=> Reading(u))
  BY <1>2 DEF Connected, Reading
<1>4. PICK l : l = (IF Reading(u) THEN <<received[u[1]]>> ELSE << >>)
  OBVIOUS
<1>5. PICK r : r = (IF Connected(u) THEN outputMessageQueue[u[1]] ELSE << >>)
  OBVIOUS
<1>6. /\ W.up[u] = up[u] \o r /\ X.up[u] = up'[u] \o r
      /\ W.down[u] = l \o down[u] /\ X.down[u] = l \o down'[u]
  BY <1>1, <1>2, <1>3, <1>4, <1>5 DEF Upward, Downward
<1>7. /\ u[1] \in Client /\ up[u] \in Seq(Sent) /\ down[u] \in Seq(Sent)
      /\ outputMessageQueue[u[1]] \in Seq(Sent) /\ received[u[1]] \in Sent \cup {None}
  BY SessionClient DEF TypeInv, UpTypes, DownTypes, OutputTypes, NetTypes
<1>8. r \in Seq(Sent)
  BY <1>5, <1>7
<1>9. l \in Seq(Sent) /\ (l = << >> \/ \E m \in Sent : l = <<m>>)
  BY <1>4, <1>7 DEF Reading
<1>10. PICK p \in Seq(Sent), q \in Seq(Sent) : p = up[u] /\ q = down[u]
  BY <1>7
<1>11. ASSUME p # << >>, up'[u] = Tail(p)
       PROVE  Shrinks(W.up[u], X.up[u], Head(p))
  <2>1. /\ p \o r \in Seq(Sent) /\ p \o r # << >> /\ Head(p \o r) = Head(p)
        /\ Tail(p \o r) = Tail(p) \o r
    BY <1>8, <1>11, JoinedQueues
  <2>2. Shrinks(p \o r, Tail(p \o r), Head(p \o r))
    BY <2>1, Shrinkage
  <2>3. W.up[u] = p \o r /\ X.up[u] = Tail(p \o r)
    BY <1>6, <1>10, <1>11, <2>1
  <2>4. QED BY <2>1, <2>2, <2>3
<1>12. ASSUME NEW n \in Sent, down'[u] = Append(q, n)
       PROVE  Grows(W.down[u], X.down[u], n)
  <2>1. l \o q \in Seq(Sent) /\ l \o Append(q, n) = Append(l \o q, n)
    BY <1>9, JoinedQueues
  <2>2. Grows(l \o q, Append(l \o q, n), n)
    BY <2>1, Growth
  <2>3. W.down[u] = l \o q /\ X.down[u] = Append(l \o q, n)
    BY <1>6, <1>10, <1>12, <2>1
  <2>4. QED BY <2>2, <2>3
<1>13. ASSUME NEW n \in 0..Len(q), down'[u] = SubSeq(q, 1, n)
       PROVE  Within(X.down[u], W.down[u])
  <2>1. W.down[u] = l \o q /\ X.down[u] = l \o SubSeq(q, 1, n)
    BY <1>6, <1>10, <1>13
  <2>2. CASE l = << >>
    BY QueuePrefix, WithinPrefix, <2>1, <2>2
  <2>3. CASE \E m \in Sent : l = <<m>>
    BY <2>3, WithinJoin, <2>1
  <2>4. QED BY <1>9, <2>2, <2>3
<1>14. (up'[u] = up[u] => X.up[u] = W.up[u]) /\ (down'[u] = down[u] => X.down[u] = W.down[u])
  BY <1>6
<1>15. QED BY <1>10, <1>11, <1>12, <1>13, <1>14

LEMMA ServerClients ==
  ASSUME ServerOnly, NEW W, W = World, NEW X, X = World'
  PROVE  /\ ClientsSame(W, X)
         /\ \A d \in Client : /\ W.now[d] = Now(d)
                              /\ X.live[d] <=> thread[d] = "connected" /\ Now(d) \in sessionList'
                              /\ W.live[d] <=> thread[d] = "connected" /\ Now(d) \in sessionList
         /\ sessionList' = sessionList => X.live = W.live
<1>1. \A d : Now(d)' = Now(d)
  BY DEF Now, ServerOnly
<1>2. ClientsSame(W, X)
  BY <1>1 DEF World, ClientsSame, ServerOnly, Offed
<1>3. \A d : /\ Live(d)' <=> thread[d] = "connected" /\ Now(d) \in sessionList'
             /\ Live(d) <=> thread[d] = "connected" /\ Now(d) \in sessionList
             /\ sessionList' = sessionList => Live(d)' = Live(d)
  BY <1>1 DEF Live, ServerOnly
<1>4. sessionList' = sessionList => X.live = W.live
  BY <1>3 DEF World
<1>5. QED BY <1>2, <1>3, <1>4, WorldFields, NextWorldFields

(***************************************************************************)
(* What a step of the server has to keep, for the sessions s and t that it *)
(* is about, and for the clients of these.                                 *)
(***************************************************************************)
LEMMA ServesAlways ==
  ASSUME NEW W, NEW X, NEW s, NEW t, WorldType(W), WorldType(X), Always(W), Serves(W, X, s, t)
  PROVE  Always(X)
<1>1. /\ X.now = W.now /\ X.state = W.state /\ X.call = W.call /\ X.at = W.at
      /\ X.off = W.off /\ X.keys = W.keys /\ X.acts = W.acts /\ X.list \subseteq W.list
      /\ \A d \in Client : X.live[d] => W.live[d] /\ W.now[d] \in X.list
      /\ \A d \in Client : W.now[d] \in Session
      /\ W.list \subseteq Session
      /\ \A u \in Session \ {s, t} :
           /\ X.up[u] = W.up[u] /\ X.down[u] = W.down[u]
           /\ u \in X.calling <=> u \in W.calling
           /\ X.partner[u] = W.partner[u] /\ X.sCall[u] = W.sCall[u]
  BY DEF Serves, ClientsSame, WorldType
<1>2. \A u \in Session : u \in {s, t} => Touches(W, X, u)
  BY DEF Serves
<1>3. /\ NoneAhead(W) /\ NotWithItself(W) /\ NoneUnborn(W) /\ Free(W)
  BY DEF Always
<1>4. \A u \in Session : Ahead(X, u) <=> Ahead(W, u)
  BY <1>1 DEF Ahead
<1>5. NoneAhead(X)
  BY <1>4, <1>2, <1>3, NoneAssumption, <1>1 DEF NoneAhead, Touches
<1>6. NotWithItself(X)
  BY <1>2, NoneAssumption, <1>1, <1>3 DEF Touches, NotWithItself
<1>7. NoneUnborn(X)
  BY <1>3, <1>1, <1>2 DEF NoneUnborn, Touches
<1>8. Free(X)
  <2>1. SUFFICES ASSUME NEW d \in Client
                 PROVE  FreeClient(View(X, d)) /\ KeysComing(View(X, d))
    BY DEF Free
  <2>2. FreeClient(View(W, d)) /\ KeysComing(View(W, d))
    BY <1>3 DEF Free
  <2>3. FreeClient(View(X, d))
    BY <1>1, <2>2, ViewFields DEF FreeClient
  <2>4. PICK u \in Session : u = W.now[d]
    BY <1>1
  <2>5. X.live[d] =>
          /\ Has(W.up[u], PublicKey) \/ Has(W.down[u], PublicKey) =>
               Has(X.up[u], PublicKey) \/ Has(X.down[u], PublicKey)
          /\ Has(W.up[u], SecretKey) \/ Has(W.down[u], SecretKey) =>
               Has(X.up[u], SecretKey) \/ Has(X.down[u], SecretKey)
    BY <1>1, <1>2, <2>4 DEF Touches
  <2>6. /\ View(W, d).live = W.live[d] /\ View(W, d).keys = W.keys[d]
        /\ View(W, d).up = W.up[u] /\ View(W, d).down = W.down[u]
        /\ View(X, d).live = X.live[d] /\ View(X, d).keys = W.keys[d]
        /\ View(X, d).up = X.up[u] /\ View(X, d).down = X.down[u]
    BY <1>1, <2>4, ViewFields
  <2>7. X.live[d] => W.live[d]
    BY <1>1
  <2>8. KeysComing(View(X, d))
    BY ONLY <2>2, <2>5, <2>6, <2>7 DEF KeysComing
  <2>9. QED BY <2>3, <2>8
<1>9. QED BY <1>5, <1>6, <1>7, <1>8 DEF Always

\* The client of a session that is closed.
LEMMA IsClosed ==
  ASSUME NEW f, NEW c, NEW v, NEW w, ClientAgrees(v, c, f), ~ w.live,
         Within(w.down, v.down), w.state = v.state, w.call = v.call, w.at = v.at,
         w.off = v.off
  PROVE  ClientAgrees(w, c, f)
<1>1. CalledOnce(w, c, f)
  BY DEF ClientAgrees, CalledOnce, Within
<1>2. Roles(w, c, f) /\ Accepts(w)
  BY DEF ClientAgrees, Roles, Accepts
<1>3. QED BY <1>1, <1>2 DEF ClientAgrees

(***************************************************************************)
(* The server takes m of s and answers it, or does nothing.                *)
(***************************************************************************)
LEMMA GivesNew ==
  ASSUME NEW m \in Sent, NEW n \in Sent, Gives(m, n), NEW a \in Nat, m \notin Unborn(a)
  PROVE  n \notin Unborn(a)
<1>1. m.call \in Nat /\ n.call \in Nat /\ m.call <= a
  BY SentFields DEF Unborn
<1>2. m.op = "CALL_TO" => m.call # 0
  BY DEF Unborn, BeginOps
<1>3. n.call <= a
  BY <1>1 DEF Gives
<1>4. n.op \in BeginOps => m.op = "CALL_TO" /\ n.call = m.call
  BY DEF Gives, BeginOps, Errors, Answer, LoginOps
<1>5. QED BY <1>1, <1>2, <1>3, <1>4 DEF Unborn

LEMMA TakesAlways ==
  ASSUME NEW W, NEW X, NEW s, NEW m, WorldType(W), WorldType(X), Always(W), Takes(W, X, s, m)
  PROVE  Always(X)
<1>1. /\ s \in W.list /\ s \in Session /\ X.list = W.list /\ W.acts \in Nat
      /\ W.list \subseteq Session
  BY DEF Takes, WorldType
<1>2. /\ NoneAhead(W) /\ NotWithItself(W) /\ NoneUnborn(W)
  BY DEF Always
<1>3. /\ m \in Sent /\ \A M : Has(W.up[s], M) <=> m \in M \/ Has(X.up[s], M)
  BY DEF Takes, Shrinks
<1>4. ~ Ahead(W, s) /\ \A u \in W.list : ~ Ahead(W, u)
  BY <1>1, <1>2 DEF NoneAhead
<1>5. m \notin Unborn(W.acts) /\ m.call <= W.acts
  <2>1. ~ Has(W.up[s], Unborn(W.acts))
    BY <1>1, <1>2 DEF NoneUnborn
  <2>2. m \notin Unborn(W.acts)
    BY <1>3, <2>1
  <2>3. m.call <= W.acts
    BY <1>1, <1>3, <2>2, SentFields DEF Unborn
  <2>4. QED BY <2>2, <2>3
<1>6. ~ Has(X.down[s], Unborn(W.acts))
  BY <1>1, <1>2, <1>3, <1>5, GivesNew DEF NoneUnborn, Grows, Takes, Replied
<1>7. X.sCall[s] <= W.acts
  BY <1>1, <1>2, <1>5 DEF Takes, Replied, Party, NoneUnborn
<1>8. X.partner[s] # None => X.partner[s] # s /\ ~ Ahead(W, X.partner[s])
  BY <1>1, <1>2, <1>4 DEF WorldType, NotWithItself, NoneAhead, Takes, Replied, Party
<1>9. ASSUME NEW M \in {PublicKey, SecretKey}, Has(W.up[s], M) \/ Has(W.down[s], M)
      PROVE  Has(X.up[s], M) \/ Has(X.down[s], M)
  BY <1>3, Kinds, <1>9 DEF Gives, Answer, LoginOps, Grows, Takes, Replied
<1>10. Touches(W, X, s)
  BY <1>1, <1>3, <1>4, <1>6, <1>7, <1>8, <1>9 DEF Touches
<1>11. Serves(W, X, s, s)
  BY <1>1, <1>10 DEF Serves, Takes
<1>12. QED BY <1>11, ServesAlways

(***************************************************************************)
(* Unless it has been overtaken: then what takes s out of a call, or into  *)
(* one, is not answered like that.                                         *)
(***************************************************************************)
LEMMA TakesAnswers ==
  ASSUME NEW W, NEW X, NEW s, NEW m, WorldType(W), WorldType(X), TakesWell(W, X, s, m)
  PROVE  Answers(W, X, s)
  BY DEF TakesWell, Takes, Answers

LEMMA TakesHears ==
  ASSUME NEW W, NEW X, NEW s, NEW m, WorldType(W), WorldType(X), TakesWell(W, X, s, m)
  PROVE  HearsAsBefore(W, X, s)
<1>1. /\ m \in Sent /\ \A M : Has(W.up[s], M) <=> m \in M \/ Has(X.up[s], M)
  BY DEF TakesWell, Takes, Shrinks
<1>2. m.op = "CALL_ACCEPT" => s \notin W.calling
  BY DEF TakesWell, LoginOps
<1>3. \A k \in Calls :
        /\ Has(X.up[s], Off(k)) => Has(W.up[s], Off(k))
        /\ Has(X.up[s], Accepted(k)) => Has(W.up[s], Accepted(k))
        /\ Has(W.up[s], Accepted(k)) /\ s \in W.calling => Has(X.up[s], Accepted(k))
  BY <1>1, <1>2, Kinds
<1>4. CASE m.op \in {"CALL_ACCEPT", "CALL_OFF"} /\ X.down[s] = W.down[s]
  BY <1>1, <1>4, Kinds, <1>3 DEF HearsAsBefore
<1>5. CASE \E n \in Sent : Gives(m, n) /\ Grows(W.down[s], X.down[s], n)
  BY <1>5, <1>1, Kinds, <1>3 DEF Grows, Gives, Answer, LoginOps, Errors, HearsAsBefore
<1>6. QED BY <1>4, <1>5 DEF TakesWell, Takes, Replied

LEMMA TakesKept ==
  ASSUME NEW W, NEW X, NEW s, NEW m, WorldType(W), WorldType(X), TakesWell(W, X, s, m),
         NEW f, NEW h, Together(W, f, h)
  PROVE  AnswersKept(W, X, s)
<1>1. SUFFICES ASSUME NEW k \in Calls
               PROVE  /\ Asks(X, s, k) => Asks(W, s, k)
                      /\ OneQuestion(W, s, k) => OneQuestion(X, s, k)
                      /\ X.sCall[s] = k => W.sCall[s] = k \/ Asks(W, s, k)
                      /\ Pends(X, s, k) /\ X.sCall[s] = k /\ X.partner[s] # None =>
                           \/ X.partner[s] \in W.list
                           \/ Pends(W, s, k) /\ W.sCall[s] = k /\ X.partner[s] = W.partner[s]
                      /\ Has(X.up[s], Asked(k)) /\ X.sCall[s] = k =>
                           \/ X.partner[s] = None
                           \/ /\ Has(W.up[s], Asked(k)) /\ W.sCall[s] = k
                              /\ X.partner[s] = W.partner[s]
  BY DEF AnswersKept
<1>2. /\ m \in Sent /\ \A M : Has(W.up[s], M) <=> m \in M \/ Has(X.up[s], M)
      /\ \A M : Once(W.up[s], M) => Once(X.up[s], M) /\ (m \in M => ~ Has(X.up[s], M))
  BY DEF TakesWell, Takes, Shrinks
<1>3. OneQuestion(W, s, k)
  BY DEF Together, Questions, TakesWell, Takes
<1>4. /\ m \in Token(k) <=> m.op \in TokenOps /\ m.call = k
      /\ m \in Asked(k) => m \in Token(k)
      /\ m.op = "CALL_TO" => m \notin Asked(k)
  BY <1>2, Kinds DEF TokenOps, Errors
\* What comes back for k is for the question that has been taken.
<1>5. /\ Has(X.down[s], Token(k)) => Has(W.down[s], Token(k)) \/ m \in Token(k)
      /\ Once(X.down[s], Token(k))
      /\ \/ m.op = "CALL_TO" /\ X.sCall[s] = m.call /\ X.partner[s] \in W.list
         \/ /\ Has(X.down[s], Answered(k)) => Has(W.down[s], Answered(k))
            /\ X.sCall[s] = W.sCall[s] /\ X.partner[s] \in {W.partner[s], None}
  BY <1>2, <1>3, Kinds, <1>4 DEF OneQuestion, Party, Gives, LoginOps, Answer, TokenOps, Errors,
     Grows, TakesWell, Takes, Replied
<1>6. Asked(k) \subseteq Token(k)
  BY DEF Asked, Token, Of, TokenOps
<1>7. Has(X.up[s], Asked(k)) => Has(X.up[s], Token(k)) /\ Has(W.up[s], Asked(k))
  BY <1>2, <1>6 DEF Has
<1>8. Once(W.up[s], Token(k)) /\ ~ (Has(W.up[s], Token(k)) /\ Has(W.down[s], Token(k)))
  BY <1>3 DEF OneQuestion
<1>9. OneQuestion(X, s, k)
  BY <1>2, <1>5, <1>8 DEF OneQuestion
<1>10. Asks(X, s, k) => Asks(W, s, k)
  BY <1>2, <1>5 DEF Asks
<1>11. CASE m.op = "CALL_TO" /\ X.sCall[s] = m.call /\ X.partner[s] \in W.list
  BY <1>4, <1>11, <1>2, <1>8, <1>7, <1>9, <1>10 DEF TokenOps, Asks
<1>12. CASE /\ Has(X.down[s], Answered(k)) => Has(W.down[s], Answered(k))
            /\ X.sCall[s] = W.sCall[s] /\ X.partner[s] \in {W.partner[s], None}
  BY <1>7, <1>9, <1>10, <1>12 DEF Pends
<1>13. QED BY <1>5, <1>11, <1>12

\* What the client sees of it.
LEMMA TakesView ==
  ASSUME NEW W, NEW X, NEW s, NEW m, WorldType(W), WorldType(X), TakesWell(W, X, s, m),
         NEW f, NEW d \in Client, W.now[d] = s, ClientAgrees(View(W, d), d, f)
  PROVE  ClientAgrees(View(X, d), d, f)
<1>1. PICK v : v = View(W, d)
  OBVIOUS
<1>2. PICK w : w = View(X, d)
  OBVIOUS
<1>3. ViewType(v) /\ ClientAgrees(v, d, f)
  BY <1>1, ViewTyped
<1>4. /\ X.now[d] = s /\ X.state = W.state /\ X.call = W.call /\ X.at = W.at /\ X.off = W.off
      /\ X.keys = W.keys /\ X.live = W.live /\ Srv(X, s) = Srv(W, s)
      /\ s \notin W.calling => Srv(W, s) = 0
  BY DEF TakesWell, Takes, ClientsSame, Srv
<1>5. /\ w.state = v.state /\ w.call = v.call /\ w.at = v.at /\ w.off = v.off
      /\ w.keys = v.keys /\ w.live = v.live /\ w.srv = v.srv
      /\ v.up = W.up[s] /\ w.up = X.up[s] /\ v.down = W.down[s] /\ w.down = X.down[s]
      /\ s \notin W.calling => v.srv = 0
  BY <1>1, <1>2, <1>4, ViewFields
<1>6. Shrinks(v.up, w.up, m) /\ (m.op \notin LoginOps => v.srv = 0)
  BY <1>5 DEF TakesWell, Takes
<1>7. CASE m.op \in {"CALL_ACCEPT", "CALL_OFF"} /\ X.down[s] = W.down[s]
  BY <1>6, <1>7, <1>5, <1>3, IsHeard, <1>2 DEF LoginOps
<1>8. CASE \E n \in Sent : Gives(m, n) /\ Grows(W.down[s], X.down[s], n) /\ m.op # "CALL_ACCEPT"
  BY <1>8, <1>5, <1>3, <1>6, IsAnsweredLogin, <1>2, IsNumbered, IsRefused, IsResponded DEF Gives,
     LoginOps, Answer, Errors
<1>9. m.op = "CALL_ACCEPT" => X.down[s] = W.down[s]
  BY DEF TakesWell
<1>10. QED BY <1>7, <1>8, <1>9 DEF TakesWell, Takes, Replied

LEMMA TakesAgreed ==
  ASSUME NEW W, NEW X, NEW s, NEW m, WorldType(W), WorldType(X), Always(W),
         TakesWell(W, X, s, m), Agreement(W)
  PROVE  Agreement(X)
<1>1. PICK f \in [Nat -> Client], h \in [Nat -> Session] : Agreed(W, f, h)
  BY DEF Agreement
<1>2. /\ Together(W, f, h) /\ \A d \in Client : ClientAgrees(View(W, d), d, f)
  BY <1>1 DEF Agreed
<1>3. Answers(W, X, s) /\ AnswersKept(W, X, s) /\ HearsAsBefore(W, X, s)
  BY <1>2, TakesAnswers, TakesKept, TakesHears
<1>4. ServerAnswers(W, X, s, f, h)
  BY <1>2, <1>3 DEF ServerAnswers
<1>5. Together(X, f, h)
  BY <1>4, ServerAnswersTogether
<1>6. \A d \in Client : W.now[d] = s => ClientAgrees(View(X, d), d, f)
  BY <1>2, TakesView
<1>7. ASSUME NEW d \in Client, W.now[d] # s  PROVE ClientAgrees(View(X, d), d, f)
  <2>1. /\ W.now[d] \in Session /\ X.now = W.now /\ X.calling = W.calling
        /\ X.up[W.now[d]] = W.up[W.now[d]] /\ X.down[W.now[d]] = W.down[W.now[d]]
        /\ X.sCall[W.now[d]] = W.sCall[W.now[d]]
        /\ X.state = W.state /\ X.call = W.call /\ X.at = W.at /\ X.off = W.off
        /\ X.keys = W.keys /\ X.live = W.live
    BY <1>7 DEF WorldType, TakesWell, Takes, ClientsSame
  <2>2. View(X, d) = View(W, d)
    BY <2>1 DEF View, Srv
  <2>3. QED BY <1>2, <2>2
<1>8. Agreed(X, f, h)
  BY <1>5, <1>6, <1>7 DEF Agreed
<1>9. QED BY <1>8 DEF Agreement

(***************************************************************************)
(* The server takes m of s and tells its partner t, which it connects with *)
(* it or is in a call with.                                                *)
(***************************************************************************)
LEMMA PassesCall ==
  ASSUME NEW W, NEW X, NEW s, NEW t, NEW m, NEW n, WorldType(W), Always(W),
         Passes(W, X, s, t, m, n)
  PROVE  /\ m \in Sent /\ m.call \in Nat /\ m.call <= W.acts /\ m \notin Unborn(W.acts)
         /\ n \notin Unborn(W.acts)
         /\ m.op = "CALL_TO2" => m.call # 0
         /\ s \in Session /\ ~ Ahead(W, s) /\ ~ Ahead(W, t) /\ s # t
<1>1. /\ s \in W.list /\ s \in Session /\ t \in Session /\ W.partner[s] = t /\ W.acts \in Nat
  BY DEF Passes, WorldType
<1>2. /\ NoneAhead(W) /\ NotWithItself(W) /\ NoneUnborn(W)
  BY DEF Always
<1>3. /\ m \in Sent /\ \A M : Has(W.up[s], M) <=> m \in M \/ Has(X.up[s], M)
  BY DEF Passes, Shrinks
<1>4. ~ Has(W.up[s], Unborn(W.acts))
  BY <1>1, <1>2 DEF NoneUnborn
<1>5. m \notin Unborn(W.acts)
  BY <1>3, <1>4
<1>6. m.call \in Nat /\ m.call <= W.acts /\ (m.op = "CALL_TO2" => m.call # 0)
  BY <1>1, <1>3, <1>5, SentFields DEF Unborn, BeginOps
<1>7. /\ n.call = m.call /\ (n.op \in BeginOps => m.op = "CALL_TO2")
  BY DEF Passes, BeginOps
<1>8. n \notin Unborn(W.acts)
  BY <1>1, <1>6, <1>7 DEF Unborn
<1>9. ~ Ahead(W, s) /\ ~ Ahead(W, t) /\ s # t
  BY <1>1, <1>2 DEF NoneAhead, NotWithItself
<1>10. QED BY <1>1, <1>3, <1>5, <1>6, <1>8, <1>9

LEMMA PassesAlways ==
  ASSUME NEW W, NEW X, NEW s, NEW t, NEW m, NEW n, WorldType(W), WorldType(X), Always(W),
         Passes(W, X, s, t, m, n)
  PROVE  Always(X)
<1>1. /\ m \in Sent /\ m.call \in Nat /\ m.call <= W.acts /\ n \notin Unborn(W.acts)
      /\ s \in Session /\ ~ Ahead(W, s) /\ ~ Ahead(W, t) /\ s # t
  BY PassesCall
<1>2. /\ NoneAhead(W) /\ NotWithItself(W) /\ NoneUnborn(W)
  BY DEF Always
<1>3. /\ t \in Session /\ X.list = W.list
      /\ X.up[t] = W.up[t] /\ X.down[s] = W.down[s]
      /\ \A M : Has(W.up[s], M) <=> m \in M \/ Has(X.up[s], M)
      /\ \A M : Has(X.down[t], M) <=> Has(W.down[t], M) \/ n \in M
      /\ X.partner[s] = t /\ X.partner[t] \in {W.partner[t], s}
      /\ X.sCall[s] \in {W.sCall[s], m.call} /\ X.sCall[t] \in {W.sCall[t], m.call}
  BY <1>1 DEF Passes, OthersQueues, Shrinks, Grows
<1>4. \A u \in {s, t} : X.sCall[u] <= W.acts
  BY <1>1, <1>2, <1>3 DEF NoneUnborn
<1>5. W.partner[t] # None => W.partner[t] # t /\ ~ Ahead(W, W.partner[t])
  BY <1>3, <1>2 DEF WorldType, NoneAhead, NotWithItself
<1>6. m \notin PublicKey /\ m \notin SecretKey
  BY <1>1, Kinds DEF Passes
<1>7. ~ Has(W.down[s], Unborn(W.acts)) /\ ~ Has(W.down[t], Unborn(W.acts))
  BY <1>1, <1>2, <1>3 DEF NoneUnborn
<1>8. Touches(W, X, s)
  BY <1>1, <1>3, <1>4, <1>6, <1>7 DEF Touches
<1>9. Touches(W, X, t)
  BY <1>1, <1>3, <1>4, <1>5, <1>7 DEF Touches
<1>10. Serves(W, X, s, t)
  BY <1>8, <1>9 DEF Serves, Passes, OthersQueues
<1>11. QED BY <1>10, ServesAlways

LEMMA PassesServes ==
  ASSUME NEW W, NEW X, NEW s, NEW t, NEW m, NEW n, WorldType(W), WorldType(X), Always(W),
         Passes(W, X, s, t, m, n), NEW f, NEW h, Agreed(W, f, h), Together(X, f, h),
         \A d \in Client : W.now[d] \in {s, t} => ClientAgrees(View(X, d), d, f)
  PROVE  Agreed(X, f, h)
<1>1. \A d \in Client : W.now[d] \notin {s, t} => View(X, d) = View(W, d)
  <2>1. SUFFICES ASSUME NEW d \in Client, W.now[d] \notin {s, t}
                 PROVE  View(X, d) = View(W, d)
    OBVIOUS
  <2>2. W.now[d] \in Session
    BY DEF WorldType
  <2>3. QED BY <2>1, <2>2 DEF Passes, OthersQueues, ClientsSame, View, Srv
<1>2. QED BY <1>1 DEF Agreed

LEMMA ForwardsAgreed ==
  ASSUME NEW W, NEW X, NEW s, NEW t, NEW m, NEW n, WorldType(W), WorldType(X), Always(W),
         Passes(W, X, s, t, m, n), m.op = "CALL_ACCEPT", s \in W.calling, m.call = W.sCall[s],
         X.calling = W.calling, X.ended = W.ended, X.partner = W.partner, X.sCall = W.sCall,
         Agreement(W)
  PROVE  Agreement(X)
<1>1. PICK f \in [Nat -> Client], h \in [Nat -> Session] : Agreed(W, f, h)
  BY DEF Agreement
<1>2. /\ Together(W, f, h) /\ \A d \in Client : ClientAgrees(View(W, d), d, f)
  BY <1>1 DEF Agreed
<1>3. s # t /\ s \in Session /\ t \in Session
  <2>1. s # t /\ s \in Session
    BY PassesCall
  <2>2. QED BY <2>1 DEF Passes
<1>4. Forwards(W, X, s, m, n)
  BY DEF Passes, Forwards
<1>5. Together(X, f, h)
  BY <1>2, <1>4, ForwardsTogether DEF ServerForwards
<1>6. ASSUME NEW d \in Client, W.now[d] \in {s, t}  PROVE ClientAgrees(View(X, d), d, f)
  <2>1. PICK v : v = View(W, d)
    OBVIOUS
  <2>2. PICK w : w = View(X, d)
    OBVIOUS
  <2>3. PICK u \in Session : u = W.now[d]
    BY <1>3, <1>6
  <2>4. ViewType(v) /\ ClientAgrees(v, d, f)
    BY <1>2, <2>1, ViewTyped
  <2>5. /\ X.now[d] = u /\ X.state = W.state /\ X.call = W.call /\ X.at = W.at
        /\ X.off = W.off /\ X.keys = W.keys /\ X.live = W.live /\ Srv(X, u) = Srv(W, u)
    BY <2>3 DEF Passes, ClientsSame, Srv
  <2>6. /\ w.state = v.state /\ w.call = v.call /\ w.at = v.at /\ w.off = v.off
        /\ w.keys = v.keys /\ w.live = v.live /\ w.srv = v.srv
        /\ v.up = W.up[u] /\ w.up = X.up[u] /\ v.down = W.down[u] /\ w.down = X.down[u]
    BY <2>1, <2>2, <2>3, <2>5, ViewFields
  <2>7. CASE u = s
    BY <1>3, <2>6, <2>7, <2>4, IsHeard, <2>2 DEF Passes, OthersQueues
  <2>8. CASE u = t
    BY <1>3, <2>6, <2>8, <2>4, IsTold, <2>2 DEF Passes, OthersQueues
  <2>9. QED BY <1>6, <2>3, <2>7, <2>8
<1>7. Agreed(X, f, h)
  BY <1>1, <1>5, <1>6, PassesServes
<1>8. QED BY <1>7 DEF Agreement

LEMMA ConnectsAgreed ==
  ASSUME NEW W, NEW X, NEW s, NEW t, NEW m, NEW n, WorldType(W), WorldType(X), Always(W),
         Passes(W, X, s, t, m, n), m.op = "CALL_TO2", s \notin W.calling, t \notin W.calling,
         t \notin W.ended, m.call = W.sCall[s], X.calling = W.calling \cup {s, t},
         W.ended \subseteq X.ended, X.partner[t] = s, X.sCall[s] = m.call,
         X.sCall[t] = m.call, Agreement(W)
  PROVE  Agreement(X)
<1>1. PICK f \in [Nat -> Client], h \in [Nat -> Session] : Agreed(W, f, h)
  BY DEF Agreement
<1>2. /\ Together(W, f, h) /\ \A d \in Client : ClientAgrees(View(W, d), d, f)
  BY <1>1 DEF Agreed
<1>3. s # t /\ s \in Session /\ m.call # 0 /\ m.call \in Nat
  BY PassesCall
<1>4. t \in Session /\ n \in Sent /\ n.op = "CALLED_FROM" /\ n.call = m.call
  BY DEF Passes
<1>5. Connects(W, X, s, t, m, n)
  BY <1>3, <1>4 DEF Passes, Connects
<1>6. ServerConnects(W, X, s, t, m, n, f, h)
  BY <1>2, <1>5 DEF ServerConnects
<1>7. Together(X, f, h)
  BY <1>6, ConnectsTogether
<1>8. /\ f[m.call] = s[1] /\ NotBegun(W, s, m.call) /\ t # W.now[s[1]] /\ t \in W.list
  BY <1>6, ConnectsCall
<1>9. ASSUME NEW d \in Client, W.now[d] \in {s, t}  PROVE ClientAgrees(View(X, d), d, f)
  <2>1. PICK v : v = View(W, d)
    OBVIOUS
  <2>2. PICK w : w = View(X, d)
    OBVIOUS
  <2>3. PICK u \in Session : u = W.now[d]
    BY <1>3, <1>4, <1>9
  <2>4. ViewType(v) /\ ClientAgrees(v, d, f)
    BY <1>2, <2>1, ViewTyped
  <2>5. /\ X.now[d] = u /\ X.state = W.state /\ X.call = W.call /\ X.at = W.at
        /\ X.off = W.off /\ X.keys = W.keys /\ X.live = W.live
    BY <2>3 DEF Passes, ClientsSame
  <2>6. Srv(W, u) = 0 /\ Srv(X, u) = m.call
    BY <1>9, <2>3 DEF Srv
  <2>7. /\ w.state = v.state /\ w.call = v.call /\ w.at = v.at /\ w.off = v.off
        /\ w.keys = v.keys /\ w.live = v.live /\ v.srv = 0 /\ w.srv = m.call
        /\ v.up = W.up[u] /\ w.up = X.up[u] /\ v.down = W.down[u] /\ w.down = X.down[u]
        /\ v.live = W.live[d] /\ v.call = W.call[d]
    BY <2>1, <2>2, <2>3, <2>5, <2>6, ViewFields
  <2>8. CASE u = s
    BY <1>3, <2>7, <2>8, <1>2, <2>1, RulesOfTokens, <2>4, IsConnected, <2>2 DEF Passes,
       OthersQueues
  <2>9. CASE u = t
    BY <1>3, <1>4, <2>7, <2>9, <1>8, <2>3, <2>4, IsRung, <2>2 DEF Passes, OthersQueues, NotBegun
  <2>10. QED BY <1>9, <2>3, <2>8, <2>9
<1>10. Agreed(X, f, h)
  BY <1>1, <1>7, <1>9, PassesServes
<1>11. QED BY <1>10 DEF Agreement

(***************************************************************************)
(* The session s leaves its call, because of m or because it is closed.    *)
(***************************************************************************)
LEMMA EndsWithin ==
  ASSUME NEW W, NEW X, NEW s, NEW n, Departs(W, X, s, n)
  PROVE  Within(X.up[s], W.up[s]) /\ Within(X.down[s], W.down[s])
<1>1. CASE Shuts(W, X, s)
  BY <1>1 DEF Shuts, Within
<1>2. CASE \E m \in Sent : HangsOff(W, X, s, m)
  BY <1>2 DEF HangsOff, Within, Shrinks
<1>3. QED BY <1>1, <1>2 DEF Departs

LEMMA EndsAlways ==
  ASSUME NEW W, NEW X, NEW s, NEW n, WorldType(W), WorldType(X), Always(W), Departs(W, X, s, n)
  PROVE  Always(X)
<1>1. /\ NoneAhead(W) /\ NotWithItself(W) /\ NoneUnborn(W)
  BY DEF Always
<1>2. /\ s \in W.list /\ s \in Session /\ ~ Ahead(W, s) /\ W.acts \in Nat
      /\ W.partner[s] \in Session \cup {None} /\ None \notin Session
      /\ W.sCall[s] \in Nat /\ W.sCall[s] <= W.acts
  BY <1>1, NoneAssumption DEF Departs, WorldType, NoneAhead, NoneUnborn
<1>3. /\ X.sCall[s] = 0 /\ X.partner[s] = None
      /\ \A M : Has(X.up[s], M) => Has(W.up[s], M)
      /\ \A M : Has(X.down[s], M) => Has(W.down[s], M)
  BY EndsWithin DEF Departs, Within
<1>4. s \in X.list =>
        /\ Has(W.up[s], PublicKey) \/ Has(W.down[s], PublicKey) =>
             Has(X.up[s], PublicKey) \/ Has(X.down[s], PublicKey)
        /\ Has(W.up[s], SecretKey) \/ Has(W.down[s], SecretKey) =>
             Has(X.up[s], SecretKey) \/ Has(X.down[s], SecretKey)
  BY Kinds DEF Shuts, HangsOff, Shrinks, Departs
<1>5. ~ Has(X.down[s], Unborn(W.acts))
  BY <1>1, <1>2, <1>3 DEF NoneUnborn
<1>6. Touches(W, X, s)
  BY <1>2, <1>3, <1>4, <1>5 DEF Touches
<1>7. CASE W.partner[s] = None
  BY <1>2, <1>7, <1>6, ServesAlways DEF Serves, Departs
<1>8. CASE W.partner[s] # None
  <2>1. PICK t \in Session : t = W.partner[s]
    BY <1>2, <1>8
  <2>2. /\ X.partner[t] = None /\ X.sCall[t] = 0 /\ X.up[t] = W.up[t]
        /\ Grows(W.down[t], X.down[t], n)
        /\ n \in Sent /\ n.op = "CALL_OFF" /\ n.call = W.sCall[s]
    BY <1>8, <2>1 DEF Departs
  <2>3. n \notin Unborn(W.acts)
    BY <1>2, <2>2 DEF Unborn, BeginOps
  <2>4. ~ Ahead(W, t)
    BY <1>1, <1>2, <2>1 DEF NoneAhead
  <2>5. ~ Has(X.down[t], Unborn(W.acts))
    BY <1>1, <2>2, <2>3 DEF NoneUnborn, Grows
  <2>6. \A M : Has(W.down[t], M) => Has(X.down[t], M)
    BY <2>2 DEF Grows
  <2>7. Touches(W, X, t)
    BY <1>2, <2>2, <2>4, <2>5, <2>6 DEF Touches
  <2>8. Serves(W, X, s, t)
    BY <1>6, <2>1, <2>7 DEF Serves, Departs
  <2>9. QED BY <2>8, ServesAlways
<1>9. QED BY <1>7, <1>8

LEMMA EndsLeaves ==
  ASSUME NEW W, NEW X, NEW s, NEW n, WorldType(W), WorldType(X), Always(W),
         EndsWell(W, X, s, n)
  PROVE  Leaves(W, X, s, n)
<1>1. Within(X.up[s], W.up[s]) /\ Within(X.down[s], W.down[s])
  BY EndsWithin DEF EndsWell
<1>2. s \in Session /\ W.partner[s] # s
  BY DEF EndsWell, Departs, WorldType, Always, NotWithItself
<1>3. (s \in X.list => s \in W.calling) /\ (s \notin X.list => s \in X.ended)
  BY DEF EndsWell, Departs, Shuts, HangsOff
<1>4. W.partner[s] # None => W.partner[W.partner[s]] = s
  BY DEF EndsWell
<1>5. Departs(W, X, s, n)
  BY DEF EndsWell
<1>6. QED BY ONLY <1>1, <1>2, <1>3, <1>4, <1>5 DEF Departs, Leaves

LEMMA EndsAgreed ==
  ASSUME NEW W, NEW X, NEW s, NEW n, WorldType(W), WorldType(X), Always(W),
         EndsWell(W, X, s, n), Agreement(W)
  PROVE  Agreement(X)
<1>1. PICK f \in [Nat -> Client], h \in [Nat -> Session] : Agreed(W, f, h)
  BY DEF Agreement
<1>2. /\ Together(W, f, h) /\ \A d \in Client : ClientAgrees(View(W, d), d, f)
  BY <1>1 DEF Agreed
<1>3. Together(X, f, h)
  BY EndsLeaves, <1>2, LeavesTogether DEF ServerLeaves
<1>4. Departs(W, X, s, n)
  BY DEF EndsWell
<1>5. /\ s \in W.list /\ s \in Session /\ W.partner[s] # s
      /\ W.partner[s] \in Session \cup {None}
  BY <1>4 DEF Departs, WorldType, Always, NotWithItself
<1>6. Mates(W)
  BY <1>2 DEF Together
<1>7. ASSUME NEW d \in Client  PROVE ClientAgrees(View(X, d), d, f)
  <2>1. PICK v : v = View(W, d)
    OBVIOUS
  <2>2. PICK w : w = View(X, d)
    OBVIOUS
  <2>3. PICK u \in Session : u = W.now[d]
    BY DEF WorldType
  <2>4. ViewType(v) /\ ClientAgrees(v, d, f)
    BY <1>2, <2>1, ViewTyped
  <2>5. /\ X.now[d] = u /\ X.state = W.state /\ X.call = W.call /\ X.at = W.at
        /\ X.off = W.off /\ X.keys = W.keys
    BY <1>4, <2>3 DEF Departs, ClientsSame
  <2>6. /\ w.state = v.state /\ w.call = v.call /\ w.at = v.at /\ w.off = v.off
        /\ w.keys = v.keys /\ v.srv = Srv(W, u) /\ w.srv = Srv(X, u)
        /\ v.up = W.up[u] /\ w.up = X.up[u] /\ v.down = W.down[u] /\ w.down = X.down[u]
        /\ v.live = W.live[d] /\ w.live = X.live[d]
    BY <2>1, <2>2, <2>3, <2>5, ViewFields
  <2>7. CASE u = s
    <3>1. CASE Shuts(W, X, s)
      <4>1. ~ w.live /\ Within(w.down, v.down)
        <5>1. X.live[d] => X.now[d] \in X.list
          BY DEF WorldType
        <5>2. X.now[d] \notin X.list /\ Within(X.down[u], W.down[u])
          BY <2>5, <2>7, <3>1 DEF Shuts
        <5>3. QED BY <2>6, <5>1, <5>2
      <4>2. ClientAgrees(w, d, f)
        BY <2>4, <2>6, <4>1, IsClosed
      <4>3. QED BY <2>2, <4>2
    <3>2. CASE \E m \in Sent : HangsOff(W, X, s, m) /\ s \in W.calling /\ m.call = W.sCall[s]
      BY <3>2, <2>6, <2>7, <1>4, <1>5, <1>6, <2>4, EndsCall, <2>2 DEF HangsOff, Srv, Departs,
         Mates
    <3>3. QED BY <3>1, <3>2 DEF EndsWell
  <2>8. CASE u # s /\ u = W.partner[s]
    <3>1. W.partner[s] # None
      BY <2>8, NoneAssumption
    <3>2. /\ u \notin X.calling /\ w.up = v.up /\ Grows(v.down, w.down, n)
          /\ n \in Sent /\ n.op = "CALL_OFF" /\ n.call = W.sCall[s]
      BY <1>4, <2>6, <2>8, <3>1 DEF Departs
    <3>3. w.srv = 0 /\ w.live = v.live
      BY <1>4, <2>3, <2>6, <2>8, <3>2 DEF Srv, Departs
    <3>4. v.live => v.srv \in {0, n.call}
      <4>1. SUFFICES ASSUME v.live, u \in W.calling  PROVE W.sCall[u] = n.call
        BY <2>6 DEF Srv
      <4>2. u \in W.list
        BY <2>3, <2>6, <4>1 DEF WorldType
      <4>3. W.partner[u] = s
        BY <2>8, <3>1 DEF EndsWell
      <4>4. QED BY <1>6, <3>2, <4>1, <4>2, <4>3 DEF Mates
    <3>5. ClientAgrees(w, d, f)
      BY <2>4, <2>6, <3>2, <3>3, <3>4, IsToldOff
    <3>6. QED BY <2>2, <3>5
  <2>9. CASE u # s /\ u # W.partner[s]
    <3>1. /\ w.up = v.up /\ w.down = v.down /\ w.srv = v.srv /\ w.live = v.live
      BY <1>4, <2>3, <2>6, <2>9 DEF Departs, Srv
    <3>2. View(X, d) = View(W, d)
      <4>1. /\ X.up[u] = W.up[u] /\ X.down[u] = W.down[u] /\ Srv(X, u) = Srv(W, u)
            /\ X.live[d] = W.live[d]
        BY <2>6, <3>1
      <4>2. QED BY <1>4, <2>3, <2>5, <4>1 DEF View, Departs, ClientsSame
    <3>3. QED BY <1>2, <3>2
  <2>10. QED BY <2>7, <2>8, <2>9
<1>8. Agreed(X, f, h)
  BY <1>3, <1>7 DEF Agreed
<1>9. QED BY <1>8 DEF Agreement

(***************************************************************************)
(* An operation of the session s that changes no other session.            *)
(***************************************************************************)
LEMMA Registered ==
  ASSUME TypeInv, NEW t \in Session, NEW n, down' = registerOutputMessage(down, t, n)
  PROVE  Tells(t, n)
  BY DEF TypeInv, DownTypes, registerOutputMessage, Tells

LEMMA OperationQueues ==
  ASSUME TypeInv, NEW s \in Session, NEW m, Operates(s, m), NEW W, W = World, NEW X, X = World'
  PROVE  /\ ClientsSame(W, X) /\ s \in W.list /\ m \in Sent
         /\ Shrinks(W.up[s], X.up[s], m)
         /\ \A u \in Session : u # s => X.up[u] = W.up[u]
<1>1. up[s] # << >> /\ m = Head(up[s]) /\ ServerOnly /\ s \in sessionList
  BY DEF Operates
<1>2. up'[s] = Tail(up[s]) /\ \A u \in Session : u # s => up'[u] = up[u]
  BY DEF Operates, TypeInv, UpTypes
<1>3. ClientsSame(W, X)
  BY <1>1, ServerClients
<1>4. Shrinks(W.up[s], X.up[s], m)
  BY <1>1, <1>2, ServerQueues
<1>5. \A u \in Session : u # s => X.up[u] = W.up[u]
  BY <1>1, <1>2, ServerQueues
<1>6. s \in W.list
  BY <1>1, WorldFields
<1>7. QED BY <1>3, <1>4, <1>5, <1>6 DEF Shrinks

LEMMA AloneTakes ==
  ASSUME TypeInv, NEW s \in Session, NEW m, Operates(s, m), Alone(s), Speaks(s, m),
         NEW W, W = World, NEW X, X = World'
  PROVE  Takes(W, X, s, m)
<1>1. ServerOnly /\ sessionList' = sessionList
  BY DEF Operates, Alone
<1>2. /\ ClientsSame(W, X) /\ s \in W.list /\ m \in Sent
      /\ Shrinks(W.up[s], X.up[s], m)
      /\ \A u \in Session : u # s => X.up[u] = W.up[u]
  BY OperationQueues
<1>3. X.live = W.live
  BY <1>1, ServerClients
<1>4. /\ X.list = sessionList' /\ W.list = sessionList
      /\ X.partner = callingSession' /\ W.partner = callingSession
      /\ X.sCall = sCall' /\ W.sCall = sCall
      /\ \A u \in Session : /\ u \in W.calling <=> sState[u] = "CALLING"
                            /\ u \in X.calling <=> sState'[u] = "CALLING"
                            /\ u \in W.ended <=> sState[u] = "ENDED"
                            /\ u \in X.ended <=> sState'[u] = "ENDED"
  BY WorldFields, NextWorldFields
<1>5. \A u \in Session : u # s =>
        /\ u \in X.calling <=> u \in W.calling
        /\ u \in W.ended => u \in X.ended
        /\ X.partner[u] = W.partner[u] /\ X.sCall[u] = W.sCall[u]
  BY <1>4 DEF Alone
<1>6. \A op : PartyOf(s, m, op) => Party(W, X, s, m, op)
  BY <1>4 DEF PartyOf, Party
<1>7. CASE m.op \in {"CALL_ACCEPT", "CALL_OFF"} /\ down' = down /\ PartyOf(s, m, m.op)
  BY <1>1, <1>7, ServerQueues, <1>6, <1>2, <1>3, <1>4, <1>5 DEF Replied, Takes
<1>8. CASE \E n \in Sent : Gives(m, n) /\ Tells(s, n) /\ PartyOf(s, m, n.op)
  BY <1>8, <1>1, ServerQueues, <1>6, <1>2, <1>3, <1>4, <1>5 DEF Tells, Replied, Takes
<1>9. QED BY <1>7, <1>8 DEF Speaks

LEMMA AloneAgreed ==
  ASSUME TypeInv, TypeInv', ProtocolAgreed, NEW s \in Session, NEW m, Operates(s, m),
         Alone(s), Speaks(s, m),
         ~ overtaken' =>
           /\ ~ overtaken
           /\ sState'[s] = "CALLING" <=> sState[s] = "CALLING"
           /\ sState[s] = "CALLING" =>
                /\ m.op \in LoginOps /\ callingSession'[s] = callingSession[s]
                /\ sCall'[s] = sCall[s]
           /\ m.op = "CALL_ACCEPT" => down' = down
  PROVE  ProtocolAgreed'
<1>1. PICK W : W = World
  OBVIOUS
<1>2. PICK X : X = World'
  OBVIOUS
<1>3. WorldType(W) /\ WorldType(X)
  BY <1>1, <1>2, WorldTypes, WorldTypesNext
<1>4. Takes(W, X, s, m)
  BY <1>1, <1>2, AloneTakes
<1>5. Kept(W, overtaken)
  BY <1>1 DEF ProtocolAgreed
<1>6. Always(W) /\ (~ overtaken => Agreement(W))
  BY <1>5 DEF Kept
<1>7. Always(X)
  BY <1>3, <1>4, <1>6, TakesAlways
<1>8. ASSUME ~ overtaken'  PROVE Agreement(X)
  <2>1. /\ X.calling \subseteq Session /\ W.calling \subseteq Session
        /\ X.partner = callingSession' /\ W.partner = callingSession
        /\ X.sCall = sCall' /\ W.sCall = sCall
        /\ \A u \in Session : /\ u \in W.calling <=> sState[u] = "CALLING"
                              /\ u \in X.calling <=> sState'[u] = "CALLING"
    BY <1>1, <1>2, WorldFields, NextWorldFields
  <2>2. X.calling = W.calling
    BY <1>8, <2>1 DEF Alone
  <2>3. m.op = "CALL_ACCEPT" => X.down[s] = W.down[s]
    BY <1>1, <1>2, ServerQueues, <1>8 DEF Operates
  <2>4. TakesWell(W, X, s, m)
    BY <1>4, <1>8, <2>1, <2>2, <2>3 DEF TakesWell
  <2>5. QED BY <1>3, <1>6, <1>8, <2>4, TakesAgreed
<1>9. Kept(X, overtaken')
  BY <1>7, <1>8 DEF Kept
<1>10. QED BY <1>2, <1>9 DEF ProtocolAgreed

LEMMA LogInAgreed ==
  ASSUME TypeInv, TypeInv', ProtocolAgreed, NEW s \in Session, NEW m, Operates(s, m),
         LogIn(s, m)
  PROVE  ProtocolAgreed'
<1>1. PICK n : n = Plain(Answer[m.op], 0)
  OBVIOUS
<1>2. m.op \in LoginOps
  BY DEF LogIn, Answer, LoginOps
<1>3. n \in Sent /\ n.op = Answer[m.op] /\ n.call = 0 /\ n.op # "CALL_RESPONSE"
  BY <1>2, <1>1, PlainType DEF Answer, LoginOps, Plain, buildOperation
<1>4. Tells(s, n)
  BY <1>1, Registered DEF LogIn
<1>5. /\ sState' = sState /\ callingSession' = callingSession /\ sessionList' = sessionList
      /\ sCall' = sCall /\ overtaken' = overtaken
  BY DEF LogIn, serverVars
<1>6. Alone(s)
  BY <1>5 DEF Alone
<1>7. Speaks(s, m)
  BY <1>2, <1>3, <1>5, <1>4 DEF Gives, PartyOf, Speaks
<1>8. m.op # "CALL_ACCEPT"
  BY <1>2 DEF LoginOps
<1>9. QED BY <1>2, <1>5, <1>6, <1>7, <1>8, AloneAgreed

LEMMA PutNumberAgreed ==
  ASSUME TypeInv, TypeInv', ProtocolAgreed, NEW s \in Session, NEW m, Operates(s, m),
         PutNumber(s, m)
  PROVE  ProtocolAgreed'
<1>1. PICK n : n = Plain("PUT_PHONENUMBER", 0)
  OBVIOUS
<1>2. n \in Sent /\ n.op = "PUT_PHONENUMBER" /\ n.call = 0
  BY <1>1, PlainType DEF Plain, buildOperation
<1>3. Tells(s, n)
  BY <1>1, Registered DEF PutNumber
<1>4. /\ m.op \in {"PUT_PRANKKEY", "GET_NEWPHONENUMBER"}
      /\ callingSession' = callingSession /\ sessionList' = sessionList /\ sCall' = sCall
      /\ sState' = [sState EXCEPT ![s] = "STARTED"] /\ sState \in [Session -> SState]
      /\ overtaken' = (overtaken \/ sState[s] = "CALLING")
  BY DEF PutNumber, Overtaken, TypeInv, PartyTypes
<1>5. Alone(s) /\ sState'[s] = "STARTED"
  BY <1>4 DEF Alone
<1>6. Speaks(s, m)
  BY <1>2, <1>4, <1>3 DEF Gives, PartyOf, Speaks
<1>7. QED BY <1>4, <1>5, <1>6, AloneAgreed

LEMMA CallToAgreed ==
  ASSUME TypeInv, TypeInv', ProtocolAgreed, NEW s \in Session, NEW m, Operates(s, m),
         CallTo(s, m)
  PROVE  ProtocolAgreed'
<1>1. PICK dst : dst = (IF m.arg = None THEN None ELSE sessionMapByPhoneNumber[m.arg])
  OBVIOUS
<1>2. /\ m \in Sent /\ m.op = "CALL_TO" /\ m.call \in Nat /\ m.arg \in Client \cup {None}
  BY OperationQueues, SentFields DEF CallTo
<1>3. /\ sState' = sState /\ sessionList' = sessionList
      /\ overtaken' = (overtaken \/ sState[s] = "CALLING")
      /\ callingSession \in [Session -> Session \cup {None}] /\ sCall \in [Session -> Nat]
      /\ dst \in sessionList \cup {None} /\ sessionList \subseteq Session
  BY <1>1, <1>2 DEF CallTo, Overtaken, TypeInv, PartyTypes, NumberTypes
<1>4. ASSUME NEW error \in {"WRONG_NUMBER_ERROR", "DEST_CALLING_ERROR"}, Reject(s, m, error),
             UNCHANGED <<callingSession, sCall>>
      PROVE  Alone(s) /\ Speaks(s, m)
  BY <1>2, PlainType, <1>4, Registered, <1>3 DEF Plain, buildOperation, Errors, Reject, Gives,
     PartyOf, Alone, Speaks
<1>5. ASSUME dst \notin {None, s},
             down' = registerOutputMessage(down, s,
                       buildOperation("CALL_RESPONSE", dst, None, m.call)),
             callingSession' = [callingSession EXCEPT ![s] = dst],
             sCall' = [sCall EXCEPT ![s] = m.call]
      PROVE  Alone(s) /\ Speaks(s, m)
  BY <1>3, <1>5, <1>2, SessionMessageType, Registered DEF buildOperation, Gives, PartyOf, Alone,
     Speaks
<1>6. Alone(s) /\ Speaks(s, m)
  BY <1>1, <1>4, <1>5 DEF CallTo
<1>7. QED BY <1>2, <1>3, <1>6, AloneAgreed

\* CALL_TO2 when the call cannot be made.
LEMMA RefusedAgreed ==
  ASSUME TypeInv, TypeInv', ProtocolAgreed, NEW s \in Session, NEW m, Operates(s, m),
         m.op = "CALL_TO2", NEW error \in {"WRONG_NUMBER_ERROR", "DEST_CALLING_ERROR"},
         Reject(s, m, error), callingSession' = [callingSession EXCEPT ![s] = None],
         UNCHANGED <<sState, sCall, sessionList>>,
         ~ overtaken' => ~ overtaken /\ sState[s] # "CALLING"
  PROVE  ProtocolAgreed'
<1>1. m \in Sent /\ m.call \in Nat
  BY OperationQueues, SentFields
<1>2. PICK n : n = Plain(error, m.call)
  OBVIOUS
<1>3. n \in Sent /\ n.op = error /\ n.call = m.call /\ n.op \in Errors
  BY <1>1, <1>2, PlainType DEF Plain, buildOperation, Errors
<1>4. Tells(s, n)
  BY <1>2, Registered DEF Reject
<1>5. Gives(m, n)
  BY <1>3 DEF Gives
<1>6. callingSession \in [Session -> Session \cup {None}]
  BY DEF TypeInv, PartyTypes
<1>7. PartyOf(s, m, n.op)
  BY <1>3, <1>6 DEF PartyOf
<1>8. Alone(s) /\ Speaks(s, m)
  BY <1>3, <1>4, <1>5, <1>6, <1>7 DEF Alone, Speaks
<1>9. QED BY <1>8, AloneAgreed

\* What the session is not in a call for.
LEMMA SilentAgreed ==
  ASSUME TypeInv, TypeInv', ProtocolAgreed, NEW s \in Session, NEW m, Operates(s, m),
         m.op \in {"CALL_ACCEPT", "CALL_OFF"}, sState[s] # "CALLING",
         UNCHANGED <<sState, callingSession, sessionList, sCall, down>>,
         ~ overtaken' => ~ overtaken
  PROVE  ProtocolAgreed'
<1>1. Alone(s)
  BY DEF Alone
<1>2. PartyOf(s, m, m.op)
  BY DEF PartyOf
<1>3. Speaks(s, m)
  BY <1>2 DEF Speaks
<1>4. QED BY <1>1, <1>3, AloneAgreed

\* CALL_ACCEPT of a session that is in a call with nobody.
LEMMA NotAcceptedAgreed ==
  ASSUME TypeInv, TypeInv', ProtocolAgreed, NEW s \in Session, NEW m, Operates(s, m),
         m.op = "CALL_ACCEPT", sState[s] = "CALLING", callingSession[s] = None,
         Reject(s, m, "CALL_ACCEPT_ERROR"),
         UNCHANGED <<sState, callingSession, sessionList, sCall>>,
         ~ overtaken' => ~ overtaken
  PROVE  ProtocolAgreed'
<1>1. m \in Sent /\ m.call \in Nat
  BY OperationQueues, SentFields
<1>2. PICK n : n = Plain("CALL_ACCEPT_ERROR", m.call)
  OBVIOUS
<1>3. n \in Sent /\ n.op = "CALL_ACCEPT_ERROR" /\ n.call = m.call /\ n.op \in Errors
  BY <1>1, <1>2, PlainType DEF Plain, buildOperation, Errors
<1>4. Tells(s, n)
  BY <1>2, Registered DEF Reject
<1>5. Alone(s) /\ Speaks(s, m)
  BY <1>3, <1>4 DEF Alone, Speaks, Gives, PartyOf
\* That happens only after something has been overtaken.
<1>6. overtaken
  BY WorldFields, NoneAssumption DEF ProtocolAgreed, Kept, Agreement, Agreed, Together, Operates,
     TypeInv, NumberTypes, Mates
<1>7. QED BY <1>5, <1>6, AloneAgreed

(***************************************************************************)
(* An operation of s that tells its partner something.                     *)
(***************************************************************************)
LEMMA TellsPasses ==
  ASSUME TypeInv, NEW s \in Session, NEW m, Operates(s, m), NEW t \in Session,
         callingSession[s] = t, NEW n \in Sent, Tells(t, n), n.call = m.call,
         \/ m.op = "CALL_TO2" /\ n.op = "CALLED_FROM"
         \/ m.op = "CALL_ACCEPT" /\ n.op = "CALL_ACCEPT",
         sessionList' = sessionList,
         \A u \in Session : u \notin {s, t} =>
           /\ sState'[u] = sState[u] /\ callingSession'[u] = callingSession[u]
           /\ sCall'[u] = sCall[u],
         callingSession'[s] = t, callingSession'[t] \in {callingSession[t], s},
         sCall'[s] \in {sCall[s], m.call}, sCall'[t] \in {sCall[t], m.call},
         NEW W, W = World, NEW X, X = World'
  PROVE  Passes(W, X, s, t, m, n)
<1>1. ServerOnly
  BY DEF Operates
<1>2. /\ ClientsSame(W, X) /\ s \in W.list /\ m \in Sent
      /\ Shrinks(W.up[s], X.up[s], m)
      /\ \A u \in Session : u # s => X.up[u] = W.up[u]
  BY OperationQueues
<1>3. X.live = W.live
  BY <1>1, ServerClients
<1>4. /\ X.list = sessionList' /\ W.list = sessionList
      /\ X.partner = callingSession' /\ W.partner = callingSession
      /\ X.sCall = sCall' /\ W.sCall = sCall
      /\ \A u \in Session : /\ u \in W.calling <=> sState[u] = "CALLING"
                            /\ u \in X.calling <=> sState'[u] = "CALLING"
  BY WorldFields, NextWorldFields
<1>5. \A u \in Session : u # t => X.down[u] = W.down[u]
  BY <1>1, ServerQueues DEF Tells
<1>6. Grows(W.down[t], X.down[t], n)
  BY <1>1, ServerQueues DEF Tells
<1>7. OthersQueues(W, X, s, t)
  BY <1>2, <1>5 DEF OthersQueues
<1>8. QED BY <1>2, <1>3, <1>4, <1>6, <1>7 DEF Passes

\* CALL_ACCEPT of a session in a call.
LEMMA ForwardAgreed ==
  ASSUME TypeInv, TypeInv', ProtocolAgreed, NEW s \in Session, NEW m, Operates(s, m),
         m.op = "CALL_ACCEPT", sState[s] = "CALLING", NEW t \in Session,
         callingSession[s] = t, NEW n \in Sent, Tells(t, n), n.op = "CALL_ACCEPT",
         n.call = m.call, UNCHANGED <<sState, callingSession, sessionList, sCall>>,
         ~ overtaken' => ~ overtaken /\ m.call = sCall[s]
  PROVE  ProtocolAgreed'
<1>1. PICK W : W = World
  OBVIOUS
<1>2. PICK X : X = World'
  OBVIOUS
<1>3. WorldType(W) /\ WorldType(X)
  BY <1>1, <1>2, WorldTypes, WorldTypesNext
<1>4. Passes(W, X, s, t, m, n)
  BY <1>1, <1>2, TellsPasses
<1>5. Kept(W, overtaken)
  BY <1>1 DEF ProtocolAgreed
<1>6. Always(W) /\ (~ overtaken => Agreement(W))
  BY <1>5 DEF Kept
<1>7. Always(X)
  BY <1>3, <1>4, <1>6, PassesAlways
<1>8. /\ X.partner = W.partner /\ X.sCall = W.sCall /\ W.sCall = sCall /\ s \in W.calling
      /\ X.calling = W.calling /\ X.ended = W.ended
  BY <1>1, <1>2 DEF World
<1>9. ~ overtaken' => Agreement(X)
  BY <1>3, <1>4, <1>6, <1>8, ForwardsAgreed
<1>10. Kept(X, overtaken')
  BY <1>7, <1>9 DEF Kept
<1>11. QED BY <1>2, <1>10 DEF ProtocolAgreed

\* CALL_TO2 when the call can be made.
LEMMA ConnectedAgreed ==
  ASSUME TypeInv, TypeInv', ProtocolAgreed, NEW s \in Session, NEW m, Operates(s, m),
         m.op = "CALL_TO2", sState[s] # "ENDED", NEW t \in Session, callingSession[s] = t,
         sState[t] = "STARTED", NEW n \in Sent, Tells(t, n), n.op = "CALLED_FROM",
         n.call = m.call, callingSession' = [callingSession EXCEPT ![t] = s],
         sState' = [sState EXCEPT ![t] = "CALLING", ![s] = "CALLING"],
         sCall' = [sCall EXCEPT ![t] = m.call, ![s] = m.call], sessionList' = sessionList,
         ~ overtaken' => ~ overtaken /\ sState[s] # "CALLING" /\ m.call = sCall[s]
  PROVE  ProtocolAgreed'
<1>1. PICK W : W = World
  OBVIOUS
<1>2. PICK X : X = World'
  OBVIOUS
<1>3. WorldType(W) /\ WorldType(X)
  BY <1>1, <1>2, WorldTypes, WorldTypesNext
<1>4. Kept(W, overtaken)
  BY <1>1 DEF ProtocolAgreed
<1>5. Always(W) /\ (~ overtaken => Agreement(W))
  BY <1>4 DEF Kept
<1>6. /\ X.partner = callingSession' /\ W.partner = callingSession
      /\ X.sCall = sCall' /\ W.sCall = sCall
      /\ \A u \in Session : /\ u \in W.calling <=> sState[u] = "CALLING"
                            /\ u \in X.calling <=> sState'[u] = "CALLING"
                            /\ u \in W.ended <=> sState[u] = "ENDED"
                            /\ u \in X.ended <=> sState'[u] = "ENDED"
      /\ X.calling \subseteq Session /\ W.calling \subseteq Session
      /\ W.ended \subseteq Session
  BY <1>1, <1>2, WorldFields, NextWorldFields
<1>7. s # t
  BY <1>5, <1>6 DEF Always, NotWithItself
<1>8. /\ callingSession \in [Session -> Session \cup {None}]
      /\ sState \in [Session -> SState] /\ sCall \in [Session -> Nat]
  BY DEF TypeInv, PartyTypes
<1>9. /\ sState'[s] = "CALLING" /\ sState'[t] = "CALLING"
      /\ callingSession'[s] = t /\ callingSession'[t] = s
      /\ sCall'[s] = m.call /\ sCall'[t] = m.call
      /\ \A u \in Session : u \notin {s, t} =>
           /\ sState'[u] = sState[u] /\ callingSession'[u] = callingSession[u]
           /\ sCall'[u] = sCall[u]
  BY <1>7, <1>8
<1>10. Passes(W, X, s, t, m, n)
  BY <1>1, <1>2, <1>9, TellsPasses
<1>11. Always(X)
  BY <1>3, <1>5, <1>10, PassesAlways
<1>12. X.calling = W.calling \cup {s, t}
  <2>1. ASSUME NEW u \in Session  PROVE u \in X.calling <=> u \in W.calling \cup {s, t}
    <3>1. CASE u \in {s, t}
      BY <1>6, <1>9, <3>1
    <3>2. CASE u \notin {s, t}
      BY <1>6, <1>9, <3>2
    <3>3. QED BY <3>1, <3>2
  <2>2. QED BY <1>6, <2>1
<1>13. W.ended \subseteq X.ended
  BY <1>6, <1>9
<1>14. ASSUME ~ overtaken'  PROVE Agreement(X)
  <2>1. s \notin W.calling /\ t \notin W.calling /\ t \notin W.ended /\ m.call = W.sCall[s]
    BY <1>6, <1>14
  <2>2. X.partner[t] = s /\ X.sCall[s] = m.call /\ X.sCall[t] = m.call
    BY <1>6, <1>9
  <2>3. Agreement(W)
    BY <1>5, <1>14
  <2>4. QED BY <1>3, <1>5, <1>10, <1>12, <1>13, <2>1, <2>2, <2>3, ConnectsAgreed
<1>15. Kept(X, overtaken')
  BY <1>11, <1>14 DEF Kept
<1>16. QED BY <1>2, <1>15 DEF ProtocolAgreed

(***************************************************************************)
(* A session s leaves its call, or is closed.                              *)
(***************************************************************************)
LEMMA LeaveFields ==
  ASSUME TypeInv, NEW s \in Session, NEW after, NEW queues \in [Session -> Seq(Sent)],
         NEW mistaken, Leave(s, after, queues, mistaken), callingSession[s] # s
  PROVE  /\ Left(s, after, queues)
         /\ ~ overtaken' =>
              /\ ~ overtaken /\ ~ mistaken
              /\ callingSession[s] # None => callingSession[callingSession[s]] = s
<1>1. callingSession[s] \in Session \cup {None} /\ None \notin Session
  BY NoneAssumption DEF TypeInv, PartyTypes
<1>2. /\ sState'[s] = after /\ callingSession'[s] = None /\ sCall'[s] = 0
      /\ \A u \in Session : u \notin {s, callingSession[s]} =>
           /\ sState'[u] = sState[u] /\ callingSession'[u] = callingSession[u]
           /\ sCall'[u] = sCall[u]
  BY DEF Leave
<1>3. CASE callingSession[s] = None
  BY <1>3, <1>2 DEF Leave, TellOther, Overtaken, Left
<1>4. CASE callingSession[s] # None
  BY <1>1, <1>4, <1>2 DEF Leave, TellOther, registerOutputMessage, Overtaken, Left
<1>5. QED BY <1>3, <1>4

\* Nobody is in a call with itself.
LEMMA PartnerIsOther ==
  ASSUME ProtocolAgreed, NEW s \in Session
  PROVE  callingSession[s] # s
<1>1. PICK W : W = World
  OBVIOUS
<1>2. NotWithItself(W)
  BY <1>1 DEF ProtocolAgreed, Kept, Always
<1>3. QED BY <1>1, <1>2, WorldFields DEF NotWithItself

\* For both: queues is down, or with less for s.
LEMMA LeaveEnds ==
  ASSUME TypeInv, ProtocolAgreed, NEW s \in Session, NEW after,
         NEW queues \in [Session -> Seq(Sent)], NEW mistaken, ServerOnly, s \in sessionList,
         Leave(s, after, queues, mistaken), after # "CALLING",
         sessionList' \subseteq sessionList, \A u \in sessionList : u # s => u \in sessionList',
         \A u \in Session : u # s => queues[u] = down[u] /\ up'[u] = up[u],
         NEW W, W = World, NEW X, X = World',
         Shuts(W, X, s) \/ \E m \in Sent : HangsOff(W, X, s, m)
  PROVE  Departs(W, X, s, Plain("CALL_OFF", sCall[s]))
<1>1. callingSession[s] # s /\ sCall[s] \in Nat /\ None \notin Session
  BY PartnerIsOther, NoneAssumption DEF TypeInv, PartyTypes
<1>2. PICK n : n = Plain("CALL_OFF", sCall[s])
  OBVIOUS
<1>3. n \in Sent /\ n.op = "CALL_OFF" /\ n.call = sCall[s]
  BY <1>1, <1>2, PlainType DEF Plain, buildOperation
<1>4. /\ sState'[s] = after /\ callingSession'[s] = None /\ sCall'[s] = 0
      /\ \A u \in Session : u \notin {s, callingSession[s]} =>
           /\ sState'[u] = sState[u] /\ callingSession'[u] = callingSession[u]
           /\ sCall'[u] = sCall[u] /\ down'[u] = queues[u]
      /\ callingSession[s] # None =>
           /\ callingSession[s] \in Session
           /\ sState'[callingSession[s]] = "STARTED"
           /\ callingSession'[callingSession[s]] = None
           /\ sCall'[callingSession[s]] = 0
           /\ down'[callingSession[s]] = Append(queues[callingSession[s]], n)
  <2>1. Left(s, after, queues)
    BY <1>1, LeaveFields
  <2>2. QED BY <1>2, <2>1 DEF Left
<1>5. /\ X.list = sessionList' /\ W.list = sessionList
      /\ X.partner = callingSession' /\ W.partner = callingSession
      /\ X.sCall = sCall' /\ W.sCall = sCall
      /\ \A u \in Session : /\ u \in W.calling <=> sState[u] = "CALLING"
                            /\ u \in X.calling <=> sState'[u] = "CALLING"
                            /\ u \in W.ended <=> sState[u] = "ENDED"
                            /\ u \in X.ended <=> sState'[u] = "ENDED"
  BY WorldFields, NextWorldFields
<1>6. /\ ClientsSame(W, X)
      /\ \A d \in Client : /\ W.now[d] = Now(d)
                           /\ X.live[d] <=> thread[d] = "connected" /\ Now(d) \in sessionList'
                           /\ W.live[d] <=> thread[d] = "connected" /\ Now(d) \in sessionList
  BY ServerClients
<1>7. X.live \in [Client -> BOOLEAN] /\ W.live \in [Client -> BOOLEAN]
  BY DEF World, Live
<1>8. \A d \in Client : /\ X.live[d] => W.live[d]
                        /\ W.now[d] # s => X.live[d] = W.live[d]
  BY <1>6, <1>7
<1>9. \A u \in Session : u \notin {s, W.partner[s]} =>
        /\ u \in X.calling <=> u \in W.calling
        /\ u \in W.ended => u \in X.ended
        /\ X.partner[u] = W.partner[u] /\ X.sCall[u] = W.sCall[u]
        /\ X.up[u] = W.up[u] /\ X.down[u] = W.down[u]
  BY <1>4, <1>5, ServerQueues
<1>10. s \notin X.calling /\ X.partner[s] = None /\ X.sCall[s] = 0
  BY <1>4, <1>5
<1>11. W.partner[s] # None =>
         /\ W.partner[s] \notin X.calling /\ X.partner[W.partner[s]] = None
         /\ X.sCall[W.partner[s]] = 0
         /\ X.up[W.partner[s]] = W.up[W.partner[s]]
         /\ Grows(W.down[W.partner[s]], X.down[W.partner[s]], n)
         /\ n \in Sent /\ n.op = "CALL_OFF" /\ n.call = W.sCall[s]
  <2>1. SUFFICES ASSUME W.partner[s] # None, NEW t \in Session, t = W.partner[s]
                 PROVE  /\ t \notin X.calling /\ X.partner[t] = None /\ X.sCall[t] = 0
                        /\ X.up[t] = W.up[t] /\ Grows(W.down[t], X.down[t], n)
    BY <1>3, <1>4, <1>5
  <2>2. t # s /\ down'[t] = Append(down[t], n) /\ up'[t] = up[t]
    BY <1>1, <1>4, <1>5, <2>1
  <2>3. X.up[t] = W.up[t] /\ Grows(W.down[t], X.down[t], n)
    BY <1>3, <2>2, ServerQueues
  <2>4. QED BY <1>4, <1>5, <2>1, <2>3
<1>12. Departs(W, X, s, n)
  BY <1>5, <1>6, <1>8, <1>9, <1>10, <1>11 DEF Departs
<1>13. QED BY <1>2, <1>12

LEMMA EndsStep ==
  ASSUME TypeInv, TypeInv', ProtocolAgreed, NEW s \in Session, NEW n,
         NEW W, W = World, NEW X, X = World', Departs(W, X, s, n),
         ~ overtaken' => ~ overtaken /\ EndsWell(W, X, s, n)
  PROVE  ProtocolAgreed'
<1>1. WorldType(W) /\ WorldType(X)
  BY WorldTypes, WorldTypesNext
<1>2. Kept(W, overtaken)
  BY DEF ProtocolAgreed
<1>3. Always(W) /\ (~ overtaken => Agreement(W))
  BY <1>2 DEF Kept
<1>4. Always(X)
  BY <1>1, <1>3, EndsAlways
<1>5. ~ overtaken' => Agreement(X)
  BY <1>1, <1>3, EndsAgreed
<1>6. Kept(X, overtaken')
  BY <1>4, <1>5 DEF Kept
<1>7. QED BY <1>6 DEF ProtocolAgreed

LEMMA HangsOffAgreed ==
  ASSUME TypeInv, TypeInv', ProtocolAgreed, NEW s \in Session, NEW m, Operates(s, m),
         m.op = "CALL_OFF", sState[s] = "CALLING", Leave(s, "STARTED", down, m.call # sCall[s]),
         sessionList' = sessionList
  PROVE  ProtocolAgreed'
<1>1. PICK W : W = World
  OBVIOUS
<1>2. PICK X : X = World'
  OBVIOUS
<1>3. ServerOnly /\ s \in sessionList
  BY DEF Operates
<1>4. /\ m \in Sent /\ Shrinks(W.up[s], X.up[s], m)
  BY <1>1, <1>2, OperationQueues
<1>5. \A u \in Session : u # s => up'[u] = up[u]
  BY DEF Operates, TypeInv, UpTypes
<1>6. callingSession[s] # s /\ down \in [Session -> Seq(Sent)]
  BY PartnerIsOther DEF TypeInv, DownTypes
<1>7. /\ down'[s] = down[s]
      /\ ~ overtaken' =>
           /\ ~ overtaken /\ m.call = sCall[s]
           /\ callingSession[s] # None => callingSession[callingSession[s]] = s
  <2>1. /\ Left(s, "STARTED", down)
        /\ ~ overtaken' =>
             /\ ~ overtaken /\ ~ (m.call # sCall[s])
             /\ callingSession[s] # None => callingSession[callingSession[s]] = s
    BY <1>6, LeaveFields
  <2>2. QED BY <2>1 DEF Left
<1>8. X.down[s] = W.down[s] /\ X.live = W.live
  BY <1>1, <1>2, <1>3, <1>7, ServerQueues, ServerClients
<1>9. /\ X.list = W.list /\ W.partner = callingSession /\ W.sCall = sCall
      /\ s \in W.calling
  BY <1>1, <1>2, WorldFields, NextWorldFields
<1>10. HangsOff(W, X, s, m)
  BY <1>4, <1>8, <1>9 DEF HangsOff
<1>11. PICK n : n = Plain("CALL_OFF", sCall[s])
  OBVIOUS
<1>12. Departs(W, X, s, n)
  BY <1>4, <1>10, <1>5, <1>1, <1>2, <1>3, <1>6, LeaveEnds, <1>11
<1>13. ~ overtaken' => ~ overtaken /\ EndsWell(W, X, s, n)
  BY <1>4, <1>7, <1>9, <1>10, <1>12 DEF EndsWell
<1>14. QED BY <1>1, <1>2, <1>12, <1>13, EndsStep

\* The session is closed: up' is up, or without its first message.
LEMMA ClosedAgreed ==
  ASSUME TypeInv, TypeInv', ProtocolAgreed, NEW s \in Session, ServerOnly, s \in sessionList,
         closeSession(s), \A u \in Session : u # s => up'[u] = up[u],
         up'[s] = up[s] \/ (up[s] # << >> /\ up'[s] = Tail(up[s]))
  PROVE  ProtocolAgreed'
<1>1. PICK W : W = World
  OBVIOUS
<1>2. PICK X : X = World'
  OBVIOUS
<1>3. PICK k \in 0..Len(down[s]) :
        Leave(s, "ENDED", [down EXCEPT ![s] = SubSeq(@, 1, k)], FALSE)
  BY DEF closeSession
<1>4. PICK queues : queues = [down EXCEPT ![s] = SubSeq(@, 1, k)]
  OBVIOUS
<1>5. /\ queues \in [Session -> Seq(Sent)] /\ queues[s] = SubSeq(down[s], 1, k)
      /\ \A u \in Session : u # s => queues[u] = down[u]
  BY <1>3, QueuePrefix, <1>4 DEF TypeInv, DownTypes
<1>6. Leave(s, "ENDED", queues, FALSE) /\ callingSession[s] # s
  BY <1>3, <1>4, PartnerIsOther
<1>7. /\ sState'[s] = "ENDED" /\ down'[s] = queues[s]
      /\ ~ overtaken' =>
           /\ ~ overtaken
           /\ callingSession[s] # None => callingSession[callingSession[s]] = s
  BY <1>5, <1>6, LeaveFields DEF Left
<1>8. sessionList' = sessionList \ {s}
  BY DEF closeSession
<1>9. X.list = sessionList' /\ s \in X.ended /\ W.partner = callingSession
  BY <1>1, <1>2, <1>7, WorldFields, NextWorldFields
<1>10. Shuts(W, X, s)
  <2>1. Within(X.down[s], W.down[s])
    BY <1>1, <1>2, <1>3, <1>5, <1>7, ServerQueues
  <2>2. /\ \A M : Has(X.up[s], M) => Has(W.up[s], M)
        /\ \A M : Once(W.up[s], M) => Once(X.up[s], M)
    BY <1>1, <1>2, ServerQueues DEF Shrinks
  <2>3. QED BY <1>8, <1>9, <2>1, <2>2 DEF Shuts
<1>11. PICK n : n = Plain("CALL_OFF", sCall[s])
  OBVIOUS
<1>12. Departs(W, X, s, n)
  BY <1>10, <1>8, <1>5, <1>1, <1>2, <1>6, LeaveEnds, <1>11
<1>13. ~ overtaken' => ~ overtaken /\ EndsWell(W, X, s, n)
  BY <1>7, <1>9, <1>10, <1>12 DEF EndsWell
<1>14. QED BY <1>1, <1>2, <1>12, <1>13, EndsStep

LEMMA CallTo2Agreed ==
  ASSUME TypeInv, TypeInv', Serving, ProtocolAgreed, NEW s \in Session, NEW m,
         Operates(s, m), CallTo2(s, m)
  PROVE  ProtocolAgreed'
<1>1. m \in Sent /\ m.op = "CALL_TO2" /\ m.call \in Nat /\ m.secret \in Secret
  BY OperationQueues, SentFields DEF CallTo2
<1>2. /\ sessionList' = sessionList
      /\ ~ overtaken' => ~ overtaken /\ sState[s] # "CALLING" /\ m.call = sCall[s]
  BY DEF CallTo2, Overtaken
<1>3. callingSession \in [Session -> Session \cup {None}] /\ callingSession[s] \in Session \cup {None}
  BY DEF TypeInv, PartyTypes
<1>4. CASE /\ callingSession[s] = None /\ Reject(s, m, "WRONG_NUMBER_ERROR")
           /\ UNCHANGED <<sState, callingSession, sCall>>
  BY <1>3, <1>4, <1>1, <1>2, RefusedAgreed
<1>5. CASE /\ Reject(s, m, "DEST_CALLING_ERROR")
           /\ callingSession' = [callingSession EXCEPT ![s] = None]
           /\ UNCHANGED <<sState, sCall>>
  BY <1>1, <1>2, <1>5, RefusedAgreed
<1>6. CASE /\ callingSession[s] # None /\ sState[callingSession[s]] = "STARTED"
           /\ callingSession' = [callingSession EXCEPT ![callingSession[s]] = s]
           /\ down' = registerOutputMessage(down, callingSession[s],
                        buildOperation("CALLED_FROM", s, m.secret, m.call))
           /\ sState' = [sState EXCEPT ![callingSession[s]] = "CALLING", ![s] = "CALLING"]
           /\ sCall' = [sCall EXCEPT ![callingSession[s]] = m.call, ![s] = m.call]
  BY <1>3, <1>6, <1>1, SessionMessageType, Registered, <1>2, ConnectedAgreed DEF buildOperation,
     Serving, Operates
<1>7. QED BY <1>4, <1>5, <1>6 DEF CallTo2

LEMMA CallAcceptAgreed ==
  ASSUME TypeInv, TypeInv', ProtocolAgreed, NEW s \in Session, NEW m, Operates(s, m),
         CallAccept(s, m)
  PROVE  ProtocolAgreed'
<1>1. m \in Sent /\ m.op = "CALL_ACCEPT" /\ m.call \in Nat /\ m.secret \in Secret
  BY OperationQueues, SentFields DEF CallAccept
<1>2. /\ sState' = sState /\ callingSession' = callingSession /\ sessionList' = sessionList
      /\ sCall' = sCall
      /\ ~ overtaken' => ~ overtaken /\ (sState[s] = "CALLING" => m.call = sCall[s])
  BY DEF CallAccept, Overtaken, serverVars
<1>3. callingSession[s] \in Session \cup {None}
  BY DEF TypeInv, PartyTypes
<1>4. CASE sState[s] # "CALLING" /\ UNCHANGED down
  BY <1>1, <1>2, <1>4, SilentAgreed
<1>5. CASE /\ sState[s] = "CALLING" /\ callingSession[s] = None
           /\ Reject(s, m, "CALL_ACCEPT_ERROR")
  BY <1>1, <1>2, <1>5, NotAcceptedAgreed
<1>6. CASE /\ sState[s] = "CALLING" /\ callingSession[s] # None
           /\ down' = registerOutputMessage(down, callingSession[s],
                        buildOperation("CALL_ACCEPT", None, m.secret, m.call))
  BY <1>3, <1>6, <1>1, KeyMessageType, Registered, <1>2, ForwardAgreed DEF buildOperation
<1>7. QED BY <1>4, <1>5, <1>6 DEF CallAccept

LEMMA CallOffAgreed ==
  ASSUME TypeInv, TypeInv', ProtocolAgreed, NEW s \in Session, NEW m, Operates(s, m),
         CallOff(s, m)
  PROVE  ProtocolAgreed'
<1>1. m.op = "CALL_OFF" /\ sessionList' = sessionList
  BY DEF CallOff
<1>2. CASE sState[s] # "CALLING" /\ UNCHANGED <<sState, callingSession, down, sCall, overtaken>>
  BY <1>1, <1>2, SilentAgreed
<1>3. CASE sState[s] = "CALLING" /\ Leave(s, "STARTED", down, m.call # sCall[s])
  BY <1>1, <1>3, HangsOffAgreed
<1>4. QED BY <1>2, <1>3 DEF CallOff

LEMMA OperationAgreed ==
  ASSUME TypeInv, TypeInv', Serving, ProtocolAgreed, NEW s \in Session, putOperation(s)
  PROVE  ProtocolAgreed'
<1>1. PICK m : m = Head(up[s])
  OBVIOUS
<1>2. ServerOnly
  BY DEF putOperation, ServerOnly, uiVars, netVars
<1>3. Operates(s, m)
  BY <1>1, <1>2 DEF putOperation, Operates
<1>4. \/ LogIn(s, m) \/ PutNumber(s, m) \/ CallTo(s, m) \/ CallTo2(s, m) \/ CallAccept(s, m)
      \/ CallOff(s, m) \/ Bye(s, m)
  BY <1>1 DEF putOperation
<1>5. CASE Bye(s, m)
  BY <1>3, <1>5, <1>2, ClosedAgreed DEF Operates, TypeInv, UpTypes, Bye
<1>6. QED
  BY <1>3, <1>4, <1>5, LogInAgreed, PutNumberAgreed, CallToAgreed, CallTo2Agreed,
     CallAcceptAgreed, CallOffAgreed

LEMMA MonitorAgreed ==
  ASSUME TypeInv, TypeInv', ProtocolAgreed, NEW s \in Session, NEW slow, Monitor(s, slow)
  PROVE  ProtocolAgreed'
<1>1. ServerOnly /\ s \in sessionList /\ closeSession(s)
  BY DEF Monitor, ServerOnly, uiVars, netVars
<1>2. \A u \in Session : up'[u] = up[u]
  BY DEF Monitor
<1>3. QED BY <1>1, <1>2, ClosedAgreed

(***************************************************************************)
(* Every step.                                                             *)
(***************************************************************************)
LEMMA RunningKept ==
  ASSUME TypeInv, Running, NEW c \in Client, User(c) \/ Threads(c)
  PROVE  Running'
<1>1. SUFFICES ASSUME NEW d \in Client, received'[d] # None
               PROVE  thread'[d] \in {"connected", "leaving"}
  BY DEF Running
<1>2. received[d] # None => thread[d] \in {"connected", "leaving"}
  BY DEF Running
<1>3. thread \in [Client -> Thread] /\ received \in [Client -> Sent \cup {None}]
  BY DEF TypeInv, NetTypes
<1>4. CASE User(c)
  BY <1>1, <1>2, <1>3, <1>4 DEF Dial, netVars, getNewPhoneNumber, Accept, HangUp, onPause,
     onResume, Crash, close, User
<1>5. CASE Threads(c)
  <2>1. Assign(c) \/ handleMessage(c) \/ write(c) => UNCHANGED <<thread, received>>
    BY DEF Assign, handleMessage, write, netVars
  <2>2. CASE doStop(c)
    BY <1>1, <1>2, <1>3, <2>2 DEF doStop
  <2>3. CASE read(c)
    BY <2>3, <1>3, <1>1, <1>2 DEF read, Looping, LoggedIn, Begin, Ended, Ignored
  <2>4. CASE Complete(c)
    BY <1>1, <1>2, <1>3, <2>4 DEF Complete
  <2>5. CASE close(c, FALSE)
    BY <1>1, <1>2, <1>3, <2>5 DEF close
  <2>6. CASE Leaving(c)
    BY <1>1, <1>2, <1>3, <2>6 DEF Leaving
  <2>7. CASE OnNetworkConnected(c)
    BY <1>1, <1>2, <1>3, <2>7 DEF OnNetworkConnected
  <2>8. QED BY <1>1, <1>2, <1>5, <2>1, <2>2, <2>3, <2>4, <2>5, <2>6, <2>7 DEF Threads
<1>6. QED BY <1>4, <1>5

LEMMA ServingKept ==
  ASSUME TypeInv, Serving, NEW s \in Session,
         \/ putOperation(s)
         \/ \E slow : Monitor(s, slow)
  PROVE  Serving'
<1>1. sState \in [Session -> SState] /\ sessionList \subseteq Session
  BY DEF TypeInv, PartyTypes, NumberTypes
<1>2. ASSUME closeSession(s)  PROVE Serving'
  BY <1>1, <1>2 DEF closeSession, Leave, Serving
<1>3. ASSUME putOperation(s)  PROVE Serving'
  BY <1>3, <1>1, <1>2 DEF putOperation, LogIn, CallTo, CallAccept, serverVars, Serving, PutNumber,
     CallTo2, CallOff, Leave, Bye
<1>4. ASSUME NEW slow, Monitor(s, slow)  PROVE Serving'
  BY <1>2, <1>4 DEF Monitor
<1>5. QED BY <1>3, <1>4

LEMMA ServingWithout ==
  ASSUME TypeInv, TypeInv', Serving, NEW c \in Client, User(c) \/ Threads(c)
  PROVE  Serving'
<1>1. CASE OnNetworkConnected(c)
  BY <1>1 DEF OnNetworkConnected, TypeInv, PartyTypes, NumberTypes, Serving
<1>2. CASE ~ OnNetworkConnected(c)
  BY <1>2 DEF Dial, getNewPhoneNumber, Accept, HangUp, onPause, onResume, Crash, close, Assign,
     doStop, handleMessage, write, read, Complete, Leaving, User, Threads, serverVars, Serving
<1>3. QED BY <1>1, <1>2

LEMMA UserAgreed ==
  ASSUME TypeInv, TypeInv', ProtocolAgreed, NEW c \in Client, User(c)
  PROVE  ProtocolAgreed'
<1>1. CASE \E number \in Client \cup {None} : Dial(c, number)
  BY <1>1, DialAgreed
<1>2. QED
  BY <1>1, NumberAgreed, AcceptAgreed, HangUpAgreed, PauseAgreed, ResumeAgreed, CrashAgreed,
     LostAgreed DEF User

LEMMA ThreadsAgreed ==
  ASSUME TypeInv, TypeInv', Limits, Running, ProtocolAgreed, NEW c \in Client, Threads(c)
  PROVE  ProtocolAgreed'
  BY AssignAgreed, DoStopAgreed, HandleAgreed, WriteAgreed, ReadAgreed, CompleteAgreed,
     LostAgreed, LeavingAgreed, ConnectAgreed DEF Threads

LEMMA StartIs ==
  ASSUME Init
  PROVE  /\ MaxConnections \in Nat
         /\ \A c \in Client : Now(c) = <<c, 0>> /\ <<c, 0>> \in Session
         /\ \A s \in Session : s = <<s[1], s[2]>> /\ s[1] \in Client /\ s[2] \in Nat
<1>1. MaxConnections \in Nat
  BY BoundAssumption DEF MaxConnections
<1>2. \A c \in Client : <<c, 0>> \in Session
  BY <1>1 DEF Session
<1>3. \A c \in Client : Now(c) = <<c, 0>>
  BY DEF Init, Start, Now
<1>4. \A s \in Session : s = <<s[1], s[2]>> /\ s[1] \in Client /\ s[2] \in Nat
  BY DEF Session
<1>5. QED BY <1>1, <1>2, <1>3, <1>4

LEMMA StartRests == Init => Rest
<1>1. SUFFICES ASSUME Init  PROVE Rest
  OBVIOUS
<1>2. /\ \A c \in Client : Now(c) = <<c, 0>> /\ <<c, 0>> \in Session
      /\ \A s \in Session : s = <<s[1], s[2]>> /\ s[1] \in Client
  BY <1>1, StartIs
<1>3. ASSUME NEW c \in Client
      PROVE  /\ thread[c] = "connected" /\ received[c] = None /\ at[c] = "idle"
             /\ outputMessageQueue[c] = << >> /\ handler[c] = << >>
             /\ up[Now(c)] = << >> /\ down[Now(c)] = << >>
             /\ state[c] = "STARTED" /\ sState[Now(c)] = "STARTED"
  BY <1>1, <1>2 DEF Init, Start
<1>4. sessionList = {Now(c) : c \in Client}
  <2>1. sessionList = {s \in Session : s[2] = 0}
    BY <1>1 DEF Init, Start
  <2>2. ASSUME NEW s \in sessionList  PROVE s \in {Now(c) : c \in Client}
    BY <1>2, <2>1
  <2>3. ASSUME NEW c \in Client  PROVE Now(c) \in sessionList
    BY <1>2, <2>1
  <2>4. QED BY <2>2, <2>3
<1>5. sessionMapByPhoneNumber = [c \in Client |-> Now(c)]
  BY <1>1, <1>2 DEF Init, Start
<1>6. QED BY <1>3, <1>4, <1>5 DEF Rest, Settled

LEMMA StartAlways ==
  ASSUME Init, TypeInv, NEW W, W = World
  PROVE  Always(W)
<1>1. /\ \A c \in Client : Now(c) = <<c, 0>> /\ Now(c) \in Session
      /\ \A s \in Session : s[1] \in Client /\ s[2] \in Nat
  BY StartIs
<1>2. /\ sState = [s \in Session |-> IF s[2] = 0 THEN "STARTED" ELSE "ENDED"]
      /\ sessionList = {s \in Session : s[2] = 0} /\ acts = 0
      /\ \A s \in Session : /\ up[s] = << >> /\ down[s] = << >> /\ sCall[s] = 0
                            /\ callingSession[s] = None
      /\ \A c \in Client : /\ outputMessageQueue[c] = << >> /\ received[c] = None
                           /\ call[c] = 0 /\ keys[c] = "AES"
  BY DEF Init, Start
<1>3. \A s \in Session : W.up[s] = << >> /\ W.down[s] = << >>
  <2>1. << >> \o << >> = << >>
    OBVIOUS
  <2>2. ASSUME NEW s \in Session  PROVE Upward(s) = << >> /\ Downward(s) = << >>
    BY <1>1, <1>2, <2>1 DEF Upward, Downward, Reading
  <2>3. QED BY <2>2, WorldFields
<1>4. /\ W.list = sessionList /\ W.partner = callingSession /\ W.sCall = sCall
      /\ W.calling \subseteq Session
      /\ \A s \in Session : s \in W.calling <=> sState[s] = "CALLING"
      /\ W.call = call /\ W.keys = keys /\ W.acts = acts
      /\ \A c \in Client : W.now[c] = Now(c)
  BY WorldFields
<1>5. \A s \in Session : s # None
  BY NoneAssumption
<1>6. NotWithItself(W)
  BY <1>2, <1>4, <1>5 DEF NotWithItself
<1>7. NoneAhead(W)
  BY <1>1, <1>4, <1>2, <1>3, <1>5 DEF NoneAhead, Ahead
<1>8. NoneUnborn(W)
  BY <1>2, <1>3, <1>4, HasNone DEF NoneUnborn
<1>9. Free(W)
  <2>1. ASSUME NEW c \in Client  PROVE FreeClient(View(W, c)) /\ KeysComing(View(W, c))
    BY <1>2, <1>4, ViewFields DEF FreeClient, KeysComing
  <2>2. QED BY <2>1 DEF Free
<1>10. QED BY <1>6, <1>7, <1>8, <1>9 DEF Always

LEMMA AgreedInit == Init => AgreedInv
<1>1. SUFFICES ASSUME Init  PROVE AgreedInv
  OBVIOUS
<1>2. ProtocolInv /\ TypeInv
  BY <1>1, ProtocolInit DEF ProtocolInv
<1>3. Running
  BY <1>1 DEF Init, Start, Running
<1>4. Serving
  BY <1>1 DEF Init, Start, Serving
<1>5. ASSUME NEW c \in Client  PROVE ProtocolAgreed
  BY <1>1, <1>2, StartAlways, StartRests, RestAgreement DEF ProtocolAgreed, Kept
<1>6. QED BY <1>2, <1>3, <1>4, <1>5 DEF AgreedInv

LEMMA AgreedStutter ==
  ASSUME AgreedInv, UNCHANGED vars
  PROVE  AgreedInv'
<1>1. ProtocolInv'
  BY ProtocolStutter DEF AgreedInv
<1>2. UNCHANGED <<state, outputMessageQueue, thread, received, connections, keys, at, handler,
                  call, acts, overtaken, sState, callingSession, sessionList, sCall, up, down>>
  BY DEF vars, uiVars, netVars, serverVars, channels
<1>3. Running' /\ Serving'
  BY <1>2 DEF AgreedInv, Running, Serving
<1>4. World' = World
  BY <1>2 DEF Now, Upward, Downward, Connected, Reading, Live, Offed, World
<1>5. ProtocolAgreed' = ProtocolAgreed
  BY <1>2, <1>4 DEF ProtocolAgreed
<1>6. QED BY <1>1, <1>3, <1>5 DEF AgreedInv

LEMMA AgreedStep ==
  ASSUME AgreedInv, [Next]_vars
  PROVE  AgreedInv'
<1>1. ProtocolInv /\ Running /\ Serving /\ TypeInv /\ Limits
  BY DEF AgreedInv, ProtocolInv
<1>2. ProtocolInv' /\ TypeInv'
  BY <1>1, ProtocolStep DEF ProtocolInv
<1>3. ASSUME NEW c \in Client, User(c) \/ Threads(c)  PROVE AgreedInv'
  BY <1>1, <1>2, <1>3, UserAgreed, ThreadsAgreed, RunningKept, ServingWithout DEF AgreedInv
<1>4. ASSUME NEW s \in Session, putOperation(s) \/ \E slow : Monitor(s, slow)
      PROVE  AgreedInv'
  BY SessionClient, <1>1, <1>2, <1>4, OperationAgreed, MonitorAgreed, ServingKept DEF AgreedInv,
     putOperation, Monitor, netVars, Running
<1>5. CASE UNCHANGED vars
  BY <1>5, AgreedStutter
<1>6. QED BY <1>3, <1>4, <1>5 DEF Next

LEMMA AgreedInvariant == Spec => []AgreedInv
<1>1. Init => AgreedInv
  BY AgreedInit
<1>2. AgreedInv /\ [Next]_vars => AgreedInv'
  BY AgreedStep
<1>3. QED BY <1>1, <1>2, PTL DEF Spec

\* Client and server agree.  Once everything that was sent has been read, and if nothing
\* has been overtaken, whoever talks, rings or is rung is in a call for the server too,
\* with one client in the matching state, and whoever is free is free for the server.
THEOREM PartiesAlwaysAgree == Spec => []PartiesAgree
<1>1. ASSUME AgreedInv, Settled, ~ overtaken, NEW c \in Client
      PROVE  /\ state[c] \in InCall =>
                  \E d \in Client : Mutual(c, d) /\ state[d] = Counterpart[state[c]]
             /\ state[c] = "STARTED" => sState[Now(c)] # "CALLING"
  <2>1. TypeInv /\ ProtocolAgreed
    BY <1>1 DEF AgreedInv, ProtocolInv
  <2>2. PICK W : W = World
    OBVIOUS
  <2>3. Always(W) /\ Agreement(W)
    BY <1>1, <2>1, <2>2 DEF ProtocolAgreed, Kept
  <2>4. WorldType(W) /\ Quiescent(W)
    BY <1>1, <2>1, <2>2, WorldTypes, SettledQuiescent
  <2>5. PICK f \in [Nat -> Client], h \in [Nat -> Session] : Agreed(W, f, h)
    BY <2>3 DEF Agreement
  <2>6. Matched(W, c)
    BY <2>3, <2>4, <2>5, QuiescentMatched
  <2>7. /\ W.state = state /\ W.partner = callingSession
        /\ \A d \in Client : W.now[d] = Now(d) /\ Now(d) \in Session
        /\ \A s \in Session : s \in W.calling <=> sState[s] = "CALLING"
    BY <2>1, <2>2, WorldFields, NowType DEF TypeInv
  <2>8. ASSUME state[c] \in InCall
        PROVE  \E d \in Client : Mutual(c, d) /\ state[d] = Counterpart[state[c]]
    BY <2>6, <2>7, <2>8 DEF Matched, Mutual
  <2>9. state[c] = "STARTED" => sState[Now(c)] # "CALLING"
    BY <2>6, <2>7 DEF Matched
  <2>10. QED BY <2>8, <2>9
<1>2. AgreedInv => PartiesAgree
  BY <1>1 DEF PartiesAgree
<1>3. QED BY <1>2, AgreedInvariant, PTL

(***************************************************************************)
(* The voice keys: queues.                                                 *)
(***************************************************************************)
LEMMA Carriers ==
  ASSUME NEW m \in Sent
  PROVE  m \in Keyed <=> m.op \in {"CALL_TO2", "CALLED_FROM", "CALL_ACCEPT"}
  BY DEF Keyed, All, Said, Told

LEMMA Foreigners ==
  ASSUME NEW ops \in {Said, Told}, NEW k, NEW key
  PROVE  /\ Foreign(ops, k, key) \subseteq Keyed
         /\ Foreign(ops, k, key) \subseteq Of(ops, k)
         /\ \A m \in Sent : m \in Foreign(ops, k, key) <=>
              m.op \in ops /\ m.call = k /\ m.secret.key # key
  BY DEF Foreign, Of, Keyed, All, Said, Told

LEMMA FewerForeign ==
  ASSUME NEW q, NEW p, Fewer(q, p), NEW ops \in {Said, Told}, NEW k, NEW key,
         ~ Has(p, Foreign(ops, k, key))
  PROVE  ~ Has(q, Foreign(ops, k, key))
  BY Foreigners DEF Fewer

LEMMA NoneForeign ==
  ASSUME NEW q, NEW ops \in {Said, Told}, NEW k, NEW key, ~ Has(q, Of(ops, k))
  PROVE  ~ Has(q, Foreign(ops, k, key))
  BY Foreigners DEF Has

LEMMA SaidOf ==
  ASSUME NEW q, NEW k
  PROVE  /\ Has(q, Of(Said, k)) <=> Has(q, Asked(k)) \/ Has(q, Accepted(k))
         /\ Has(q, Of(Told, k)) <=> Has(q, From(k)) \/ Has(q, Accepted(k))
  BY DEF Has, Of, Asked, Accepted, From, Said, Told

LEMMA FewerSame == \A q : Fewer(q, q)
  BY DEF Fewer

LEMMA FewerWithin == \A q, p : Within(q, p) => Fewer(q, p)
  BY DEF Fewer, Within

LEMMA FewerShrinks == \A q, p, m : Shrinks(p, q, m) => Fewer(q, p)
  BY DEF Fewer, Shrinks

LEMMA FewerGrows ==
  ASSUME NEW q, NEW p, NEW m \in Sent, Grows(p, q, m), m \notin Keyed
  PROVE  Fewer(q, p)
  BY DEF Fewer, Grows

(***************************************************************************)
(* What keeps the keys of one client, and of two.                          *)
(***************************************************************************)
LEMMA Sends ==
  ASSUME NEW c \in Client, SendsItsKey(c), Now(c)' = Now(c), sessionList' \subseteq sessionList,
         Fewer(UpOf(c)', UpOf(c)),
         call'[c] # 0 => call'[c] = call[c] /\ myAESVoiceCrypto'[c] = myAESVoiceCrypto[c]
  PROVE  SendsItsKey(c)'
  BY FewerForeign DEF SendsItsKey

LEMMA Hears ==
  ASSUME NEW c \in Client, NEW d \in Client, HearsKeyOf(c, d), Joined(c, d)' => Joined(c, d),
         Fewer(DownOf(c)', DownOf(c)),
         call'[d] # 0 => call'[d] = call[d] /\ myAESVoiceCrypto'[d] = myAESVoiceCrypto[d],
         call'[c] # 0 /\ state'[c] \in Talking =>
           /\ call'[c] = call[c] /\ state[c] \in Talking
           /\ otherAESCrypto'[c] = otherAESCrypto[c]
  PROVE  HearsKeyOf(c, d)'
<1>1. SUFFICES ASSUME Joined(c, d)'
               PROVE  /\ ~ Has(DownOf(c)', Foreign(Told, call'[d], myAESVoiceCrypto'[d]))
                      /\ call'[c] = call'[d] /\ state'[c] \in Talking =>
                           /\ otherAESCrypto'[c] = myAESVoiceCrypto'[d]
                           /\ otherAESCrypto'[c] # None
  BY DEF HearsKeyOf
<1>2. call'[d] # 0 /\ call'[d] = call[d] /\ myAESVoiceCrypto'[d] = myAESVoiceCrypto[d]
  BY <1>1 DEF Joined
<1>3. QED BY <1>1, <1>2, FewerForeign DEF HearsKeyOf

LEMMA ClientJoined ==
  ASSUME NEW c \in Client, ClientOnly(c), NEW a \in Client, NEW b \in Client,
         Joined(a, b)', call'[b] = call[b]
  PROVE  Joined(a, b)
  BY DEF Joined, Mutual, ClientOnly, Now

LEMMA ServerJoined ==
  ASSUME TypeInv, SameCalls, connections' = connections, call' = call,
         NEW a \in Client, NEW b \in Client, Joined(a, b)'
  PROVE  Joined(a, b)
<1>1. Now(a) \in Session /\ Now(b) \in Session /\ Now(a)' = Now(a) /\ Now(b)' = Now(b)
  BY NowType DEF TypeInv, Now
<1>2. QED BY <1>1 DEF Joined, Mutual, SameCalls

\* What a step of c does not change.
LEMMA OthersQueuesSame ==
  ASSUME TypeInv, NEW c \in Client, ClientOnly(c), NEW d \in Client, d # c
  PROVE  /\ Now(d)' = Now(d) /\ UpOf(d)' = UpOf(d) /\ DownOf(d)' = DownOf(d)
         /\ state'[d] = state[d] /\ call'[d] = call[d]
<1>1. /\ Now(d) \in Session /\ Now(d) # Now(c) /\ Now(d)' = Now(d)
      /\ up'[Now(d)] = up[Now(d)] /\ down'[Now(d)] = down[Now(d)]
      /\ thread'[d] = thread[d] /\ received'[d] = received[d]
      /\ outputMessageQueue'[d] = outputMessageQueue[d] /\ state'[d] = state[d]
      /\ call'[d] = call[d]
  BY NowType DEF TypeInv, Now, ClientOnly
<1>2. QED BY <1>1 DEF UpOf, DownOf

\* It is enough to look at c, and at c with each of the others.
LEMMA KeysOfOthers ==
  ASSUME TypeInv, NEW c \in Client, ClientOnly(c), OwnKeys(c), KeysKept,
         SendsItsKey(c)', HearsKeyOf(c, c)',
         \A d \in Client : d # c => HearsKeyOf(c, d)' /\ HearsKeyOf(d, c)'
  PROVE  KeysKept'
<1>1. ASSUME NEW d \in Client, d # c
      PROVE  /\ Now(d)' = Now(d) /\ UpOf(d)' = UpOf(d) /\ DownOf(d)' = DownOf(d)
             /\ state'[d] = state[d] /\ call'[d] = call[d]
             /\ myAESVoiceCrypto'[d] = myAESVoiceCrypto[d]
             /\ otherAESCrypto'[d] = otherAESCrypto[d]
  BY <1>1, OthersQueuesSame DEF OwnKeys
<1>2. ASSUME NEW d \in Client, d # c  PROVE SendsItsKey(d)'
  BY <1>1, <1>2, Sends, FewerSame DEF ClientOnly, KeysKept
<1>3. ASSUME NEW d \in Client, d # c, NEW e \in Client, e # c  PROVE HearsKeyOf(d, e)'
  BY <1>1, <1>3, Hears, FewerSame, ClientJoined DEF KeysKept
<1>4. QED BY <1>2, <1>3 DEF KeysKept

\* A step of c that tells nobody of a key, and gets it into no call.
LEMMA KeysStay ==
  ASSUME TypeInv, NEW c \in Client, ClientOnly(c), OwnKeys(c), KeysKept,
         Fewer(UpOf(c)', UpOf(c)), Fewer(DownOf(c)', DownOf(c)),
         call'[c] # 0 => call'[c] = call[c] /\ myAESVoiceCrypto'[c] = myAESVoiceCrypto[c],
         call'[c] # 0 /\ state'[c] \in Talking =>
           state[c] \in Talking /\ otherAESCrypto'[c] = otherAESCrypto[c]
  PROVE  KeysKept'
<1>1. Now(c)' = Now(c)
  BY DEF ClientOnly, Now
<1>2. SendsItsKey(c)'
  BY <1>1, Sends DEF KeysKept, ClientOnly
<1>3. ASSUME NEW a \in Client, NEW b \in Client, Joined(a, b)'  PROVE Joined(a, b)
  BY <1>3, ClientJoined DEF Joined, ClientOnly
<1>4. ASSUME NEW d \in Client
      PROVE  HearsKeyOf(c, d)' /\ (d # c => HearsKeyOf(d, c)')
  BY <1>3, Hears, OthersQueuesSame, FewerSame DEF ClientOnly, OwnKeys, KeysKept
<1>5. QED BY <1>2, <1>4, KeysOfOthers

LEMMA ServerKeys ==
  ASSUME TypeInv, ServerOnly, cryptos' = cryptos, SameCalls, KeysKept,
         \A c \in Client : Fewer(UpOf(c)', UpOf(c)) /\ Fewer(DownOf(c)', DownOf(c))
  PROVE  KeysKept'
<1>1. /\ connections' = connections /\ call' = call /\ state' = state
      /\ myAESVoiceCrypto' = myAESVoiceCrypto /\ otherAESCrypto' = otherAESCrypto
      /\ sessionList' \subseteq sessionList
  BY DEF ServerOnly, cryptos, SameCalls
<1>2. ASSUME NEW c \in Client  PROVE SendsItsKey(c)'
  BY <1>1, Sends DEF KeysKept, Now
<1>3. ASSUME NEW c \in Client, NEW d \in Client  PROVE HearsKeyOf(c, d)'
  BY <1>1, Hears, ServerJoined DEF KeysKept
<1>4. QED BY <1>2, <1>3 DEF KeysKept

(***************************************************************************)
(* What the agreement of client and server says of keys.                   *)
(***************************************************************************)
\* The world as the variables, for the clients.
LEMMA AgreedFields ==
  ASSUME TypeInv, ProtocolAgreed, ~ overtaken
  PROVE  \E W, f, h :
           /\ WorldType(W) /\ Agreed(W, f, h) /\ NotWithItself(W) /\ NoneUnborn(W)
           /\ f \in [Nat -> Client] /\ W.acts = acts
           /\ W.list = sessionList /\ W.partner = callingSession /\ W.sCall = sCall
           /\ W.state = state /\ W.call = call /\ W.at = at
           /\ \A s \in Session : s \in W.calling <=> sState[s] = "CALLING"
           /\ \A s \in Session : W.up[s] = Upward(s) /\ W.down[s] = Downward(s)
           /\ \A c \in Client : /\ W.now[c] = Now(c) /\ Now(c) \in Session /\ Now(c)[1] = c
                                /\ W.up[Now(c)] = UpOf(c) /\ W.down[Now(c)] = DownOf(c)
                                /\ Srv(W, Now(c)) = SrvOf(c)
<1>1. PICK W : W = World
  OBVIOUS
<1>2. PICK f \in [Nat -> Client], h \in [Nat -> Session] : Agreed(W, f, h)
  BY <1>1 DEF ProtocolAgreed, Kept, Agreement
<1>3. NotWithItself(W) /\ NoneUnborn(W) /\ WorldType(W)
  BY <1>1, WorldTypes DEF ProtocolAgreed, Kept, Always
<1>4. ASSUME NEW c \in Client
      PROVE  /\ W.now[c] = Now(c) /\ Now(c) \in Session /\ Now(c)[1] = c
             /\ W.up[Now(c)] = UpOf(c) /\ W.down[Now(c)] = DownOf(c)
             /\ Srv(W, Now(c)) = SrvOf(c)
  BY <1>1, WorldView, WorldFields, NowType, ViewFields DEF TypeInv, Now
<1>5. QED BY <1>1, <1>2, <1>3, <1>4, WorldFields

\* A client is called in k, or rings, and has not accepted: then nobody else is called
\* in k, and nobody is told that it is accepted.
LEMMA NobodyElse ==
  ASSUME TypeInv, ProtocolAgreed, ~ overtaken, NEW c \in Client, NEW k \in Calls,
         \/ Has(DownOf(c), From(k))
         \/ state[c] = "RECEIVEDCALL" /\ at[c] # "callAccept" /\ call[c] = k
  PROVE  /\ Now(c) \in sessionList => ~ Has(UpOf(c), Of(Said, k))
         /\ \A d \in Client : d # c =>
              ~ Has(DownOf(d), Of(Told, k)) /\ ~ (call[d] = k /\ state[d] \in Talking)
<1>1. PICK W, f, h :
        /\ WorldType(W) /\ Agreed(W, f, h) /\ f \in [Nat -> Client]
        /\ W.list = sessionList /\ W.state = state /\ W.call = call /\ W.at = at
        /\ \A d \in Client : /\ W.now[d] = Now(d) /\ Now(d) \in Session /\ Now(d)[1] = d
                             /\ W.up[Now(d)] = UpOf(d) /\ W.down[Now(d)] = DownOf(d)
  BY AgreedFields
<1>2. ASSUME NEW d \in Client
      PROVE  /\ View(W, d).down = DownOf(d) /\ View(W, d).state = state[d]
             /\ View(W, d).call = call[d] /\ View(W, d).at = at[d]
  BY <1>1, ViewFields
<1>3. ASSUME NEW d \in Client
      PROVE  CalledOnce(View(W, d), d, f) /\ Roles(View(W, d), d, f)
  BY <1>1 DEF Agreed, ClientAgrees
<1>4. ASSUME NEW d \in Client
      PROVE  /\ Has(DownOf(d), From(k)) => f[k] # d
             /\ state[d] = "RECEIVEDCALL" /\ call[d] = k => f[k] # d
  BY <1>2, <1>3 DEF CalledOnce, Roles, Calls
<1>5. f[k] # c /\ Called(W, f, k, c) /\ ~ Agrees(W, c, k)
  BY <1>1, <1>2, <1>4 DEF Called, Agrees, Consents
<1>6. ~ ConsentGoes(W, f, k)
  BY <1>1, <1>5 DEF Agreed, Together, Consented
<1>7. /\ \A s \in sessionList : ~ Has(W.up[s], Accepted(k))
      /\ \A d \in Client : ~ Has(DownOf(d), Accepted(k))
      /\ ~ (state[f[k]] = "CALLING" /\ call[f[k]] = k)
  BY <1>1, <1>6 DEF ConsentGoes
<1>8. ASSUME NEW d \in Client, d # c  PROVE ~ Called(W, f, k, d)
  BY <1>1, <1>5, <1>8 DEF Agreed, Together, OneCalled
<1>9. ASSUME NEW d \in Client, d # c
      PROVE  ~ Has(DownOf(d), Of(Told, k)) /\ ~ (call[d] = k /\ state[d] \in Talking)
  BY <1>1, <1>4, <1>8, <1>9, <1>7, SaidOf DEF Called, Talking
<1>10. ASSUME Now(c) \in sessionList  PROVE ~ Has(UpOf(c), Of(Said, k))
  <2>1. ~ Has(UpOf(c), Accepted(k))
    BY <1>1, <1>7, <1>10
  <2>2. ~ Has(UpOf(c), Asked(k))
    BY <1>1, <1>10, <1>5 DEF Asks, Has, Asked, Token, Of, TokenOps, Agreed, Together, Questions
  <2>3. QED BY <2>1, <2>2, SaidOf
<1>11. QED BY <1>9, <1>10

\* While a session asks for the call k nobody knows of it.
LEMMA NoCallYet ==
  ASSUME TypeInv, ProtocolAgreed, ~ overtaken, NEW c \in Client, NEW k \in Calls,
         Now(c) \in sessionList, Has(UpOf(c), Asked(k)) \/ Has(DownOf(c), Answered(k))
  PROVE  /\ \A d \in Client : ~ Has(DownOf(d), Of(Told, k)) /\ (d # c => call[d] # k)
         /\ \A d \in Client : Now(d) \in sessionList => SrvOf(d) # k
         /\ Has(DownOf(c), Answered(k)) => ~ Has(UpOf(c), Of(Said, k))
<1>1. PICK W, f, h :
        /\ WorldType(W) /\ Agreed(W, f, h)
        /\ W.list = sessionList /\ W.call = call
        /\ \A d \in Client : /\ W.now[d] = Now(d) /\ Now(d)[1] = d
                             /\ W.up[Now(d)] = UpOf(d) /\ W.down[Now(d)] = DownOf(d)
                             /\ Srv(W, Now(d)) = SrvOf(d) /\ Now(d) \in Session
  BY AgreedFields
<1>2. PICK s \in W.list : s = Now(c)
  BY <1>1
<1>3. /\ Has(UpOf(c), Asked(k)) => Has(UpOf(c), Token(k))
      /\ Has(DownOf(c), Answered(k)) => Has(DownOf(c), Token(k))
  BY DEF Has, Asked, Answered, Token, Of, TokenOps
<1>4. Asks(W, s, k) /\ NotBegun(W, s, k) /\ OneQuestion(W, s, k)
  BY <1>1, <1>2, <1>3 DEF Asks, Agreed, Together, Questions, Open
<1>5. \A d \in Client : Now(d) \in sessionList => SrvOf(d) # k /\ ~ Has(UpOf(d), Accepted(k))
  BY <1>1, <1>4 DEF NotBegun
<1>6. ASSUME NEW d \in Client
      PROVE  ~ Has(DownOf(d), Of(Told, k)) /\ (d # c => call[d] # k)
  BY <1>1, <1>2, <1>4, <1>6, SaidOf DEF NotBegun
<1>7. Has(DownOf(c), Answered(k)) => ~ Has(UpOf(c), Asked(k))
  BY <1>1, <1>2, <1>3, <1>4 DEF OneQuestion
<1>8. QED BY <1>5, <1>6, <1>7, SaidOf

\* Nobody is in a call with itself, in no call, or in one that has not begun.
LEMMA JoinedIs ==
  ASSUME TypeInv, ProtocolAgreed, NEW c \in Client, NEW d \in Client, Joined(c, d)
  PROVE  c # d /\ call[d] \in Calls /\ SrvOf(d) = call[d] /\ SrvOf(c) = call[d]
<1>1. Now(c) \in Session /\ callingSession[Now(c)] # Now(c)
  BY PartnerIsOther, NowType DEF TypeInv
<1>2. call[d] \in Nat
  BY DEF TypeInv, StateTypes
<1>3. QED BY <1>1, <1>2 DEF Joined, Mutual, SrvOf, Calls

(***************************************************************************)
(* What a client does that has nothing to do with keys.                    *)
(***************************************************************************)
LEMMA PlainCarriesNone ==
  ASSUME NEW op \in {"PUT_PUBLIC_KEY", "PUT_SECRET_KEY", "PUT_CURRENT_VERSION", "VERSION_OK",
                     "PUT_PRANKKEY", "GET_NEWPHONENUMBER", "PUT_PHONENUMBER", "CALL_OFF",
                     "WRONG_NUMBER_ERROR", "DEST_CALLING_ERROR", "CALL_ACCEPT_ERROR", "BYE"},
         NEW id \in Nat
  PROVE  Plain(op, id) \in Sent /\ Plain(op, id) \notin Keyed
  BY PlainType, Carriers

\* The thread does not go on, or the client queues no key.
LEMMA FewerUp ==
  ASSUME TypeInv, NEW c \in Client, connections' = connections, up'[Now(c)] = up[Now(c)],
         \/ thread'[c] # "connected"
         \/ /\ thread'[c] = thread[c]
            /\ \/ outputMessageQueue'[c] = outputMessageQueue[c]
               \/ \E m \in Sent : m \notin Keyed /\ Queue(c, m)
  PROVE  Fewer(UpOf(c)', UpOf(c))
<1>1. CASE thread'[c] # "connected"
  BY ClientQueues, <1>1, LeftIs, FewerWithin
<1>2. CASE thread'[c] = thread[c] /\ outputMessageQueue'[c] = outputMessageQueue[c]
  BY <1>2, SilentIs, FewerSame DEF OnLine
<1>3. CASE thread'[c] = thread[c] /\ \E m \in Sent : m \notin Keyed /\ Queue(c, m)
  BY <1>3, QueuedIs, FewerSame, FewerGrows DEF OnLine
<1>4. QED BY <1>1, <1>2, <1>3

\* The thread of the user interface: it may leave the call, or go on in it.
LEMMA UiKeys ==
  ASSUME TypeInv, NEW c \in Client, UiOnly(c), OwnKeys(c), KeysKept,
         \/ outputMessageQueue'[c] = outputMessageQueue[c]
         \/ \E m \in Sent : m \notin Keyed /\ Queue(c, m),
         myAESVoiceCrypto'[c] = myAESVoiceCrypto[c],
         call'[c] \in {0, call[c]},
         call'[c] # 0 /\ state'[c] \in Talking =>
           state[c] \in Talking /\ otherAESCrypto'[c] = otherAESCrypto[c]
  PROVE  KeysKept'
<1>1. ClientOnly(c) /\ OnLine(c) /\ DownOf(c)' = DownOf(c) /\ up'[Now(c)] = up[Now(c)]
  BY UiView
<1>2. Fewer(UpOf(c)', UpOf(c))
  BY <1>1, FewerUp DEF OnLine
<1>3. QED BY <1>1, <1>2, FewerSame, KeysStay

LEMMA NumberKeys ==
  ASSUME TypeInv, KeysKept, NEW c \in Client, getNewPhoneNumber(c)
  PROVE  KeysKept'
<1>1. PICK m : m = Plain("GET_NEWPHONENUMBER", 0)
  OBVIOUS
<1>2. m \in Sent /\ m \notin Keyed
  BY <1>1, PlainCarriesNone
<1>3. /\ Queue(c, m) /\ UNCHANGED <<state, call, at, handler, cryptos>>
      /\ UNCHANGED <<serverVars, channels, thread, received, connections, keys>>
  BY <1>1 DEF getNewPhoneNumber, uiVars, netVars
<1>4. UiOnly(c) /\ OwnKeys(c)
  BY <1>3 DEF UiOnly, OwnKeys, cryptos, Queue, TypeInv, OutputTypes
<1>5. QED BY <1>2, <1>3, <1>4, UiKeys DEF cryptos

LEMMA AssignKeys ==
  ASSUME TypeInv, KeysKept, ~ overtaken', NEW c \in Client, Assign(c)
  PROVE  KeysKept'
<1>1. /\ at[c] \in {"callTo", "callAccept"}
      /\ state'[c] = IF at[c] = "callTo" THEN "WAITCALL" ELSE "CALLING"
      /\ \A d \in Client \ {c} : at'[d] = at[d] /\ state'[d] = state[d]
      /\ UNCHANGED <<call, handler, outputMessageQueue, cryptos>>
      /\ UNCHANGED <<serverVars, channels, thread, received, connections, keys>>
      /\ at[c] = "callAccept" => state[c] = "RECEIVEDCALL"
  BY DEF Assign, Overtaken, netVars, TypeInv, UiTypes, StateTypes
<1>2. UiOnly(c) /\ OwnKeys(c)
  BY <1>1 DEF UiOnly, OwnKeys, cryptos
<1>3. QED BY <1>1, <1>2, UiKeys DEF cryptos, Talking

LEMMA DestroyKeys ==
  ASSUME TypeInv, KeysKept, NEW c \in Client, destroy(c), at' = at,
         \A d \in Client \ {c} : handler'[d] = handler[d],
         UNCHANGED <<serverVars, channels, thread, received, connections, keys,
                     myAESVoiceCrypto>>
  PROVE  KeysKept'
<1>1. PICK m : m = Plain("CALL_OFF", call[c])
  OBVIOUS
<1>2. m \in Sent /\ m \notin Keyed
  BY <1>1, PlainCarriesNone DEF TypeInv, StateTypes
<1>3. /\ Queue(c, m) /\ call'[c] = 0
      /\ \A d \in Client \ {c} : /\ state'[d] = state[d] /\ call'[d] = call[d]
                                 /\ otherAESCrypto'[d] = otherAESCrypto[d]
  BY <1>1 DEF destroy, TypeInv, StateTypes, CryptoTypes
<1>4. UiOnly(c) /\ OwnKeys(c)
  BY <1>3 DEF UiOnly, OwnKeys, Queue, TypeInv, OutputTypes
<1>5. QED BY <1>2, <1>3, <1>4, UiKeys

LEMMA HandleKeys ==
  ASSUME TypeInv, KeysKept, NEW c \in Client, handleMessage(c)
  PROVE  KeysKept'
<1>1. /\ \A d \in Client \ {c} : handler'[d] = handler[d]
      /\ UNCHANGED <<at, serverVars, channels, thread, received, connections, keys,
                     myAESVoiceCrypto>>
  BY DEF handleMessage, netVars, TypeInv, UiTypes
<1>2. CASE destroy(c)
  BY <1>1, <1>2, DestroyKeys
<1>3. CASE ~ destroy(c)
  BY <1>3, <1>1, UiKeys DEF handleMessage, UiOnly, OwnKeys
<1>4. QED BY <1>2, <1>3

LEMMA PauseKeys ==
  ASSUME TypeInv, KeysKept, NEW c \in Client, onPause(c)
  PROVE  KeysKept'
<1>1. PICK m : m = Plain("BYE", 0)
  OBVIOUS
<1>2. m \in Sent /\ m \notin Keyed
  BY <1>1, PlainCarriesNone
<1>3. /\ Queue(c, m) /\ state'[c] = "ENDED" /\ UNCHANGED <<call, handler, cryptos>>
      /\ \A d \in Client \ {c} : at'[d] = at[d] /\ state'[d] = state[d]
      /\ UNCHANGED <<serverVars, channels, thread, received, connections, keys>>
  BY <1>1 DEF onPause, netVars, TypeInv, UiTypes, StateTypes
<1>4. UiOnly(c) /\ OwnKeys(c)
  BY <1>3 DEF UiOnly, OwnKeys, cryptos, Queue, TypeInv, OutputTypes
<1>5. QED BY <1>2, <1>3, <1>4, UiKeys DEF cryptos, Talking

\* The network thread stops, starts, or leaves the connection.
LEMMA ThreadKeys ==
  ASSUME TypeInv, KeysKept, NEW c \in Client, ClientOnly(c), cryptos' = cryptos,
         thread'[c] # "connected" \/ thread'[c] = thread[c],
         outputMessageQueue' = outputMessageQueue,
         up' = up \/ \E n \in 0..Len(up[Now(c)]) : up' = [up EXCEPT ![Now(c)] = SubSeq(@, 1, n)],
         up' = up \/ thread'[c] # "connected",
         UNCHANGED <<down, received, call>>, state'[c] \in {state[c], "INITED"}
  PROVE  KeysKept'
<1>1. connections' = connections /\ Now(c) \in Session
  BY NowType DEF ClientOnly, TypeInv
<1>2. CASE up' = up
  BY <1>1, <1>2, FewerUp, DeafIs, FewerSame, KeysStay DEF OwnKeys, cryptos, Talking
<1>3. CASE thread'[c] # "connected" /\ up' # up
  BY <1>1, <1>3, LeftIs, FewerWithin, DeafIs, FewerSame, KeysStay DEF TypeInv, UpTypes, OwnKeys,
     cryptos, Talking
<1>4. QED BY <1>2, <1>3

LEMMA DoStopKeys ==
  ASSUME TypeInv, KeysKept, NEW c \in Client, doStop(c) \/ onResume(c) \/ Leaving(c)
  PROVE  KeysKept'
<1>1. /\ state'[c] \in {state[c], "INITED"}
      /\ thread'[c] # "connected" \/ thread'[c] = thread[c]
      /\ thread'[c] = "connected" => thread[c] = "connected"
      /\ \A d \in Client \ {c} : /\ state'[d] = state[d] /\ thread'[d] = thread[d]
                                 /\ at'[d] = at[d]
      /\ UNCHANGED <<handler, outputMessageQueue, cryptos, received, connections, keys,
                     serverVars, channels, call>>
  BY DEF doStop, onResume, Leaving, uiVars, TypeInv, UiTypes, NetTypes, StateTypes
<1>2. ClientOnly(c) /\ up' = up /\ down' = down
  BY <1>1 DEF ClientOnly, serverVars, channels
<1>3. QED BY <1>1, <1>2, ThreadKeys

LEMMA LostKeys ==
  ASSUME TypeInv, KeysKept, NEW c \in Client, NEW lost, close(c, lost)
  PROVE  KeysKept'
<1>1. PICK n \in 0..Len(up[Now(c)]) : up' = [up EXCEPT ![Now(c)] = SubSeq(@, 1, n)]
  BY DEF close
<1>2. \A s \in Session : s # Now(c) => up'[s] = up[s]
  BY <1>1 DEF TypeInv, UpTypes
<1>3. /\ thread'[c] = "closed" /\ \A d \in Client \ {c} : thread'[d] = thread[d]
      /\ UNCHANGED <<state, handler, at, outputMessageQueue, cryptos, received, connections,
                     keys, serverVars, down, call>>
  BY DEF close, uiVars, TypeInv, NetTypes
<1>4. ClientOnly(c)
  BY <1>2, <1>3 DEF ClientOnly, serverVars
<1>5. QED BY <1>1, <1>3, <1>4, ThreadKeys

LEMMA CrashKeys ==
  ASSUME TypeInv, KeysKept, NEW c \in Client, Crash(c)
  PROVE  KeysKept'
<1>1. /\ thread'[c] = "stopped" /\ received'[c] = None /\ call'[c] = 0
      /\ UNCHANGED <<connections, keys, serverVars, channels>>
  BY DEF Crash, TypeInv, StateTypes, NetTypes
<1>2. \A d \in Client \ {c} :
        /\ thread'[d] = thread[d] /\ received'[d] = received[d]
        /\ outputMessageQueue'[d] = outputMessageQueue[d] /\ state'[d] = state[d]
        /\ call'[d] = call[d] /\ at'[d] = at[d] /\ handler'[d] = handler[d]
        /\ myAESVoiceCrypto'[d] = myAESVoiceCrypto[d] /\ otherAESCrypto'[d] = otherAESCrypto[d]
  BY DEF Crash, TypeInv, StateTypes, NetTypes, UiTypes, OutputTypes, CryptoTypes
<1>3. ClientOnly(c) /\ OwnKeys(c) /\ up' = up /\ down' = down
  BY <1>1, <1>2 DEF ClientOnly, OwnKeys, serverVars, channels
<1>4. Fewer(UpOf(c)', UpOf(c))
  BY <1>1, <1>3, FewerUp
<1>5. Fewer(DownOf(c)', DownOf(c))
  BY <1>1, <1>3, CompletedIs, DeafIs, FewerShrinks, FewerSame
<1>6. QED BY <1>1, <1>3, <1>4, <1>5, KeysStay

LEMMA WriteKeys ==
  ASSUME TypeInv, KeysKept, NEW c \in Client, write(c)
  PROVE  KeysKept'
<1>1. /\ thread[c] = "connected" /\ outputMessageQueue[c] # << >>
      /\ outputMessageQueue'[c] = Tail(outputMessageQueue[c])
      /\ \A d \in Client \ {c} : outputMessageQueue'[d] = outputMessageQueue[d]
      /\ UNCHANGED <<state, handler, at, thread, received, connections, keys, serverVars,
                     cryptos, down, call>>
  BY DEF write, Looping, uiVars, netVars, TypeInv, OutputTypes
<1>2. /\ \A s \in Session : s # Now(c) => up'[s] = up[s]
      /\ \/ up'[Now(c)] = Append(up[Now(c)], Head(outputMessageQueue[c]))
         \/ up'[Now(c)] = up[Now(c)]
  BY NowType DEF write, TypeInv, UpTypes
<1>3. ClientOnly(c) /\ OwnKeys(c) /\ OnLine(c)
  BY <1>1, <1>2 DEF ClientOnly, OnLine, OwnKeys, cryptos, serverVars
<1>4. Fewer(UpOf(c)', UpOf(c))
  BY <1>1, <1>2, <1>3, WrittenIs, FewerSame, FewerWithin
<1>5. QED BY <1>1, <1>3, <1>4, DeafIs, FewerSame, KeysStay DEF cryptos

LEMMA ReadKeys ==
  ASSUME TypeInv, KeysKept, NEW c \in Client, read(c)
  PROVE  KeysKept'
<1>1. PICK m : Reads(c, m)
  BY ReadReads
<1>2. ClientOnly(c) /\ myAESVoiceCrypto' = myAESVoiceCrypto
  BY ReadReads DEF read
<1>3. /\ received' = received => Shrinks(DownOf(c), DownOf(c)', m)
      /\ received'[c] = m => DownOf(c)' = DownOf(c)
      /\ outputMessageQueue' = outputMessageQueue => UpOf(c)' = UpOf(c)
      /\ \A n \in Sent : Queue(c, n) => Grows(UpOf(c), UpOf(c)', n)
  BY <1>1, <1>2, ReadsView
<1>4. SUFFICES ASSUME LoggedIn(c, m) \/ Begin(c, m) \/ Ended(c, m) \/ Ignored(c, m)
               PROVE  /\ OwnKeys(c) /\ Fewer(UpOf(c)', UpOf(c)) /\ Fewer(DownOf(c)', DownOf(c))
                      /\ call'[c] # 0 => call'[c] = call[c]
                      /\ call'[c] # 0 /\ state'[c] \in Talking =>
                           state[c] \in Talking /\ otherAESCrypto'[c] = otherAESCrypto[c]
  BY <1>1, <1>2, KeysStay DEF Reads
<1>5. CASE LoggedIn(c, m)
  BY <1>5, PlainCarriesNone, <1>2, <1>3, FewerGrows, FewerShrinks DEF LoggedIn, Reply, TypeInv,
     StateTypes, OwnKeys, Talking
<1>6. CASE Begin(c, m)
  BY <1>6, <1>2, <1>3, FewerSame DEF Begin, TypeInv, NetTypes, OwnKeys
<1>7. CASE Ended(c, m)
  BY <1>7, <1>2, <1>3, FewerSame, FewerShrinks DEF Ended, TypeInv, StateTypes, CryptoTypes,
     OwnKeys
<1>8. CASE Ignored(c, m)
  BY <1>8, <1>2, <1>3, FewerSame, FewerShrinks DEF Ignored, OwnKeys
<1>9. QED BY <1>4, <1>5, <1>6, <1>7, <1>8

(***************************************************************************)
(* What makes a key, and what hears of one.                                *)
(***************************************************************************)
\* The client says a key, which it has made.
LEMMA SaysKey ==
  ASSUME NEW c \in Client, NEW m \in Sent, NEW k, NEW key, m.secret.key = key,
         Grows(UpOf(c), UpOf(c)', m) \/ UpOf(c)' = UpOf(c),
         ~ Has(UpOf(c), Of(Said, k))
  PROVE  ~ Has(UpOf(c)', Foreign(Said, k, key))
<1>1. ~ Has(UpOf(c), Foreign(Said, k, key)) /\ m \notin Foreign(Said, k, key)
  BY NoneForeign, Foreigners
<1>2. QED BY <1>1 DEF Grows

LEMMA AcceptKeys ==
  ASSUME TypeInv, ProtocolAgreed, ~ overtaken, KeysKept, NEW c \in Client, Accept(c),
         ~ overtaken'
  PROVE  KeysKept'
<1>1. PICK m : m = buildOperation("CALL_ACCEPT", None, EncodedKey(c), call[c])
  OBVIOUS
<1>2. m \in Sent /\ m.secret.key = NextKey(c)
  BY VoiceKeyType, <1>1, KeyMessageType DEF Accept, TypeInv, StateTypes, buildOperation,
     EncodedKey
<1>3. /\ Queue(c, m) /\ at[c] = "idle" /\ state[c] = "RECEIVEDCALL"
      /\ \A d \in Client \ {c} : /\ at'[d] = at[d]
                                 /\ myAESVoiceCrypto'[d] = myAESVoiceCrypto[d]
      /\ myAESVoiceCrypto'[c] = NextKey(c)
      /\ UNCHANGED <<state, call, handler, otherAESCrypto>>
      /\ UNCHANGED <<serverVars, channels, thread, received, connections, keys>>
  BY <1>1 DEF Accept, Idle, netVars, Overtaken, TypeInv, UiTypes, CryptoTypes, NewVoiceKey
<1>4. UiOnly(c) /\ OwnKeys(c)
  BY <1>3 DEF UiOnly, OwnKeys, Queue, TypeInv, OutputTypes
<1>5. /\ ClientOnly(c) /\ OnLine(c) /\ DownOf(c)' = DownOf(c) /\ up'[Now(c)] = up[Now(c)]
      /\ Now(c)' = Now(c) /\ sessionList' = sessionList
  BY <1>4, UiView DEF OnLine, Now, ClientOnly
<1>6. Grows(UpOf(c), UpOf(c)', m) \/ UpOf(c)' = UpOf(c)
  BY <1>2, <1>3, <1>5, QueuedIs
<1>7. \A a, b \in Client : Joined(a, b)' => Joined(a, b)
  BY <1>3, <1>5, ClientJoined
<1>8. SendsItsKey(c)'
  BY <1>3, <1>5, NobodyElse, <1>2, <1>6, SaysKey DEF SendsItsKey, TypeInv, StateTypes, Calls
<1>9. ASSUME NEW d \in Client, d # c  PROVE HearsKeyOf(c, d)'
  BY <1>3, <1>5, <1>7, <1>9, Hears, FewerSame DEF KeysKept
<1>10. ASSUME NEW d \in Client, d # c  PROVE HearsKeyOf(d, c)'
  BY <1>3, <1>7, <1>5, <1>10, JoinedIs, OthersQueuesSame, NobodyElse, NoneForeign DEF HearsKeyOf
<1>11. HearsKeyOf(c, c)'
  BY <1>7, JoinedIs DEF HearsKeyOf
<1>12. QED BY <1>4, <1>5, <1>8, <1>9, <1>10, <1>11, KeysOfOthers

\* The client gets a key from the other, and has the call of it.
LEMMA CompletesHears ==
  ASSUME TypeInv, KeysKept, NEW c \in Client, NEW d \in Client, NEW m \in Sent,
         m.op \in Told, Shrinks(DownOf(c), DownOf(c)', m),
         Joined(c, d)' => Joined(c, d) /\ c # d,
         call'[d] = call[d] \/ d = c, myAESVoiceCrypto' = myAESVoiceCrypto,
         call'[c] = m.call, otherAESCrypto'[c] = m.secret.key
  PROVE  HearsKeyOf(c, d)'
<1>1. SUFFICES ASSUME Joined(c, d)'
               PROVE  /\ ~ Has(DownOf(c)', Foreign(Told, call'[d], myAESVoiceCrypto'[d]))
                      /\ call'[c] = call'[d] =>
                           m.secret.key = myAESVoiceCrypto[d] /\ m.secret.key # None
  BY DEF HearsKeyOf
<1>2. ~ Has(DownOf(c), Foreign(Told, call[d], myAESVoiceCrypto[d])) /\ call'[d] = call[d]
  BY <1>1 DEF KeysKept, HearsKeyOf
<1>3. m \notin Foreign(Told, call[d], myAESVoiceCrypto[d])
  BY <1>2 DEF Shrinks
<1>4. m.secret.key # None
  BY SentFields, NoneAssumption DEF Told
<1>5. QED BY <1>2, <1>3, <1>4, Foreigners, FewerForeign, FewerShrinks

LEMMA CompleteKeys ==
  ASSUME TypeInv, ProtocolAgreed, ~ overtaken, KeysKept, NEW c \in Client, Complete(c),
         ~ overtaken'
  PROVE  KeysKept'
<1>1. PICK m : m = received[c]
  OBVIOUS
<1>2. /\ ClientOnly(c) /\ m \in Sent /\ Shrinks(DownOf(c), DownOf(c)', m) /\ ~ Stale(c, m)
      /\ outputMessageQueue' = outputMessageQueue => UpOf(c)' = UpOf(c)
      /\ \A n \in Sent : Queue(c, n) => Grows(UpOf(c), UpOf(c)', n) \/ UpOf(c)' = UpOf(c)
  BY <1>1, CompleteView
<1>3. Now(c)' = Now(c) /\ sessionList' = sessionList
  BY <1>2 DEF ClientOnly, Now
<1>4. \A d \in Client : d # c => DownOf(d)' = DownOf(d) /\ state'[d] = state[d]
  BY <1>2, OthersQueuesSame
<1>5. Has(DownOf(c), {m})
  BY <1>2 DEF Shrinks
<1>6. CASE m.op = "CALLED_FROM"
  <2>1. /\ state'[c] = "RECEIVEDCALL" /\ call' = [call EXCEPT ![c] = m.call]
        /\ otherAESCrypto' = [otherAESCrypto EXCEPT ![c] = m.secret.key]
        /\ UNCHANGED <<outputMessageQueue, myAESVoiceCrypto>>
    BY <1>1, <1>6 DEF Complete, TypeInv, StateTypes
  <2>2. /\ call'[c] = m.call /\ otherAESCrypto'[c] = m.secret.key
        /\ \A d \in Client : d # c => /\ call'[d] = call[d]
                                      /\ otherAESCrypto'[d] = otherAESCrypto[d]
    BY <2>1 DEF TypeInv, StateTypes, CryptoTypes
  <2>3. OwnKeys(c) /\ m \in From(m.call) /\ Has(DownOf(c), From(m.call))
    BY <1>2, <1>5, <1>6, <2>1, <2>2 DEF OwnKeys, From, Of, Has
  <2>4. m.call # 0 => m.call \in Calls
    BY <1>2, SentFields DEF Calls
  <2>5. SendsItsKey(c)'
    BY <1>2, <1>3, <2>1, <2>2, <2>3, <2>4, NobodyElse, NoneForeign DEF SendsItsKey
  <2>6. \A d \in Client : Joined(c, d)' => c # d /\ Joined(c, d)
    BY <1>2, <1>3, NowType, PartnerIsOther, <2>2, ClientJoined DEF Joined, Mutual, ClientOnly,
       TypeInv
  <2>7. \A d \in Client : HearsKeyOf(c, d)'
    BY <1>2, <1>6, <2>1, <2>2, <2>6, CompletesHears DEF Told
  <2>8. ASSUME NEW d \in Client, d # c  PROVE HearsKeyOf(d, c)'
    BY <2>2, <2>4, <1>4, <2>3, <2>8, NobodyElse, NoneForeign DEF HearsKeyOf, Joined
  <2>9. QED BY <1>2, <2>3, <2>5, <2>7, <2>8, KeysOfOthers
<1>7. CASE m.op = "CALL_ACCEPT"
  BY <1>1, <1>2, <1>7, <1>3, Sends, FewerSame, ClientJoined, JoinedIs, CompletesHears, <1>4,
     Hears, KeysOfOthers DEF Complete, TypeInv, CryptoTypes, Stale, OwnKeys, KeysKept, Told
<1>8. CASE m.op = "CALL_RESPONSE"
  <2>1. PICK n : n = buildOperation("CALL_TO2", None, EncodedKey(c), m.call)
    OBVIOUS
  <2>2. /\ Queue(c, n) /\ otherRSACrypto[c] # None /\ m.call = call[c]
        /\ state[c] = "WAITCALL"
        /\ UNCHANGED <<state, call, otherAESCrypto>>
        /\ myAESVoiceCrypto'[c] = NextKey(c)
        /\ \A d \in Client : d # c => myAESVoiceCrypto'[d] = myAESVoiceCrypto[d]
    BY <1>1, <1>2, <1>8, <2>1 DEF Complete, NewVoiceKey, TypeInv, CryptoTypes, Stale, Expected
  <2>3. n \in Sent /\ n.secret.key = NextKey(c)
    BY <2>2, VoiceKeyType, <1>2, <2>1, KeyMessageType, SentFields DEF TypeInv, buildOperation,
       EncodedKey
  <2>4. OwnKeys(c) /\ Has(DownOf(c), Answered(call[c]))
    BY <1>2, <1>5, <1>8, <2>2 DEF OwnKeys, Answered, Of, Has
  <2>5. \A a, b \in Client : Joined(a, b)' => Joined(a, b) /\ a # b
    BY <1>2, <2>2, ClientJoined, JoinedIs
  <2>6. SendsItsKey(c)'
    BY <1>3, <2>2, <2>4, NoCallYet, <1>2, <2>3, SaysKey DEF SendsItsKey, TypeInv, StateTypes,
       Calls
  <2>7. \A d \in Client : ~ Joined(d, c)'
    BY <2>5, JoinedIs, <2>4, NoCallYet DEF Joined
  <2>8. ASSUME NEW d \in Client, d # c  PROVE HearsKeyOf(c, d)'
    BY <1>2, <2>2, <2>5, <2>8, Hears, FewerShrinks DEF KeysKept
  <2>9. HearsKeyOf(c, c)' /\ \A d \in Client : HearsKeyOf(d, c)'
    BY <2>7 DEF HearsKeyOf
  <2>10. QED BY <1>2, <2>4, <2>6, <2>8, <2>9, KeysOfOthers
<1>9. QED BY <1>1, <1>6, <1>7, <1>8 DEF Complete

LEMMA HangUpKeys ==
  ASSUME TypeInv, KeysKept, NEW c \in Client, HangUp(c)
  PROVE  KeysKept'
<1>1. /\ destroy(c) /\ at' = at /\ handler' = handler /\ myAESVoiceCrypto' = myAESVoiceCrypto
      /\ UNCHANGED <<serverVars, channels, thread, received, connections, keys>>
  BY DEF HangUp, netVars
<1>2. QED BY <1>1, DestroyKeys

\* At rest there are no keys on their way, and nobody is in a call.
LEMMA RestKeys ==
  ASSUME Rest
  PROVE  KeysKept
<1>1. ASSUME NEW c \in Client
      PROVE  UpOf(c) = << >> /\ DownOf(c) = << >> /\ sState[Now(c)] = "STARTED"
  BY DEF Rest, Settled, UpOf, DownOf
<1>2. QED BY <1>1, HasNone DEF KeysKept, SendsItsKey, HearsKeyOf, Joined, Mutual

\* Nothing is known of a call that has not been dialled.
LEMMA NothingUnborn ==
  ASSUME TypeInv, ProtocolAgreed, NEW c \in Client
  PROVE  /\ acts \in Nat /\ sCall[Now(c)] # acts + 1
         /\ ~ Has(UpOf(c), Of(Said, acts + 1))
<1>1. PICK W : W = World
  OBVIOUS
<1>2. NoneUnborn(W) /\ W.acts = acts /\ acts \in Nat /\ W.sCall = sCall
  BY <1>1, WorldFields, ActsTyped DEF ProtocolAgreed, Kept, Always
<1>3. W.up[Now(c)] = UpOf(c) /\ Now(c) \in Session
  BY <1>1, WorldView, ViewFields, WorldFields, NowType DEF TypeInv
<1>4. sCall[Now(c)] <= acts /\ ~ Has(UpOf(c), Unborn(acts)) /\ sCall[Now(c)] \in Nat
  BY <1>2, <1>3 DEF NoneUnborn, TypeInv, PartyTypes
<1>5. Of(Said, acts + 1) \subseteq Unborn(acts)
  BY <1>2 DEF Of, Unborn
<1>6. QED BY <1>2, <1>4, <1>5 DEF Has

LEMMA DialKeys ==
  ASSUME TypeInv, ProtocolAgreed, KeysKept, NEW c \in Client,
         NEW number \in Client \cup {None}, Dial(c, number)
  PROVE  KeysKept'
<1>1. PICK k, m : k = acts + 1 /\ m = buildOperation("CALL_TO", number, None, k)
  OBVIOUS
<1>2. /\ k \in Nat /\ \A d \in Client : sCall[Now(d)] # k
      /\ ~ Has(UpOf(c), Of(Said, k))
  BY <1>1, NothingUnborn
<1>3. m \in Sent /\ m \notin Keyed
  BY <1>1, <1>2, NumberMessageType, Carriers
<1>4. /\ Queue(c, m) /\ state' = state /\ state[c] = "STARTED" /\ call'[c] = k
      /\ \A d \in Client \ {c} : at'[d] = at[d] /\ call'[d] = call[d]
      /\ UNCHANGED <<handler, cryptos>>
      /\ UNCHANGED <<serverVars, channels, thread, received, connections, keys>>
  BY <1>1 DEF Dial, netVars, TypeInv, UiTypes, StateTypes
<1>5. UiOnly(c) /\ OwnKeys(c)
  BY <1>4 DEF UiOnly, OwnKeys, cryptos, Queue, TypeInv, OutputTypes
<1>6. /\ ClientOnly(c) /\ OnLine(c) /\ DownOf(c)' = DownOf(c) /\ up'[Now(c)] = up[Now(c)]
      /\ sCall' = sCall /\ \A d \in Client : Now(d)' = Now(d)
  BY <1>5, UiView DEF ClientOnly, Now
<1>7. Fewer(UpOf(c)', UpOf(c))
  BY <1>3, <1>4, <1>6, FewerUp DEF OnLine
<1>8. SendsItsKey(c)'
  BY <1>2, <1>4, <1>7, NoneForeign, FewerForeign DEF SendsItsKey
<1>9. \A d \in Client : HearsKeyOf(d, c)'
  BY <1>2, <1>4, <1>6 DEF HearsKeyOf, Joined
<1>10. ASSUME NEW d \in Client, d # c  PROVE HearsKeyOf(c, d)'
  BY <1>4, <1>6, <1>10, ClientJoined, Hears, FewerSame DEF KeysKept, Talking, cryptos
<1>11. QED BY <1>5, <1>6, <1>8, <1>9, <1>10, KeysOfOthers

\* The new session is in no call.
LEMMA ConnectKeys ==
  ASSUME TypeInv, Limits, KeysKept, NEW c \in Client, OnNetworkConnected(c)
  PROVE  KeysKept'
<1>1. PICK s, m : s = <<c, connections[c] + 1>> /\ m = Plain("PUT_PUBLIC_KEY", 0)
  OBVIOUS
<1>2. /\ s \in Session /\ up[s] = << >>
      /\ \A d \in Client : d # c => Now(d) # s /\ Now(d)' = Now(d) /\ Now(d) \in Session
  <2>1. /\ connections[c] + 1 \in 0..MaxConnections /\ connections[c] + 1 > connections[c]
        /\ \A k \in 0..MaxConnections : k > connections[c] => up[<<c, k>>] = << >>
        /\ \A d \in Client : d # c => connections'[d] = connections[d]
    <3>1. connections[c] \in Nat /\ connections \in [Client -> 0..MaxConnections]
      BY BoundAssumption DEF TypeInv, NetTypes, MaxConnections
    <3>2. \A d \in Client : d # c => connections'[d] = connections[d]
      BY <3>1 DEF OnNetworkConnected
    <3>3. QED BY <3>1, <3>2, ConnectsInTime DEF TypeInv, Limits
  <2>2. QED BY <1>1, <2>1, NowType DEF Session, Now, TypeInv
<1>3. Now(c)' = s /\ thread'[c] = "connected" /\ outputMessageQueue'[c] = <<m>>
  BY <1>1 DEF OnNetworkConnected, TypeInv, NetTypes, OutputTypes, Now
<1>4. /\ sState'[s] = "INITED" /\ \A u \in Session : u # s => sState'[u] = sState[u]
      /\ sessionList' = sessionList \cup {s}
      /\ UNCHANGED <<state, received, callingSession, sCall, up, down, call>>
  BY <1>1, <1>2 DEF OnNetworkConnected, channels, TypeInv, PartyTypes
<1>5. \A d \in Client : d # c =>
        /\ thread'[d] = thread[d] /\ outputMessageQueue'[d] = outputMessageQueue[d]
        /\ myAESVoiceCrypto'[d] = myAESVoiceCrypto[d]
        /\ otherAESCrypto'[d] = otherAESCrypto[d]
  BY DEF OnNetworkConnected, TypeInv, NetTypes, OutputTypes, CryptoTypes
<1>6. ASSUME NEW d \in Client, d # c  PROVE UpOf(d)' = UpOf(d) /\ DownOf(d)' = DownOf(d)
  BY <1>2, <1>4, <1>5, <1>6 DEF UpOf, DownOf
<1>7. ASSUME NEW d \in Client, d # c  PROVE SendsItsKey(d)'
  BY <1>2, <1>4, <1>5, <1>6, <1>7 DEF KeysKept, SendsItsKey
<1>8. SendsItsKey(c)'
  BY <1>1, PlainCarriesNone, <1>2, <1>3, <1>4, Foreigners DEF UpOf, Has, SendsItsKey
<1>9. ASSUME NEW a \in Client, NEW b \in Client, Joined(a, b)'
      PROVE  a # c /\ b # c /\ Joined(a, b)
  BY <1>3, <1>4, <1>9, <1>2 DEF Joined, Mutual
<1>10. ASSUME NEW a \in Client, NEW b \in Client, Joined(a, b)'  PROVE HearsKeyOf(a, b)'
  BY <1>4, <1>5, <1>6, <1>9, <1>10, Hears, FewerSame DEF KeysKept
<1>11. QED BY <1>7, <1>8, <1>10 DEF KeysKept, HearsKeyOf

(***************************************************************************)
(* What the server does with keys: it passes them on.                      *)
(***************************************************************************)
LEMMA ServerHears ==
  ASSUME TypeInv, TypeInv', ServerOnly, NEW c \in Client
  PROVE  /\ Now(c) \in Session
         /\ up'[Now(c)] = up[Now(c)] => UpOf(c)' = UpOf(c)
         /\ up[Now(c)] # << >> /\ up'[Now(c)] = Tail(up[Now(c)]) =>
              Shrinks(UpOf(c), UpOf(c)', Head(up[Now(c)]))
         /\ down'[Now(c)] = down[Now(c)] => DownOf(c)' = DownOf(c)
         /\ \A n \in Sent : down'[Now(c)] = Append(down[Now(c)], n) =>
              Grows(DownOf(c), DownOf(c)', n)
         /\ \A n \in 0..Len(down[Now(c)]) : down'[Now(c)] = SubSeq(down[Now(c)], 1, n) =>
              Within(DownOf(c)', DownOf(c))
<1>1. PICK W : W = World
  OBVIOUS
<1>2. PICK X : X = World'
  OBVIOUS
<1>3. Now(c) \in Session /\ Now(c)' = Now(c)
  BY NowType DEF TypeInv, ServerOnly, Now
<1>4. PICK v, w : v = View(W, c) /\ w = View(X, c)
  OBVIOUS
<1>5. /\ v.up = UpOf(c) /\ v.down = DownOf(c) /\ w.up = UpOf(c)' /\ w.down = DownOf(c)'
  BY <1>1, <1>2, <1>4, WorldView, WorldViewNext
<1>6. /\ W.up[Now(c)] = UpOf(c) /\ W.down[Now(c)] = DownOf(c)
      /\ X.up[Now(c)] = UpOf(c)' /\ X.down[Now(c)] = DownOf(c)'
  BY <1>1, <1>2, <1>3, <1>4, <1>5, ViewFields, WorldFields, NextWorldFields
<1>7. QED BY <1>1, <1>2, <1>3, <1>6, ServerQueues

LEMMA OperationUp ==
  ASSUME TypeInv, TypeInv', NEW s \in Session, NEW m, Operates(s, m), NEW c \in Client
  PROVE  /\ Fewer(UpOf(c)', UpOf(c)) /\ m \in Sent
         /\ Now(c) = s => Has(UpOf(c), {m})
<1>1. /\ ServerOnly /\ up[s] # << >> /\ m = Head(up[s]) /\ up[s] \in Seq(Sent)
      /\ up'[s] = Tail(up[s]) /\ \A u \in Session : u # s => up'[u] = up[u]
  BY DEF Operates, TypeInv, UpTypes
<1>2. CASE Now(c) = s
  BY <1>1, <1>2, ServerHears, FewerShrinks DEF Shrinks
<1>3. CASE Now(c) # s
  BY <1>1, <1>3, ServerHears, FewerSame
<1>4. QED BY <1>2, <1>3

\* An operation that tells nobody of a key.
LEMMA AnswerKeys ==
  ASSUME TypeInv, TypeInv', KeysKept, NEW s \in Session, NEW m, Operates(s, m),
         cryptos' = cryptos, SameCalls,
         down' = down \/ \E n \in Sent \ Keyed : down' = registerOutputMessage(down, s, n)
  PROVE  KeysKept'
<1>1. ServerOnly
  BY DEF Operates
<1>2. ASSUME NEW c \in Client  PROVE Fewer(DownOf(c)', DownOf(c))
  BY <1>1, ServerHears, FewerSame, Registered, FewerGrows DEF Tells
<1>3. QED BY <1>1, <1>2, OperationUp, ServerKeys

LEMMA LogInKeys ==
  ASSUME TypeInv, TypeInv', KeysKept, NEW s \in Session, NEW m, Operates(s, m),
         cryptos' = cryptos, LogIn(s, m) \/ PutNumber(s, m)
  PROVE  KeysKept'
<1>1. /\ sessionList' = sessionList /\ callingSession' = callingSession /\ sCall' = sCall
      /\ sState' = sState \/ sState' = [sState EXCEPT ![s] = "STARTED"]
      /\ sState \in [Session -> SState]
  BY DEF LogIn, PutNumber, serverVars, TypeInv, PartyTypes
<1>2. SameCalls
  BY <1>1 DEF SameCalls
<1>3. \E n \in Sent \ Keyed : down' = registerOutputMessage(down, s, n)
  BY PlainCarriesNone DEF LogIn, Answer, PutNumber
<1>4. QED BY <1>2, <1>3, AnswerKeys

LEMMA CallToKeys ==
  ASSUME TypeInv, TypeInv', KeysKept, NEW s \in Session, NEW m, Operates(s, m),
         cryptos' = cryptos, ~ overtaken', CallTo(s, m)
  PROVE  KeysKept'
<1>1. m \in Sent /\ m.call \in Nat /\ m.arg \in Client \cup {None}
  BY OperationQueues, SentFields DEF CallTo
<1>2. PICK dst : dst = (IF m.arg = None THEN None ELSE sessionMapByPhoneNumber[m.arg])
  OBVIOUS
<1>3. /\ sState' = sState /\ sessionList' = sessionList /\ sState[s] # "CALLING"
      /\ callingSession \in [Session -> Session \cup {None}] /\ sCall \in [Session -> Nat]
      /\ dst \in Session \cup {None}
  BY <1>1, <1>2 DEF CallTo, Overtaken, TypeInv, PartyTypes, NumberTypes
<1>4. SameCalls
  BY <1>3 DEF CallTo, SameCalls
<1>5. \/ \E error \in {"WRONG_NUMBER_ERROR", "DEST_CALLING_ERROR"} : Reject(s, m, error)
      \/ /\ dst # None
         /\ down' = registerOutputMessage(down, s,
                      buildOperation("CALL_RESPONSE", dst, None, m.call))
  BY <1>2 DEF CallTo
<1>6. \E n \in Sent \ Keyed : down' = registerOutputMessage(down, s, n)
  BY <1>1, <1>3, SessionMessageType, Carriers, <1>5, PlainCarriesNone DEF buildOperation, Reject
<1>7. QED BY <1>4, <1>6, AnswerKeys

\* The server connects s with its partner t, and tells t the key of s.
LEMMA ConnectedKeys ==
  ASSUME TypeInv, TypeInv', ProtocolAgreed, ~ overtaken, KeysKept, NEW s \in Session, NEW m,
         Operates(s, m), m.op = "CALL_TO2", cryptos' = cryptos,
         NEW t \in Session, callingSession[s] = t, NEW n \in Sent, Tells(t, n),
         n.secret = m.secret, callingSession' = [callingSession EXCEPT ![t] = s],
         sState' = [sState EXCEPT ![t] = "CALLING", ![s] = "CALLING"],
         sCall' = [sCall EXCEPT ![t] = m.call, ![s] = m.call], sessionList' = sessionList
  PROVE  KeysKept'
<1>1. /\ ServerOnly /\ m \in Sent /\ s \in sessionList
      /\ connections' = connections /\ call' = call /\ state' = state
      /\ myAESVoiceCrypto' = myAESVoiceCrypto /\ otherAESCrypto' = otherAESCrypto
      /\ \A c \in Client : Now(c) \in Session /\ Now(c)' = Now(c)
  BY OperationQueues, NowType DEF Operates, ServerOnly, cryptos, TypeInv, Now
<1>2. /\ s # t /\ sState'[s] = "CALLING" /\ sState'[t] = "CALLING"
      /\ callingSession'[s] = t /\ callingSession'[t] = s
      /\ sCall'[s] = m.call /\ sCall'[t] = m.call
      /\ \A u \in Session : u \notin {s, t} =>
           /\ sState'[u] = sState[u] /\ callingSession'[u] = callingSession[u]
           /\ sCall'[u] = sCall[u]
  BY PartnerIsOther DEF TypeInv, PartyTypes
<1>3. ASSUME NEW c \in Client  PROVE SendsItsKey(c)'
  BY <1>1, OperationUp, Sends DEF KeysKept
<1>4. ASSUME NEW a \in Client, NEW b \in Client, Joined(a, b)'  PROVE HearsKeyOf(a, b)'
  <2>1. /\ callingSession'[Now(a)] = Now(b) /\ callingSession'[Now(b)] = Now(a)
        /\ call[b] # 0 /\ sCall'[Now(a)] = call[b] /\ sCall'[Now(b)] = call[b]
    BY <1>1, <1>4 DEF Joined, Mutual
  <2>2. CASE Now(a) \notin {s, t}
    BY <1>2, <2>1, <2>2, <1>1, <1>4, ServerHears, Hears, FewerSame DEF Joined, Mutual, Tells,
       KeysKept
  <2>3. ASSUME NEW e \in Client, Now(e) = s, call[b] = m.call
        PROVE  /\ \A d \in Client : ~ Has(DownOf(d), Of(Told, call[b]))
               /\ \A d \in Client : d # e => call[d] # call[b]
               /\ call[e] # 0 /\ call[e] = call[b] => m.secret.key = myAESVoiceCrypto[e]
    BY <1>1, <2>1, <2>3, OperationUp, SentFields, Foreigners, NoCallYet DEF Calls, Asked, Of, Has,
       KeysKept, SendsItsKey, Said
  <2>4. CASE Now(a) = s
    BY <1>2, <2>1, <2>4, <2>3
  <2>5. CASE Now(a) = t
    <3>1. Now(b) = s /\ call[b] = m.call /\ a # b
      BY <1>2, <2>1, <2>5
    <3>2. /\ ~ Has(DownOf(a), Of(Told, call[b])) /\ call[a] # call[b]
          /\ n.secret.key = myAESVoiceCrypto[b]
      BY <2>1, <2>3, <3>1
    <3>3. Grows(DownOf(a), DownOf(a)', n)
      BY <1>1, <2>5, ServerHears DEF Tells
    <3>4. ~ Has(DownOf(a)', Foreign(Told, call[b], myAESVoiceCrypto[b]))
      <4>1. /\ n \notin Foreign(Told, call[b], myAESVoiceCrypto[b])
            /\ ~ Has(DownOf(a), Foreign(Told, call[b], myAESVoiceCrypto[b]))
        BY <3>2, NoneForeign, Foreigners
      <4>2. QED BY <3>3, <4>1 DEF Grows
    <3>5. QED BY <1>1, <3>2, <3>4 DEF HearsKeyOf
  <2>6. QED BY <2>2, <2>4, <2>5
<1>5. QED BY <1>3, <1>4 DEF KeysKept, HearsKeyOf

LEMMA CallTo2Keys ==
  ASSUME TypeInv, TypeInv', ProtocolAgreed, ~ overtaken, KeysKept, NEW s \in Session, NEW m,
         Operates(s, m), cryptos' = cryptos, ~ overtaken', CallTo2(s, m)
  PROVE  KeysKept'
<1>1. m \in Sent /\ m.op = "CALL_TO2" /\ m.call \in Nat /\ m.secret \in Secret
  BY OperationQueues, SentFields DEF CallTo2
<1>2. sessionList' = sessionList /\ sState[s] # "CALLING"
  BY DEF CallTo2, Overtaken
<1>3. callingSession \in [Session -> Session \cup {None}]
  BY DEF TypeInv, PartyTypes
<1>4. CASE /\ \E error \in {"WRONG_NUMBER_ERROR", "DEST_CALLING_ERROR"} : Reject(s, m, error)
           /\ sState' = sState /\ sCall' = sCall
           /\ \A u \in Session : u # s => callingSession'[u] = callingSession[u]
  BY <1>2, <1>4, <1>1, PlainCarriesNone, AnswerKeys DEF SameCalls, Reject
<1>5. CASE /\ callingSession[s] # None
           /\ callingSession' = [callingSession EXCEPT ![callingSession[s]] = s]
           /\ down' = registerOutputMessage(down, callingSession[s],
                        buildOperation("CALLED_FROM", s, m.secret, m.call))
           /\ sState' = [sState EXCEPT ![callingSession[s]] = "CALLING", ![s] = "CALLING"]
           /\ sCall' = [sCall EXCEPT ![callingSession[s]] = m.call, ![s] = m.call]
  BY <1>3, <1>5, <1>1, SessionMessageType, Registered, <1>2, ConnectedKeys DEF buildOperation
<1>6. QED BY <1>3, <1>4, <1>5 DEF CallTo2

\* The server passes the key of s on to its partner t.
LEMMA ForwardKeys ==
  ASSUME TypeInv, TypeInv', ProtocolAgreed, ~ overtaken, KeysKept, NEW s \in Session, NEW m,
         Operates(s, m), m.op = "CALL_ACCEPT", m.call = sCall[s], cryptos' = cryptos,
         sState[s] = "CALLING", NEW t \in Session, callingSession[s] = t, NEW n \in Sent,
         Tells(t, n), n.secret = m.secret, SameCalls
  PROVE  KeysKept'
<1>1. /\ ServerOnly /\ m \in Sent /\ s \in sessionList
      /\ connections' = connections /\ call' = call /\ state' = state
      /\ myAESVoiceCrypto' = myAESVoiceCrypto /\ otherAESCrypto' = otherAESCrypto
      /\ sessionList' \subseteq sessionList
      /\ \A c \in Client : Now(c) \in Session /\ Now(c)' = Now(c)
  BY OperationQueues, NowType DEF Operates, ServerOnly, cryptos, TypeInv, Now, SameCalls
<1>2. ASSUME NEW c \in Client  PROVE SendsItsKey(c)'
  BY <1>1, OperationUp, Sends DEF KeysKept
<1>3. callingSession[t] = s
  BY AgreedFields, <1>1 DEF Agreed, Together, Mates
<1>4. ASSUME NEW a \in Client, NEW b \in Client, Joined(a, b)'  PROVE HearsKeyOf(a, b)'
  <2>1. Joined(a, b) /\ HearsKeyOf(a, b)
    BY <1>1, <1>4, ServerJoined DEF KeysKept
  <2>2. CASE Now(a) # t
    BY <1>1, <2>1, <2>2, ServerHears, Hears, FewerSame DEF Tells
  <2>3. CASE Now(a) = t
    <3>1. Now(b) = s /\ call[b] = m.call /\ call[b] # 0
      BY <1>3, <2>1, <2>3 DEF Joined, Mutual
    <3>2. Has(UpOf(b), {m}) /\ SendsItsKey(b)
      BY <3>1, OperationUp DEF KeysKept
    <3>3. n.secret.key = myAESVoiceCrypto[b]
      BY <1>1, <3>1, <3>2, Foreigners DEF SendsItsKey, Has, Said
    <3>4. Grows(DownOf(a), DownOf(a)', n)
      BY <1>1, <2>3, ServerHears DEF Tells
    <3>5. ~ Has(DownOf(a)', Foreign(Told, call[b], myAESVoiceCrypto[b]))
      BY <2>1, <3>3, <3>4, Foreigners DEF Grows, HearsKeyOf
    <3>6. QED BY <1>1, <2>1, <3>5 DEF HearsKeyOf
  <2>4. QED BY <2>2, <2>3
<1>5. QED BY <1>2, <1>4 DEF KeysKept, HearsKeyOf

LEMMA CallAcceptKeys ==
  ASSUME TypeInv, TypeInv', ProtocolAgreed, ~ overtaken, KeysKept, NEW s \in Session, NEW m,
         Operates(s, m), cryptos' = cryptos, ~ overtaken', CallAccept(s, m)
  PROVE  KeysKept'
<1>1. /\ m \in Sent /\ m.op = "CALL_ACCEPT" /\ m.call \in Nat /\ m.secret \in Secret
      /\ callingSession[s] \in Session \cup {None}
  BY OperationQueues, SentFields DEF CallAccept, TypeInv, PartyTypes
<1>2. SameCalls /\ (sState[s] = "CALLING" => m.call = sCall[s])
  BY DEF CallAccept, Overtaken, serverVars, SameCalls
<1>3. CASE down' = down \/ Reject(s, m, "CALL_ACCEPT_ERROR")
  BY <1>1, <1>2, <1>3, PlainCarriesNone, AnswerKeys DEF Reject
<1>4. CASE /\ sState[s] = "CALLING" /\ callingSession[s] # None
           /\ down' = registerOutputMessage(down, callingSession[s],
                        buildOperation("CALL_ACCEPT", None, m.secret, m.call))
  BY <1>1, <1>4, KeyMessageType, Registered, <1>2, ForwardKeys DEF buildOperation
<1>5. QED BY <1>3, <1>4 DEF CallAccept

\* A session leaves its call, and at most tells its partner.
LEMMA LeftKeys ==
  ASSUME TypeInv, TypeInv', ProtocolAgreed, KeysKept, NEW s \in Session, ServerOnly,
         cryptos' = cryptos, NEW after, after # "CALLING", NEW queues \in [Session -> Seq(Sent)],
         NEW mistaken, Leave(s, after, queues, mistaken), sessionList' \subseteq sessionList,
         \A u \in Session : u # s => queues[u] = down[u],
         NEW n \in 0..Len(down[s]), queues[s] = SubSeq(down[s], 1, n),
         \A c \in Client : Fewer(UpOf(c)', UpOf(c))
  PROVE  KeysKept'
<1>1. Left(s, after, queues) /\ callingSession[s] # s
  BY PartnerIsOther, LeaveFields
<1>2. SameCalls
  BY <1>1, NoneAssumption DEF Left, SameCalls
<1>3. ASSUME NEW c \in Client  PROVE Fewer(DownOf(c)', DownOf(c))
  <2>1. Now(c) \in Session
    BY NowType DEF TypeInv
  <2>2. CASE Now(c) = s
    <3>1. /\ down'[s] = SubSeq(down[s], 1, n) /\ down[s] \in Seq(Sent)
          /\ received'[c] = received[c] /\ Now(c)' = Now(c)
          /\ received[c] \in Sent \cup {None}
      BY <1>1 DEF Left, ServerOnly, TypeInv, DownTypes, NetTypes, Now
    <3>2. /\ << >> \o SubSeq(down[s], 1, n) = SubSeq(down[s], 1, n) /\ << >> \o down[s] = down[s]
      BY <3>1, QueuePrefix
    <3>3. Within(DownOf(c)', DownOf(c))
      BY <2>2, <3>1, <3>2, WithinPrefix, WithinJoin DEF DownOf
    <3>4. QED BY <3>3, FewerWithin
  <2>3. CASE Now(c) # s /\ Now(c) = callingSession[s]
    <3>1. PICK m : m = Plain("CALL_OFF", sCall[s])
      OBVIOUS
    <3>2. m \in Sent /\ m \notin Keyed
      BY <3>1, PlainCarriesNone DEF TypeInv, PartyTypes
    <3>3. down'[Now(c)] = Append(down[Now(c)], m)
      BY <1>1, <2>1, <2>3, <3>1, NoneAssumption DEF Left
    <3>4. QED BY <3>2, <3>3, ServerHears, FewerGrows
  <2>4. CASE Now(c) # s /\ Now(c) # callingSession[s]
    BY <1>1, <2>1, <2>4, ServerHears, FewerSame DEF Left
  <2>5. QED BY <2>2, <2>3, <2>4
<1>4. QED BY <1>2, <1>3, ServerKeys

LEMMA CallOffKeys ==
  ASSUME TypeInv, TypeInv', ProtocolAgreed, KeysKept, NEW s \in Session, NEW m,
         Operates(s, m), cryptos' = cryptos, CallOff(s, m)
  PROVE  KeysKept'
<1>1. sessionList' = sessionList
  BY DEF CallOff
<1>2. CASE UNCHANGED <<sState, callingSession, down, sCall>>
  BY <1>1, <1>2, AnswerKeys DEF SameCalls
<1>3. CASE Leave(s, "STARTED", down, m.call # sCall[s])
  <2>1. /\ down \in [Session -> Seq(Sent)] /\ Len(down[s]) \in 0..Len(down[s])
        /\ down[s] = SubSeq(down[s], 1, Len(down[s])) /\ ServerOnly
    BY DEF TypeInv, DownTypes, Operates
  <2>2. QED BY <1>1, <1>3, <2>1, OperationUp, LeftKeys
<1>4. QED BY <1>2, <1>3 DEF CallOff

LEMMA CloseKeys ==
  ASSUME TypeInv, TypeInv', ProtocolAgreed, KeysKept, NEW s \in Session, ServerOnly,
         cryptos' = cryptos, closeSession(s), \A c \in Client : Fewer(UpOf(c)', UpOf(c))
  PROVE  KeysKept'
<1>1. PICK n \in 0..Len(down[s]) :
        Leave(s, "ENDED", [down EXCEPT ![s] = SubSeq(@, 1, n)], FALSE)
  BY DEF closeSession
<1>2. PICK queues : queues = [down EXCEPT ![s] = SubSeq(@, 1, n)]
  OBVIOUS
<1>3. /\ queues \in [Session -> Seq(Sent)] /\ queues[s] = SubSeq(down[s], 1, n)
      /\ \A u \in Session : u # s => queues[u] = down[u]
  BY <1>2, QueuePrefix DEF TypeInv, DownTypes
<1>4. QED BY <1>1, <1>2, <1>3, LeftKeys DEF closeSession

LEMMA OperationKeys ==
  ASSUME TypeInv, TypeInv', ProtocolAgreed, ~ overtaken, KeysKept, NEW s \in Session,
         putOperation(s), ~ overtaken'
  PROVE  KeysKept'
<1>1. PICK m : m = Head(up[s])
  OBVIOUS
<1>2. Operates(s, m) /\ cryptos' = cryptos /\ ServerOnly
  BY <1>1 DEF putOperation, Operates, ServerOnly, uiVars, netVars
<1>3. \/ LogIn(s, m) \/ PutNumber(s, m) \/ CallTo(s, m) \/ CallTo2(s, m) \/ CallAccept(s, m)
      \/ CallOff(s, m) \/ closeSession(s)
  BY <1>1 DEF putOperation, Bye
<1>4. QED
  BY <1>2, <1>3, OperationUp, LogInKeys, CallToKeys, CallTo2Keys, CallAcceptKeys, CallOffKeys,
     CloseKeys

LEMMA MonitorKeys ==
  ASSUME TypeInv, TypeInv', ProtocolAgreed, KeysKept, NEW s \in Session, NEW slow,
         Monitor(s, slow)
  PROVE  KeysKept'
<1>1. ServerOnly /\ closeSession(s) /\ cryptos' = cryptos /\ up' = up
  BY DEF Monitor, ServerOnly, uiVars, netVars
<1>2. ASSUME NEW c \in Client  PROVE Fewer(UpOf(c)', UpOf(c))
  BY <1>1, ServerHears, FewerSame
<1>3. QED BY <1>1, <1>2, CloseKeys

\* It stays so that nothing has been overtaken, except that a call is dialled at rest.
LEMMA StaysOvertaken ==
  ASSUME Next, ~ overtaken'
  PROVE  ~ overtaken \/ DialsAtRest
<1>1. ASSUME NEW c \in Client, User(c)  PROVE ~ overtaken \/ DialsAtRest
  BY <1>1 DEF Dial, DialsAtRest, close, HangUp, destroy, User, getNewPhoneNumber, Accept, onPause,
     onResume, Crash, Overtaken
<1>2. ASSUME NEW c \in Client, Threads(c)  PROVE ~ overtaken
  BY <1>2 DEF read, Looping, LoggedIn, Begin, Ended, Ignored, Overtaken, Complete, handleMessage,
     Assign, doStop, destroy, write, close, Leaving, OnNetworkConnected, Threads
<1>3. ASSUME NEW s \in Session, closeSession(s)  PROVE ~ overtaken
  BY <1>3 DEF closeSession, Leave, Overtaken
<1>4. ASSUME NEW s \in Session, putOperation(s)  PROVE ~ overtaken
  BY <1>3, <1>4 DEF putOperation, LogIn, PutNumber, CallTo, CallTo2, CallAccept, CallOff, Bye,
     Leave, Overtaken
<1>5. QED BY <1>1, <1>2, <1>3, <1>4 DEF Next, Monitor

LEMMA KeyStep ==
  ASSUME AgreedInv, KeyInv, [Next]_vars
  PROVE  KeyInv'
<1>1. SUFFICES ASSUME Next, ~ overtaken'  PROVE KeysKept'
  <2>1. CASE UNCHANGED vars
    <3>1. /\ UNCHANGED <<state, call, thread, received, connections, outputMessageQueue, up, down,
                        sState, callingSession, sessionList, sCall, overtaken>>
          /\ UNCHANGED <<myAESVoiceCrypto, otherAESCrypto>>
      BY <2>1 DEF vars, uiVars, netVars, serverVars, channels, cryptos
    <3>2. \A c \in Client : Now(c)' = Now(c) /\ UpOf(c)' = UpOf(c) /\ DownOf(c)' = DownOf(c)
      BY <3>1 DEF Now, UpOf, DownOf
    <3>3. QED BY <3>1, <3>2 DEF KeyInv, KeysKept, SendsItsKey, HearsKeyOf, Joined, Mutual
  <2>2. QED BY <2>1 DEF KeyInv
<1>2. TypeInv /\ TypeInv' /\ Limits
  BY <1>1, AgreedStep DEF AgreedInv, ProtocolInv
<1>3. CASE DialsAtRest
  BY <1>2, <1>3, RestKeys, DialKeys DEF DialsAtRest, AgreedInv
<1>4. CASE ~ overtaken
  <2>1. KeysKept
    BY <1>4 DEF KeyInv
  <2>2. ASSUME NEW c \in Client, User(c) \/ Threads(c)  PROVE KeysKept'
    BY <1>2, <2>1, DialKeys, <1>1, <1>4, <2>2, NumberKeys, AcceptKeys, HangUpKeys, PauseKeys,
       DoStopKeys, CrashKeys, LostKeys, AssignKeys, HandleKeys, WriteKeys, ReadKeys, CompleteKeys,
       ConnectKeys DEF AgreedInv, User, Threads
  <2>3. ASSUME NEW s \in Session, putOperation(s) \/ \E slow : Monitor(s, slow)
        PROVE  KeysKept'
    BY SessionClient, <1>1, <1>2, <1>4, <2>1, <2>3, OperationKeys, MonitorKeys DEF AgreedInv
  <2>4. QED BY <1>1, <2>2, <2>3 DEF Next
<1>5. QED BY <1>1, <1>3, <1>4, StaysOvertaken

LEMMA KeyInit == Init => KeyInv
  BY StartRests, RestKeys DEF KeyInv

\* The voice keys fit.  Once everything that was sent has been read, and if nothing has been
\* overtaken, who talks encodes with the key that the other one in its call decodes with.
THEOREM KeysAlwaysAgree == Spec => []KeysAgree
<1>1. ASSUME AgreedInv, KeyInv, Settled, ~ overtaken, NEW c \in Client, NEW d \in Client,
             Mutual(c, d), state[c] = "CALLING"
      PROVE  otherAESCrypto[c] # None /\ otherAESCrypto[c] = myAESVoiceCrypto[d]
  <2>1. TypeInv /\ ProtocolAgreed /\ Now(c) \in sessionList /\ Now(d) \in sessionList
    BY <1>1 DEF AgreedInv, ProtocolInv, Settled
  <2>2. PICK W : W = World
    OBVIOUS
  <2>3. PICK f, h : Agreed(W, f, h)
    BY <1>1, <2>1, <2>2 DEF ProtocolAgreed, Kept, Agreement
  <2>4. /\ W.list = sessionList /\ W.partner = callingSession /\ W.sCall = sCall
        /\ W.state = state /\ W.call = call /\ W.now[c] = Now(c) /\ W.now[d] = Now(d)
        /\ Now(c) \in W.calling /\ Now(d) \in W.calling
    BY <1>1, <2>1, <2>2, WorldFields, NowType DEF TypeInv, Mutual
  <2>5. sCall[Now(d)] = sCall[Now(c)] /\ sCall[Now(c)] # 0
    BY <1>1, <2>1, <2>3, <2>4 DEF Agreed, Together, Mates, Mutual
  <2>6. WorldType(W) /\ Quiescent(W)
    BY <1>1, <2>1, <2>2, WorldTypes, SettledQuiescent
  <2>7. call[c] = sCall[Now(c)] /\ call[d] = sCall[Now(d)]
    BY <2>3, <2>4, <2>5, <2>6, QuiescentCalls DEF Srv
  <2>8. Joined(c, d) /\ call[c] = call[d] /\ HearsKeyOf(c, d)
    BY <1>1, <2>1, <2>5, <2>7 DEF Joined, KeyInv, KeysKept
  <2>9. QED BY <1>1, <2>8 DEF HearsKeyOf, Talking
<1>2. AgreedInv /\ KeyInv => KeysAgree
  BY <1>1 DEF KeysAgree
<1>3. Init => KeyInv
  BY KeyInit
<1>4. AgreedInv /\ KeyInv /\ [Next]_vars => KeyInv'
  BY KeyStep
<1>5. QED BY <1>2, <1>3, <1>4, AgreedInvariant, PTL DEF Spec
=============================================================================
