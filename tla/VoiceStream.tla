----------------------------- MODULE VoiceStream -----------------------------
(***************************************************************************)
(* What one client says on its way to the other, in one call after the     *)
(* other.  The encoder numbers the packets and offers each to the voice    *)
(* managers; these send it over their channels, so that it arrives more    *)
(* than once, late or never; the other client's managers put what they     *)
(* read into the PriorityQueue from which the audio callback plays.        *)
(* Encoder, managers, callback and user interface are threads that share   *)
(* the queues, partly without their locks.                                 *)
(*                                                                         *)
(* Every call has a key of its own, so a packet is its call and its        *)
(* sequence number.                                                        *)
(***************************************************************************)
EXTENDS Naturals, Sequences, FiniteSets

CONSTANTS TRANSMISSION_COUNT,   \* how many voice managers there are
          TCP_TO_SERVER_INDEX,  \* which one has the TCP connection to the server
          LIST_SIZE,            \* VOICE_BUFFER_QUEUE_SIZE
          QUEUE_SIZE,           \* of the PriorityQueue
          None                  \* null, and the end of a std::list

Manager == 0 .. TRANSMISSION_COUNT - 1

ASSUME StreamAssumption ==
  /\ TRANSMISSION_COUNT \in Nat /\ TCP_TO_SERVER_INDEX \in Manager
  /\ LIST_SIZE \in Nat \ {0} /\ QUEUE_SIZE \in Nat \ {0}
  /\ None \notin [call : Nat, seq : Nat]      \* None is no packet

VARIABLES
  \* the client that speaks
  speaker,                  \* its part in the call: idle, called, talking or ending
  otherAESCrypto,           \* the call whose key it encodes with, or 0
  encodeState,              \* whether VoiceEncoder is RUNNING
  seqNumber, encoder,       \* VoiceEncoder.run: what it does next, with which packet
  transmissionState,        \* whether each VoiceManager is STARTED
  connected,                \* whether it is: no, yes, or clearing or closing in close
  voiceOutputDataQueue,     \* each VoicePriorityList: its ownList
  polledHashMap,            \* the packets whose numbers it has seen
  network,                  \* what has ever been written to each channel
  \* the client that listens
  listener,                 \* idle, called, talking, ending or stopping
  myAESVoiceCrypto,         \* the call whose key it decodes with, or 0
  playState,                \* whether OpenSLAudioPlayer is STARTED
  putter,                   \* what OpenSLAudioPlayer.put does next
  ownList, gotNumberMap,    \* the PriorityQueue: its packets, and those it has got
  callback,                 \* AudioPlayer::bufferQueueCallback
  starting,                 \* the clients whose message to start is on its way
  crashed,                  \* the clients whose process has ended
  \* history
  spoken,                   \* the last call the speaker has been in
  arrived,                  \* packets of this call that have come to put
  played,                   \* packets popped since the PriorityQueue's last reset
  unsent, unplayed,         \* packets dropped from a list, or the queue, when too long
  left                      \* packets that a call has left behind in a list or queue

speakerVars == <<speaker, otherAESCrypto, encodeState, spoken>>
encoderVars == <<seqNumber, encoder>>
listVars == <<voiceOutputDataQueue, polledHashMap, unsent>>
sendVars == <<transmissionState, connected, listVars, network>>
listenerVars == <<listener, myAESVoiceCrypto, playState>>
queueVars == <<ownList, gotNumberMap, played, unplayed>>
playVars == <<putter, arrived, queueVars, callback>>
vars == <<speakerVars, encoderVars, sendVars, listenerVars, playVars, starting, crashed, left>>

Init ==
  /\ speaker = "idle" /\ otherAESCrypto = 0 /\ encodeState = FALSE /\ spoken = 0
  /\ seqNumber = 0
  /\ encoder = [step |-> "stopped", packet |-> None, to |-> 0, index |-> 0]
  /\ transmissionState = [m \in Manager |-> FALSE]
  /\ connected = [m \in Manager |-> "no"]
  /\ voiceOutputDataQueue = [m \in Manager |-> << >>]
  /\ polledHashMap = [m \in Manager |-> {}]
  /\ network = [m \in Manager |-> {}] /\ unsent = [m \in Manager |-> {}]
  /\ listener = "idle" /\ myAESVoiceCrypto = 0 /\ playState = FALSE
  /\ putter = [step |-> "idle", packet |-> None, next |-> None]
  /\ ownList = << >> /\ gotNumberMap = {} /\ played = {} /\ unplayed = {}
  /\ callback = "idle"
  /\ starting = {} /\ crashed = {}
  /\ arrived = {} /\ left = {}

InCall == {"called", "talking"}
Speaks == "speaker" \notin crashed
Listens == "listener" \notin crashed

In(s) == {s[i] : i \in DOMAIN s}
Numbered(n, packets) == \E q \in packets : q.seq = n

\* What the list of manager m remembers.
Seen(m) == polledHashMap[m] \cup In(voiceOutputDataQueue[m])

\* Where a packet with number n belongs: before the first one with a higher number.
Position(n, s) == Cardinality({i \in DOMAIN s : s[i].seq < n}) + 1
InsertAt(i, p, s) == SubSeq(s, 1, i - 1) \o <<p>> \o SubSeq(s, i, Len(s))

\* (one packet late: for the mutation of Shorten)
ShortenLate(s, size) == IF Len(s) > size + 1 THEN Tail(s) ELSE s

\* What has become too long loses its first packet.
Shorten(s, size) == IF Len(s) > size THEN Tail(s) ELSE s
Excess(s, size) == IF Len(s) > size THEN {Head(s)} ELSE {}

-----------------------------------------------------------------------------
(***************************************************************************)
(* The calls come one after the other.  The listener makes a key and sends *)
(* it; the speaker is in the call from when it has the key.                *)
(***************************************************************************)

\* callAccept, or CALL_RESPONSE and CALL_ACCEPT to who has dialled.
Answer ==
  /\ Listens /\ listener = "idle" /\ "listener" \notin starting
  /\ myAESVoiceCrypto' = myAESVoiceCrypto + 1
  /\ listener' = "called"
  /\ starting' = starting \cup {"listener"}
  /\ arrived' = {}
  /\ UNCHANGED <<speakerVars, encoderVars, sendVars, playState, putter, queueVars, callback,
                 crashed, left>>

\* CALLED_FROM or CALL_ACCEPT has brought the key.
Called ==
  /\ Speaks /\ speaker = "idle" /\ "speaker" \notin starting
  /\ listener \in InCall /\ spoken < myAESVoiceCrypto
  /\ otherAESCrypto' = myAESVoiceCrypto /\ spoken' = myAESVoiceCrypto
  /\ speaker' = "called"
  /\ starting' = starting \cup {"speaker"}
  /\ UNCHANGED <<encodeState, encoderVars, sendVars, listenerVars, playVars, crashed, left>>

\* MSG_CALLACCEPT or MSG_CALLACCEPTED, also when the user has hung up before it is
\* handled: then recorder, encoder and player are started for no call.
StartEncoding ==
  /\ Speaks /\ "speaker" \in starting
  /\ encodeState' = TRUE
  /\ speaker' = IF speaker = "called" THEN "talking" ELSE speaker
  /\ starting' = starting \ {"speaker"}
  /\ UNCHANGED <<otherAESCrypto, spoken, encoderVars, sendVars, listenerVars, playVars, crashed,
                 left>>

StartPlaying ==
  /\ Listens /\ "listener" \in starting
  /\ playState' = TRUE
  /\ listener' = IF listener = "called" THEN "talking" ELSE listener
  /\ starting' = starting \ {"listener"}
  /\ UNCHANGED <<speakerVars, encoderVars, sendVars, myAESVoiceCrypto, playVars, crashed, left>>

\* callOff, or CALL_OFF from the other party.
HangUp ==
  /\ Speaks /\ speaker \in InCall
  /\ otherAESCrypto' = 0
  /\ transmissionState' = [m \in Manager |-> FALSE]
  /\ speaker' = "ending"
  /\ UNCHANGED <<encodeState, spoken, encoderVars, connected, listVars, network, listenerVars, playVars,
                 starting, crashed, left>>

StopReading ==
  /\ Listens /\ listener \in InCall
  /\ listener' = "ending"
  /\ UNCHANGED <<speakerVars, encoderVars, sendVars, myAESVoiceCrypto, playState, playVars,
                 starting, crashed, left>>

\* CallingFragment.destroy: stopEncoding.
StopEncoding ==
  /\ Speaks /\ speaker = "ending"
  /\ encodeState' = FALSE
  /\ speaker' = "idle"
  /\ UNCHANGED <<otherAESCrypto, spoken, encoderVars, sendVars, listenerVars, playVars, starting,
                 crashed, left>>

\* And OpenSLAudioPlayer.stop, which does nothing to a player that is not started:
\* what has been put then stays.
StopPlaying ==
  /\ Listens /\ listener = "ending"
  /\ playState' = FALSE
  /\ listener' = IF playState THEN "stopping" ELSE "idle"
  /\ left' = IF playState THEN left ELSE left \cup gotNumberMap
  /\ UNCHANGED <<speakerVars, encoderVars, sendVars, myAESVoiceCrypto, playVars, starting,
                 crashed>>

\* (the numbers stay: for the mutation of reset)
resetList ==
  /\ Listens /\ listener = "stopping"
  /\ ownList' = << >> /\ played' = {} /\ unplayed' = {}
  /\ listener' = "idle"
  /\ UNCHANGED <<speakerVars, encoderVars, sendVars, myAESVoiceCrypto, playState, putter,
                 arrived, gotNumberMap, callback, starting, crashed, left>>

\* PriorityQueue::reset, called by AudioPlayer::stop.
reset ==
  /\ Listens /\ listener = "stopping"
  /\ ownList' = << >> /\ gotNumberMap' = {} /\ played' = {} /\ unplayed' = {}
  /\ listener' = "idle"
  /\ UNCHANGED <<speakerVars, encoderVars, sendVars, myAESVoiceCrypto, playState, putter,
                 arrived, callback, starting, crashed, left>>

-----------------------------------------------------------------------------
(***************************************************************************)
(* Speaking.  A recording is always there, and becomes one packet.         *)
(***************************************************************************)
EncoderGoes(step) == encoder' = [encoder EXCEPT !.step = step]

\* VoiceEncoder.run's outer loop: the numbers begin again, unless the encoder has not
\* noticed that it was stopped in between.
BeginLoop ==
  /\ Speaks /\ encoder.step = "stopped" /\ encodeState
  /\ seqNumber' = 0
  /\ EncoderGoes("encode")
  /\ UNCHANGED <<speakerVars, sendVars, listenerVars, playVars, starting, crashed, left>>

\* The state is tested before the next recording, not between the packets of one.
EndLoop ==
  /\ Speaks /\ encoder.step = "encode" /\ ~ encodeState
  /\ EncoderGoes("stopped")
  /\ UNCHANGED <<speakerVars, seqNumber, sendVars, listenerVars, playVars, starting, crashed,
                 left>>

\* There is a key to encrypt with.
Encode ==
  /\ Speaks /\ encoder.step = "encode"
  /\ otherAESCrypto # 0
  /\ EncoderGoes("encrypt")
  /\ UNCHANGED <<speakerVars, seqNumber, sendVars, listenerVars, playVars, starting, crashed,
                 left>>

\* The key is read again; if it is null now, the NullPointerException ends the process.
Encrypt ==
  /\ Speaks /\ encoder.step = "encrypt"
  /\ IF otherAESCrypto = 0
     THEN crashed' = crashed \cup {"speaker"} /\ UNCHANGED encoderVars
     ELSE /\ encoder' = [encoder EXCEPT !.step = "put",
                           !.packet = [call |-> otherAESCrypto, seq |-> seqNumber]]
          /\ seqNumber' = seqNumber + 1
          /\ UNCHANGED crashed
  /\ UNCHANGED <<speakerVars, sendVars, listenerVars, playVars, starting, left>>

\* Session.putVoiceOutputData gives the packet to every manager that is connected.
Following(e) == IF e.to + 1 \in Manager
                THEN [e EXCEPT !.step = "put", !.to = @ + 1, !.index = 0]
                ELSE [step |-> "encode", packet |-> None, to |-> 0, index |-> 0]

\* VoicePriorityList.offer walks to its place, unless the number is in polledHashMap or
\* met on the way, under a lock that reset does not take.
Offer ==
  /\ Speaks /\ encoder.step = "put"
  /\ LET p == encoder.packet
         m == encoder.to IN
     encoder' = IF connected[m] # "no" /\ ~ Numbered(p.seq, Seen(m))
                THEN [encoder EXCEPT !.step = "add",
                        !.index = Position(p.seq, voiceOutputDataQueue[m])]
                ELSE Following(encoder)
  /\ UNCHANGED <<speakerVars, seqNumber, sendVars, listenerVars, playVars, starting, crashed,
                 left>>

\* And adds it there; when the list has been reset, and is shorter, the exception
\* ends the process.  A packet of a call that is over is left behind.
Add ==
  /\ Speaks /\ encoder.step = "add"
  /\ LET p == encoder.packet
         m == encoder.to
         list == InsertAt(encoder.index, p, voiceOutputDataQueue[m]) IN
       /\ polledHashMap' = [polledHashMap EXCEPT ![m] = @ \cup {p}]
       /\ IF encoder.index > Len(voiceOutputDataQueue[m]) + 1
          THEN crashed' = crashed \cup {"speaker"} /\ UNCHANGED <<voiceOutputDataQueue, unsent>>
          ELSE /\ voiceOutputDataQueue' =
                    [voiceOutputDataQueue EXCEPT ![m] = Shorten(list, LIST_SIZE)]
               /\ unsent' = [unsent EXCEPT ![m] = @ \cup Excess(list, LIST_SIZE)]
               /\ UNCHANGED crashed
       /\ left' = IF p.call = otherAESCrypto /\ connected[m] = "yes"
                  THEN left ELSE left \cup {p}
  /\ encoder' = Following(encoder)
  /\ UNCHANGED <<speakerVars, seqNumber, transmissionState, connected, network, listenerVars,
                 playVars, starting>>

-----------------------------------------------------------------------------
(***************************************************************************)
(* The speaker's managers.                                                 *)
(***************************************************************************)

\* PUT_UDP_SERVER_IP and the like.  A manager that has not noticed its stop, or has not
\* yet closed, goes on or connects with all that it has seen.
StartTransmission(m) ==
  /\ Speaks /\ speaker \in InCall /\ ~ transmissionState[m]
  /\ transmissionState' = [transmissionState EXCEPT ![m] = TRUE]
  /\ left' = IF connected[m] = "no" THEN left ELSE left \cup Seen(m)
  /\ UNCHANGED <<speakerVars, encoderVars, connected, listVars, network, listenerVars, playVars,
                 starting, crashed>>

\* ENABLE_FROM, in the middle of a call: hole punching is activated, or UDP is good
\* enough for the connection to the server to close.
EnableFrom ==
  /\ Speaks /\ speaker \in InCall
  /\ transmissionState' = [transmissionState EXCEPT ![TCP_TO_SERVER_INDEX] = FALSE]
  /\ UNCHANGED <<speakerVars, encoderVars, connected, listVars, network, listenerVars, playVars,
                 starting, crashed, left>>

Connect(m) ==
  /\ Speaks /\ transmissionState[m] /\ connected[m] = "no"
  /\ connected' = [connected EXCEPT ![m] = "yes"]
  /\ UNCHANGED <<speakerVars, encoderVars, transmissionState, listVars, network, listenerVars,
                 playVars, starting, crashed, left>>

\* VoiceManager.write polls, unless offer has the lock, and writes to the channel.
\* Whether the channel takes the packet and what becomes of it there is open.
Write(m) ==
  /\ Speaks /\ connected[m] = "yes"
  /\ encoder.step = "add" => encoder.to # m
  /\ voiceOutputDataQueue[m] # << >>
  /\ network' = [network EXCEPT ![m] = @ \cup {Head(voiceOutputDataQueue[m])}]
  /\ voiceOutputDataQueue' = [voiceOutputDataQueue EXCEPT ![m] = Tail(@)]
  /\ UNCHANGED <<speakerVars, encoderVars, transmissionState, connected, polledHashMap, unsent,
                 listenerVars, playVars, starting, crashed, left>>

\* VoiceManager.close resets the list without its lock: first what waits in it,
Close(m) ==
  /\ Speaks /\ connected[m] = "yes" /\ ~ transmissionState[m]
  /\ connected' = [connected EXCEPT ![m] = "clearing"]
  /\ voiceOutputDataQueue' = [voiceOutputDataQueue EXCEPT ![m] = << >>]
  /\ UNCHANGED <<speakerVars, encoderVars, transmissionState, polledHashMap, unsent, network,
                 listenerVars, playVars, starting, crashed, left>>

\* then the numbers it has seen,
Forget(m) ==
  /\ Speaks /\ connected[m] = "clearing"
  /\ connected' = [connected EXCEPT ![m] = "closing"]
  /\ polledHashMap' = [polledHashMap EXCEPT ![m] = {}]
  /\ unsent' = [unsent EXCEPT ![m] = {}]
  /\ UNCHANGED <<speakerVars, encoderVars, transmissionState, voiceOutputDataQueue, network,
                 listenerVars, playVars, starting, crashed, left>>

\* and only after that it is not connected any more.
EndClose(m) ==
  /\ Speaks /\ connected[m] = "closing"
  /\ connected' = [connected EXCEPT ![m] = "no"]
  /\ UNCHANGED <<speakerVars, encoderVars, transmissionState, listVars, network, listenerVars,
                 playVars, starting, crashed, left>>

-----------------------------------------------------------------------------
(***************************************************************************)
(* Listening.                                                              *)
(***************************************************************************)

\* VoiceManager.read of any of the listener's managers gets a packet that was once written
\* to channel m.  Nothing else is assumed of a channel: a datagram can be lost, arrive
\* late or twice; over TCP the server's relay throws packets away and gives them to
\* whichever manager polls, and what the tokenizer kept of a former connection spoils
\* the first packet of the next.  OpenSLAudioPlayer.put is synchronized, and returns
\* with what cannot be decoded.
Read(m) ==
  /\ Listens /\ listener \in InCall /\ putter.step = "idle"
  /\ \E p \in network[m] :
       IF p.call = myAESVoiceCrypto
       THEN /\ putter' = [putter EXCEPT !.step = "find", !.packet = p]
            /\ arrived' = arrived \cup {p}
       ELSE UNCHANGED <<putter, arrived>>
  /\ UNCHANGED <<speakerVars, encoderVars, sendVars, listenerVars, queueVars, callback, starting,
                 crashed, left>>

\* (a packet that is late is not wanted: for the mutation of Find)
FindLatest ==
  /\ Listens /\ putter.step = "find"
  /\ LET n == putter.packet.seq
         i == Position(n, ownList) IN
     putter' = IF \E q \in gotNumberMap : q.seq >= n
               THEN [putter EXCEPT !.step = "idle", !.packet = None]
               ELSE [putter EXCEPT !.step = "insert",
                       !.next = IF i > Len(ownList) THEN None ELSE ownList[i]]
  /\ UNCHANGED <<speakerVars, encoderVars, sendVars, listenerVars, arrived, queueVars,
                 callback, starting, crashed, left>>

\* (looks for the number in the list only: for the mutation of Find)
FindInList ==
  /\ Listens /\ putter.step = "find"
  /\ LET n == putter.packet.seq
         i == Position(n, ownList) IN
     putter' = IF Numbered(n, In(ownList))
               THEN [putter EXCEPT !.step = "idle", !.packet = None]
               ELSE [putter EXCEPT !.step = "insert",
                       !.next = IF i > Len(ownList) THEN None ELSE ownList[i]]
  /\ UNCHANGED <<speakerVars, encoderVars, sendVars, listenerVars, arrived, queueVars,
                 callback, starting, crashed, left>>

\* PriorityQueue::put looks for the number, and for the packet's place, without lock.
Find ==
  /\ Listens /\ putter.step = "find"
  /\ LET n == putter.packet.seq
         i == Position(n, ownList) IN
     putter' = IF Numbered(n, gotNumberMap)
               THEN [putter EXCEPT !.step = "idle", !.packet = None]
               ELSE [putter EXCEPT !.step = "insert",
                       !.next = IF i > Len(ownList) THEN None ELSE ownList[i]]
  /\ UNCHANGED <<speakerVars, encoderVars, sendVars, listenerVars, arrived, queueVars,
                 callback, starting, crashed, left>>

\* It inserts under the lock.  If the packet before which it is to insert has been
\* popped, or deleted by reset, listIter points to freed memory: the process ends.
Insert ==
  /\ Listens /\ putter.step = "insert"
  /\ LET p == putter.packet
         i == IF putter.next = None THEN Len(ownList) + 1 ELSE Position(putter.next.seq, ownList)
         list == InsertAt(i, p, ownList) IN
     IF putter.next \in {None} \cup In(ownList)
     THEN /\ gotNumberMap' = gotNumberMap \cup {p}
          /\ ownList' = Shorten(list, QUEUE_SIZE)
          /\ unplayed' = unplayed \cup Excess(list, QUEUE_SIZE)
          /\ left' = IF listener \in InCall \cup {"ending", "stopping"} /\ p.call = myAESVoiceCrypto
                     THEN left ELSE left \cup {p}
          /\ UNCHANGED crashed
     ELSE /\ crashed' = crashed \cup {"listener"}
          /\ UNCHANGED <<gotNumberMap, ownList, unplayed, left>>
  /\ putter' = [step |-> "idle", packet |-> None, next |-> None]
  /\ UNCHANGED <<speakerVars, encoderVars, sendVars, listenerVars, arrived, played,
                 callback, starting>>

\* The callback has nothing left to play, and looks without lock whether there is a
\* packet.
LookForPacket ==
  /\ Listens /\ callback = "idle" /\ playState
  /\ ownList # << >>
  /\ callback' = "get"
  /\ UNCHANGED <<speakerVars, encoderVars, sendVars, listenerVars, putter, arrived,
                 queueVars, starting, crashed, left>>

\* It pops it, decodes it and plays it.  If reset has been faster, front of the empty
\* list is undefined: the process ends.
Play ==
  /\ Listens /\ callback = "get"
  /\ IF ownList = << >>
     THEN crashed' = crashed \cup {"listener"} /\ UNCHANGED queueVars
     ELSE /\ played' = played \cup {Head(ownList)}
          /\ ownList' = Tail(ownList)
          /\ UNCHANGED <<gotNumberMap, unplayed, crashed>>
  /\ callback' = "idle"
  /\ UNCHANGED <<speakerVars, encoderVars, sendVars, listenerVars, putter, arrived,
                 starting, left>>

-----------------------------------------------------------------------------
Calls ==
  \/ Answer \/ Called \/ StartEncoding \/ StartPlaying
  \/ HangUp \/ StopReading \/ StopEncoding \/ StopPlaying \/ reset

Encoder ==
  \/ BeginLoop \/ EndLoop \/ Encode \/ Encrypt \/ Offer \/ Add

Managers ==
  \/ EnableFrom
  \/ \E m \in Manager :
       \/ StartTransmission(m) \/ Connect(m) \/ Write(m)
       \/ Close(m) \/ Forget(m) \/ EndClose(m)
       \/ Read(m)

Player == Find \/ Insert \/ LookForPacket \/ Play

Next == Calls \/ Encoder \/ Managers \/ Player

Spec == Init /\ [][Next]_vars

-----------------------------------------------------------------------------
Packet == [call : Nat, seq : Nat]
IsQueue(s) == DOMAIN s = 1 .. Len(s) /\ In(s) \subseteq Packet

\* Every variable has the type of the field it stands for.
TypeOK ==
  /\ speaker \in InCall \cup {"idle", "ending"}
  /\ listener \in InCall \cup {"idle", "ending", "stopping"}
  /\ otherAESCrypto \in Nat /\ spoken \in Nat /\ myAESVoiceCrypto \in Nat
  /\ encodeState \in BOOLEAN /\ playState \in BOOLEAN
  /\ seqNumber \in Nat
  /\ encoder \in [step : {"stopped", "encode", "encrypt", "put", "add"},
                  packet : Packet \cup {None}, to : Manager, index : Nat]
  /\ transmissionState \in [Manager -> BOOLEAN]
  /\ connected \in [Manager -> {"no", "yes", "clearing", "closing"}]
  /\ \A m \in Manager :
       /\ IsQueue(voiceOutputDataQueue[m])
       /\ polledHashMap[m] \cup network[m] \cup unsent[m] \subseteq Packet
       /\ Len(voiceOutputDataQueue[m]) <= LIST_SIZE
  /\ putter \in [step : {"idle", "find", "insert"}, packet : Packet \cup {None},
                 next : Packet \cup {None}]
  /\ IsQueue(ownList) /\ Len(ownList) <= QUEUE_SIZE
  /\ gotNumberMap \subseteq Packet
  /\ callback \in {"idle", "get"}
  /\ starting \subseteq {"speaker", "listener"} /\ crashed \subseteq {"speaker", "listener"}
  /\ arrived \cup played \cup unplayed \cup left \subseteq Packet

\* Whatever arrives twice or late, and wherever put is overtaken by the callback, the
\* packets wait in the order of their numbers, and none of which the number has been
\* played.
PlaysInOrderOnce ==
  /\ \A i, j \in DOMAIN ownList : i < j => ownList[i].seq < ownList[j].seq
  /\ \A p \in In(ownList) : ~ Numbered(p.seq, played)

\* What is lost is lost by the channels, or was too much.  A packet that the list of a
\* connected manager has accepted waits there or has been written, whatever offer, write
\* and close do in between; one that has come to put, however late and whatever the
\* callback pops meanwhile, is in its hands, or a packet with its number waits or was
\* played.  Except what was dropped from a list or queue that was too long.
ClientsLoseNothing ==
  /\ Speaks =>
       \A m \in Manager : connected[m] = "yes" =>
         polledHashMap[m] \subseteq In(voiceOutputDataQueue[m]) \cup network[m] \cup unsent[m]
  /\ Listens /\ listener \in InCall =>
       \A p \in arrived \ {putter.packet} :
         Numbered(p.seq, gotNumberMap \cap (In(ownList) \cup played \cup unplayed))

\* Nothing of a former call is played in the next, or keeps packets of the next from
\* being sent or played because it has their numbers; and no list sends it in the next.
\* Except what was put into a list or queue when its call was over, what a manager has
\* seen that does not notice that it was stopped, and what was put into a player that
\* had not been started.
NoneOfFormer ==
  /\ listener \in InCall =>
       \A q \in gotNumberMap \ left : q.call = myAESVoiceCrypto
  /\ speaker \in InCall =>
       \A m \in Manager : connected[m] = "yes" /\ transmissionState[m] =>
         \A q \in Seen(m) \ left : q.call = otherAESCrypto
=============================================================================
