------------------------------ MODULE VoiceRelay ------------------------------
(***************************************************************************)
(* The relay of voice packets: each voice manager is a thread that reads a *)
(* packet of one party of a call, puts it into that party's VoiceDataList, *)
(* takes from the other party's list what has come in, and sends it back   *)
(* over the same channel.  Meanwhile the session handlers begin and end    *)
(* calls: they change callingSession, the registrations and the lists      *)
(* without the managers' knowledge.                                        *)
(*                                                                         *)
(* A step of a thread is one access to what others change.                 *)
(***************************************************************************)
EXTENDS BufferPool, Sequences, FiniteSets

CONSTANTS Session,
          TcpManager,       \* the VoiceTcpManager threads
          UdpManager,       \* the VoiceUdpManager threads
          Connection,       \* the connections to the TCP managers
          managerOf,        \* the TCP manager each connection is made to
          SeqNumber,        \* sequence numbers of voice packets
          LIST_SIZE,        \* VOICE_BUFFER_QUEUE_SIZE
          SEND_LIMIT,       \* the bound of count1, how many packets one TCP packet fetches
          MAX_PACKETS,      \* how many packets one read from a socket can complete
          ERROR_COUNT_MAXIMUM, WARNING, ERROR, SEVERE,  \* their absolute values
          None              \* Java's null

Manager == TcpManager \cup UdpManager

ASSUME RelayAssumption ==
  /\ None \notin Session \cup Buffer \cup Connection
  /\ TcpManager \cap UdpManager = {}
  /\ managerOf \in [Connection -> TcpManager]
  /\ LIST_SIZE \in Nat /\ SEND_LIMIT \in Nat /\ MAX_PACKETS \in Nat \ {0}
  /\ ERROR_COUNT_MAXIMUM \in Nat
  /\ WARNING \in Nat \ {0} /\ ERROR \in Nat /\ SEVERE \in Nat
  /\ WARNING <= ERROR /\ WARNING <= SEVERE

ASSUME FiniteAssumption ==
  IsFiniteSet(Session) /\ IsFiniteSet(Connection) /\ IsFiniteSet(Manager) /\ IsFiniteSet(Buffer)

VARIABLES
  number,            \* the sequence number in each Buffer
  voiceBufferQueue,  \* Session.voiceBufferQueue: its ownList
  offeredHashMap,    \* Session.voiceBufferQueue: the numbers offered
  callingSession,    \* Session.callingSession
  activeSessionMap,  \* the keys of each manager's activeSessionMap
  ownBufferQueue,    \* each connection's PacketTokenizer: packets not yet taken
  errorCountMap,     \* the error count of each connection, negated
  at,                \* what each manager does next
  buffer, getBuffer, session, channel, count1,  \* read's variables
  found,             \* how many packets PacketTokenizer.put has found
  peer,              \* the session that getVoiceBuffer is about to poll
  polled,            \* history: the numbers polled since the list's last reset
  lost               \* history: the Buffers read has returned without

listVars   == <<number, voiceBufferQueue, offeredHashMap, polled>>
callVars   == <<callingSession, activeSessionMap>>
tcpVars    == <<ownBufferQueue, errorCountMap>>
localVars  == <<at, buffer, getBuffer, session, channel, count1, found, peer>>
vars == <<poolVars, listVars, callVars, tcpVars, localVars, lost>>

Init ==
  /\ PoolInit
  /\ number \in [Buffer -> SeqNumber]
  /\ voiceBufferQueue = [s \in Session |-> << >>]
  /\ offeredHashMap = [s \in Session |-> {}]
  /\ polled = [s \in Session |-> {}]
  /\ callingSession = [s \in Session |-> None]
  /\ activeSessionMap = [m \in Manager |-> {}]
  /\ ownBufferQueue = [c \in Connection |-> << >>]
  /\ errorCountMap = [c \in Connection |-> 0]
  /\ at = [m \in Manager |-> "idle"]
  /\ buffer = [m \in Manager |-> None]
  /\ getBuffer = [m \in Manager |-> None]
  /\ session = [m \in Manager |-> None]
  /\ channel = [m \in Manager |-> None]
  /\ count1 = [m \in Manager |-> 0]
  /\ found = [m \in Manager |-> 0]
  /\ peer = [m \in Manager |-> None]
  /\ lost = {}

Goto(m, l) == at' = [at EXCEPT ![m] = l]

BuffersIn(queue) == {queue[i] : i \in DOMAIN queue}

(***************************************************************************)
(* Reading.  A manager takes a Buffer before it reads; when the pool is    *)
(* empty, the NullPointerException at buffer.byteBuffer ends the thread.   *)
(***************************************************************************)
AllocateUdp(m) ==
  /\ m \in UdpManager /\ at[m] = "idle"
  /\ \E b \in Buffer : allocate(b) /\ buffer' = [buffer EXCEPT ![m] = b]
  /\ Goto(m, "check")
  /\ UNCHANGED <<listVars, callVars, tcpVars, getBuffer, session, channel, count1,
                 found, peer, lost>>

AllocateTcp(m) ==
  /\ m \in TcpManager /\ at[m] = "idle"
  /\ \E b \in Buffer : allocate(b) /\ buffer' = [buffer EXCEPT ![m] = b]
  /\ \E c \in Connection : managerOf[c] = m /\ channel' = [channel EXCEPT ![m] = c]
  /\ found' = [found EXCEPT ![m] = 0]
  /\ Goto(m, "tokenize")
  /\ UNCHANGED <<listVars, callVars, tcpVars, getBuffer, session, count1, peer, lost>>

\* allocate returns null to read, or to the PacketTokenizer in the middle of put.
Exhausted(m) ==
  /\ \/ at[m] = "idle"
     \/ at[m] = "tokenize" /\ found[m] < MAX_PACKETS
  /\ Empty
  /\ Goto(m, "exhausted")
  /\ UNCHANGED <<poolVars, listVars, callVars, tcpVars, buffer, getBuffer, session,
                 channel, count1, found, peer, lost>>

\* PacketTokenizer.put finds one more packet in what was read.
FindPacket(m) ==
  /\ at[m] = "tokenize" /\ found[m] < MAX_PACKETS
  /\ \E b \in Buffer :
       /\ allocate(b)
       /\ ownBufferQueue' = [ownBufferQueue EXCEPT ![channel[m]] = Append(@, b)]
  /\ found' = [found EXCEPT ![m] = @ + 1]
  /\ UNCHANGED <<listVars, callVars, errorCountMap, at, buffer, getBuffer, session,
                 channel, count1, peer, lost>>

EndPut(m) ==
  /\ at[m] = "tokenize"
  /\ deallocate({buffer[m]})
  /\ buffer' = [buffer EXCEPT ![m] = None]
  /\ Goto(m, "get")
  /\ UNCHANGED <<listVars, callVars, tcpVars, getBuffer, session, channel, count1,
                 found, peer, lost>>

\* read's loop takes the next packet of the tokenizer, and returns R.GOOD when
\* there is none.
GetPacket(m) ==
  /\ at[m] = "get"
  /\ LET queue == ownBufferQueue[channel[m]] IN
       IF queue = << >>
       THEN /\ Goto(m, "idle") /\ channel' = [channel EXCEPT ![m] = None]
            /\ UNCHANGED <<ownBufferQueue, buffer>>
       ELSE /\ buffer' = [buffer EXCEPT ![m] = Head(queue)]
            /\ ownBufferQueue' = [ownBufferQueue EXCEPT ![channel[m]] = Tail(queue)]
            /\ Goto(m, "check")
            /\ UNCHANGED channel
  /\ UNCHANGED <<poolVars, listVars, callVars, errorCountMap, getBuffer, session, count1,
                 found, peer, lost>>

\* (removes the tokenizer without flushing it: for the mutation of CloseAnd)
CloseUnflushed(c, bs) ==
  /\ deallocate(bs)
  /\ ownBufferQueue' = [ownBufferQueue EXCEPT ![c] = << >>]
  /\ errorCountMap' = [errorCountMap EXCEPT ![c] = 0]

\* close: the connection's tokenizer is flushed, and it and the error count are
\* removed.  A connection accepted later begins with none.
CloseAnd(c, bs) ==
  /\ deallocate(BuffersIn(ownBufferQueue[c]) \cup bs)
  /\ ownBufferQueue' = [ownBufferQueue EXCEPT ![c] = << >>]
  /\ errorCountMap' = [errorCountMap EXCEPT ![c] = 0]

\* (counts only errors that close the connection: for the mutation of FailTcp)
FailUncounted(m, error) ==
  /\ LET c == channel[m]
         errors == errorCountMap[c] + error IN
       IF errors > ERROR_COUNT_MAXIMUM
       THEN CloseAnd(c, {buffer[m]})
       ELSE deallocate({buffer[m]}) /\ UNCHANGED <<ownBufferQueue, errorCountMap>>
  /\ buffer' = [buffer EXCEPT ![m] = None]
  /\ channel' = [channel EXCEPT ![m] = None]
  /\ Goto(m, "idle")
  /\ UNCHANGED <<listVars, callVars, getBuffer, session, count1, found, peer, lost>>

\* A read that fails gives its Buffer back; run then adds the error to the
\* connection's count and closes a connection that has too many.  The packets the
\* tokenizer still holds wait for the next read.
FailTcp(m, error) ==
  /\ LET c == channel[m]
         errors == errorCountMap[c] + error IN
       IF errors > ERROR_COUNT_MAXIMUM
       THEN CloseAnd(c, {buffer[m]})
       ELSE /\ deallocate({buffer[m]})
            /\ errorCountMap' = [errorCountMap EXCEPT ![c] = errors]
            /\ UNCHANGED ownBufferQueue
  /\ buffer' = [buffer EXCEPT ![m] = None]
  /\ channel' = [channel EXCEPT ![m] = None]
  /\ Goto(m, "idle")
  /\ UNCHANGED <<listVars, callVars, getBuffer, session, count1, found, peer, lost>>

\* Nothing was read, or the tokenizer's buffer is full.
ReadFails(m) == at[m] = "tokenize" /\ found[m] = 0 /\ FailTcp(m, ERROR)

\* run's random check closes a connection that has sent nothing for a while.
TimeOut(m, c) ==
  /\ at[m] = "idle" /\ managerOf[c] = m
  /\ CloseAnd(c, {})
  /\ UNCHANGED <<listVars, callVars, localVars, lost>>

(***************************************************************************)
(* Checking a packet.                                                      *)
(***************************************************************************)
\* A UDP packet is dropped: nothing received, its length wrong, its sender
\* unknown or not registered here.
DropUdp(m) ==
  /\ m \in UdpManager /\ at[m] = "check"
  /\ deallocate({buffer[m]})
  /\ buffer' = [buffer EXCEPT ![m] = None]
  /\ Goto(m, "idle")
  /\ UNCHANGED <<listVars, callVars, tcpVars, getBuffer, session, channel, count1,
                 found, peer, lost>>

\* The length of a TCP packet is wrong.
WrongLength(m) == m \in TcpManager /\ at[m] = "check" /\ FailTcp(m, WARNING)

\* Its sender is unknown, or not registered here.
NotActive(m) ==
  /\ m \in TcpManager /\ at[m] = "check"
  /\ FailTcp(m, SEVERE)

\* It is too short for its length tag, its sender's number or what follows: the
\* exception of ByteBuffer.get ends the thread.
TooShort(m) ==
  /\ at[m] = "check"
  /\ Goto(m, "tooShort")
  /\ UNCHANGED <<poolVars, listVars, callVars, tcpVars, buffer, getBuffer, session,
                 channel, count1, found, peer, lost>>

\* A registered session's packet is neither voice nor an address.  A TCP manager
\* gives its Buffer back.
DiscardTcp(m) ==
  /\ m \in TcpManager /\ at[m] = "check"
  /\ activeSessionMap[m] # {}
  /\ deallocate({buffer[m]})
  /\ buffer' = [buffer EXCEPT ![m] = None]
  /\ Goto(m, "get")
  /\ UNCHANGED <<listVars, callVars, tcpVars, getBuffer, session, channel, count1, found,
                 peer, lost>>

\* A UDP manager has no branch for such a packet: read returns, and nobody knows
\* the Buffer any more.
LoseUdp(m) ==
  /\ m \in UdpManager /\ at[m] = "check"
  /\ activeSessionMap[m] # {}
  /\ lost' = lost \cup {buffer[m]}
  /\ buffer' = [buffer EXCEPT ![m] = None]
  /\ Goto(m, "idle")
  /\ UNCHANGED <<poolVars, listVars, callVars, tcpVars, getBuffer, session, channel, count1,
                 found, peer>>

\* It is a voice packet of the registered session s.
Accepted(m, s, n) ==
  /\ at[m] = "check"
  /\ s \in activeSessionMap[m]
  /\ number' = [number EXCEPT ![buffer[m]] = n]
  /\ session' = [session EXCEPT ![m] = s]
  /\ Goto(m, "put")
  /\ UNCHANGED <<poolVars, voiceBufferQueue, offeredHashMap, polled, callVars, tcpVars,
                 buffer, getBuffer, channel, count1, found, peer, lost>>

\* It holds an address of the registered session s, to be sent to the other party.
NoteAddress(m, s) ==
  /\ at[m] = "check"
  /\ s \in activeSessionMap[m]
  /\ session' = [session EXCEPT ![m] = s]
  /\ Goto(m, "testAddress")
  /\ UNCHANGED <<poolVars, listVars, callVars, tcpVars, buffer, getBuffer, channel, count1,
                 found, peer, lost>>

(***************************************************************************)
(* putVoiceBuffer: VoiceDataList.offer takes a number once, and throws the *)
(* first Buffer of a list away that has become too long.                   *)
(***************************************************************************)
Enlist(s, b) ==
  LET queue == Append(voiceBufferQueue[s], b) IN
    /\ offeredHashMap' = [offeredHashMap EXCEPT ![s] = @ \cup {number[b]}]
    /\ IF Len(queue) > LIST_SIZE
       THEN /\ deallocate({Head(queue)})
            /\ voiceBufferQueue' = [voiceBufferQueue EXCEPT ![s] = Tail(queue)]
       ELSE /\ voiceBufferQueue' = [voiceBufferQueue EXCEPT ![s] = queue]
            /\ UNCHANGED poolVars

\* (looks for the number in the list only: for the mutation of offer)
offerUnlisted(s, b) ==
  IF \E i \in DOMAIN voiceBufferQueue[s] : number[voiceBufferQueue[s][i]] = number[b]
  THEN deallocate({b}) /\ UNCHANGED <<voiceBufferQueue, offeredHashMap>>
  ELSE Enlist(s, b)

offer(s, b) ==
  IF number[b] \in offeredHashMap[s]
  THEN deallocate({b}) /\ UNCHANGED <<voiceBufferQueue, offeredHashMap>>
  ELSE Enlist(s, b)

PutVoiceBuffer(m) ==
  /\ at[m] = "put"
  /\ offer(session[m], buffer[m])
  /\ buffer' = [buffer EXCEPT ![m] = None]
  /\ count1' = [count1 EXCEPT ![m] = 0]
  /\ Goto(m, "testCalling")
  /\ UNCHANGED <<number, polled, callVars, tcpVars, getBuffer, session, channel, found,
                 peer, lost>>

(***************************************************************************)
(* getVoiceBuffer reads callingSession to test it, reads it again to call  *)
(* its getVoiceOwnBuffer, and that polls the list.                         *)
(***************************************************************************)
\* What read does when getVoiceBuffer has returned null.
ReadOn(m) == Goto(m, IF m \in TcpManager THEN "get" ELSE "idle")

TestCalling(m) ==
  /\ at[m] = "testCalling"
  /\ IF callingSession[session[m]] = None
     THEN ReadOn(m) /\ session' = [session EXCEPT ![m] = None]
     ELSE Goto(m, "readCalling") /\ UNCHANGED session
  /\ UNCHANGED <<poolVars, listVars, callVars, tcpVars, buffer, getBuffer, channel, count1,
                 found, peer, lost>>

\* When the party has hung up in between, a NullPointerException ends the thread.
ReadCalling(m) ==
  /\ at[m] = "readCalling"
  /\ peer' = [peer EXCEPT ![m] = callingSession[session[m]]]
  /\ Goto(m, IF callingSession[session[m]] = None THEN "nullCall" ELSE "poll")
  /\ UNCHANGED <<poolVars, listVars, callVars, tcpVars, buffer, getBuffer, session, channel,
                 count1, found, lost>>

(***************************************************************************)
(* putTcpIPs and putUdpIPs read callingSession in the same way; only then  *)
(* does read give the Buffer back.                                         *)
(***************************************************************************)
EndAddress(m) ==
  /\ deallocate({buffer[m]})
  /\ buffer' = [buffer EXCEPT ![m] = None]
  /\ session' = [session EXCEPT ![m] = None]
  /\ ReadOn(m)

TestAddress(m) ==
  /\ at[m] = "testAddress"
  /\ IF callingSession[session[m]] = None
     THEN EndAddress(m)
     ELSE Goto(m, "readAddress") /\ UNCHANGED <<poolVars, buffer, session>>
  /\ UNCHANGED <<listVars, callVars, tcpVars, getBuffer, channel, count1, found, peer,
                 lost>>

ReadAddress(m) ==
  /\ at[m] = "readAddress"
  /\ IF callingSession[session[m]] = None
     THEN Goto(m, "nullCall") /\ UNCHANGED <<poolVars, buffer, session>>
     ELSE EndAddress(m)
  /\ UNCHANGED <<listVars, callVars, tcpVars, getBuffer, channel, count1, found, peer,
                 lost>>

\* (leaves the Buffer in the list: for the mutation of PollVoice)
PeekVoice(m) ==
  /\ at[m] = "poll"
  /\ LET p == peer[m]
         queue == voiceBufferQueue[p] IN
       IF queue = << >>
       THEN /\ ReadOn(m) /\ session' = [session EXCEPT ![m] = None]
            /\ UNCHANGED <<voiceBufferQueue, getBuffer, polled>>
       ELSE /\ getBuffer' = [getBuffer EXCEPT ![m] = Head(queue)]
            /\ UNCHANGED voiceBufferQueue
            /\ polled' = [polled EXCEPT ![p] = @ \cup {number[Head(queue)]}]
            /\ Goto(m, "send")
            /\ UNCHANGED session
  /\ peer' = [peer EXCEPT ![m] = None]
  /\ UNCHANGED <<poolVars, number, offeredHashMap, callVars, tcpVars, buffer, channel,
                 count1, found, lost>>

PollVoice(m) ==
  /\ at[m] = "poll"
  /\ LET p == peer[m]
         queue == voiceBufferQueue[p] IN
       IF queue = << >>
       THEN /\ ReadOn(m) /\ session' = [session EXCEPT ![m] = None]
            /\ UNCHANGED <<voiceBufferQueue, getBuffer, polled>>
       ELSE /\ getBuffer' = [getBuffer EXCEPT ![m] = Head(queue)]
            /\ voiceBufferQueue' = [voiceBufferQueue EXCEPT ![p] = Tail(queue)]
            /\ polled' = [polled EXCEPT ![p] = @ \cup {number[Head(queue)]}]
            /\ Goto(m, "send")
            /\ UNCHANGED session
  /\ peer' = [peer EXCEPT ![m] = None]
  /\ UNCHANGED <<poolVars, number, offeredHashMap, callVars, tcpVars, buffer, channel,
                 count1, found, lost>>

\* (sends one more: for a mutation of Send)
SendOneMore(m) ==
  /\ at[m] = "send"
  /\ m \in TcpManager => count1[m] <= SEND_LIMIT
  /\ deallocate({getBuffer[m]})
  /\ getBuffer' = [getBuffer EXCEPT ![m] = None]
  /\ count1' = [count1 EXCEPT ![m] = IF m \in TcpManager THEN @ + 1 ELSE @]
  /\ Goto(m, "testCalling")
  /\ UNCHANGED <<listVars, callVars, tcpVars, buffer, session, channel, found, peer,
                 lost>>

\* (without counting: for a mutation of Send)
SendUncounted(m) ==
  /\ at[m] = "send"
  /\ m \in TcpManager => count1[m] < SEND_LIMIT
  /\ deallocate({getBuffer[m]})
  /\ getBuffer' = [getBuffer EXCEPT ![m] = None]
  /\ Goto(m, "testCalling")
  /\ UNCHANGED <<listVars, callVars, tcpVars, buffer, session, channel, count1, found,
                 peer, lost>>

\* The packet is sent and the next one fetched.
Send(m) ==
  /\ at[m] = "send"
  /\ m \in TcpManager => count1[m] < SEND_LIMIT
  /\ deallocate({getBuffer[m]})
  /\ getBuffer' = [getBuffer EXCEPT ![m] = None]
  /\ count1' = [count1 EXCEPT ![m] = IF m \in TcpManager THEN @ + 1 ELSE @]
  /\ Goto(m, "testCalling")
  /\ UNCHANGED <<listVars, callVars, tcpVars, buffer, session, channel, found, peer,
                 lost>>

\* A TCP manager that has sent SEND_LIMIT packets throws away the one fetched last.
ThrowAway(m) ==
  /\ at[m] = "send" /\ m \in TcpManager /\ count1[m] >= SEND_LIMIT
  /\ deallocate({getBuffer[m]})
  /\ getBuffer' = [getBuffer EXCEPT ![m] = None]
  /\ session' = [session EXCEPT ![m] = None]
  /\ ReadOn(m)
  /\ UNCHANGED <<listVars, callVars, tcpVars, buffer, channel, count1, found, peer, lost>>

(***************************************************************************)
(* What the session handlers do meanwhile, at any time: the steps of       *)
(* calledFrom, callAccept and callOff that the relay sees.  CallServer     *)
(* says in which orders they can come.                                     *)
(***************************************************************************)
SetCallingSession(s, p) ==
  /\ callingSession' = [callingSession EXCEPT ![s] = p]
  /\ UNCHANGED <<poolVars, listVars, activeSessionMap, tcpVars, localVars, lost>>

registerSession(m, s) ==
  /\ activeSessionMap' = [activeSessionMap EXCEPT ![m] = @ \cup {s}]
  /\ UNCHANGED <<poolVars, listVars, callingSession, tcpVars, localVars, lost>>

unregisterSession(m, s) ==
  /\ activeSessionMap' = [activeSessionMap EXCEPT ![m] = @ \ {s}]
  /\ UNCHANGED <<poolVars, listVars, callingSession, tcpVars, localVars, lost>>

reset(s) ==
  /\ deallocate(BuffersIn(voiceBufferQueue[s]))
  /\ voiceBufferQueue' = [voiceBufferQueue EXCEPT ![s] = << >>]
  /\ offeredHashMap' = [offeredHashMap EXCEPT ![s] = {}]
  /\ polled' = [polled EXCEPT ![s] = {}]
  /\ UNCHANGED <<number, callVars, tcpVars, localVars, lost>>

-----------------------------------------------------------------------------
Step(m) ==
  \/ AllocateUdp(m) \/ AllocateTcp(m) \/ Exhausted(m)
  \/ FindPacket(m) \/ EndPut(m) \/ GetPacket(m) \/ ReadFails(m)
  \/ \E c \in Connection : TimeOut(m, c)
  \/ DropUdp(m) \/ WrongLength(m) \/ NotActive(m) \/ TooShort(m)
  \/ DiscardTcp(m) \/ LoseUdp(m)
  \/ \E s \in Session, n \in SeqNumber : Accepted(m, s, n)
  \/ \E s \in Session : NoteAddress(m, s)
  \/ TestAddress(m) \/ ReadAddress(m)
  \/ PutVoiceBuffer(m)
  \/ TestCalling(m) \/ ReadCalling(m) \/ PollVoice(m) \/ Send(m) \/ ThrowAway(m)

Environment ==
  \/ \E s \in Session, p \in Session \cup {None} : p # s /\ SetCallingSession(s, p)
  \/ \E m \in Manager, s \in Session : registerSession(m, s) \/ unregisterSession(m, s)
  \/ \E s \in Session : reset(s)

Next == Environment \/ \E m \in Manager : Step(m)

Spec == Init /\ [][Next]_vars

-----------------------------------------------------------------------------
(***************************************************************************)
(* Properties.                                                             *)
(***************************************************************************)
Labels == {"idle", "tokenize", "get", "check", "put", "testCalling", "readCalling",
           "poll", "send", "testAddress", "readAddress", "exhausted", "nullCall", "tooShort"}

\* The thread has ended by an exception.
Dead == {"exhausted", "nullCall", "tooShort"}

\* Every variable has the type of the field it stands for; no list holds more
\* than LIST_SIZE Buffers and no TCP packet makes a manager send more than
\* SEND_LIMIT packets.
TypeOK ==
  /\ PoolTypeOK
  /\ number \in [Buffer -> SeqNumber]
  /\ voiceBufferQueue \in [Session -> Seq(Buffer)]
  /\ \A s \in Session : Len(voiceBufferQueue[s]) <= LIST_SIZE
  /\ offeredHashMap \in [Session -> SUBSET SeqNumber]
  /\ polled \in [Session -> SUBSET SeqNumber]
  /\ callingSession \in [Session -> Session \cup {None}]
  /\ activeSessionMap \in [Manager -> SUBSET Session]
  /\ ownBufferQueue \in [Connection -> Seq(Buffer)]
  /\ errorCountMap \in [Connection -> 0..ERROR_COUNT_MAXIMUM]
  /\ at \in [Manager -> Labels]
  /\ buffer \in [Manager -> Buffer \cup {None}]
  /\ getBuffer \in [Manager -> Buffer \cup {None}]
  /\ session \in [Manager -> Session \cup {None}]
  /\ channel \in [Manager -> Connection \cup {None}]
  /\ count1 \in [Manager -> 0..SEND_LIMIT]
  /\ found \in [Manager -> 0..MAX_PACKETS]
  /\ peer \in [Manager -> Session \cup {None}]
  /\ lost \subseteq Buffer

\* Who can have a Buffer that is not in the pool, and which Buffers it has: a
\* session's list, a connection's tokenizer, a variable of a manager.
Holder == ({"list"} \X Session) \cup ({"tokenizer"} \X Connection)
            \cup ({"buffer", "getBuffer"} \X Manager)

Has(o) == CASE o[1] = "list"      -> BuffersIn(voiceBufferQueue[o[2]])
            [] o[1] = "tokenizer" -> BuffersIn(ownBufferQueue[o[2]])
            [] o[1] = "buffer"    -> {buffer[o[2]]} \cap Buffer
            [] o[1] = "getBuffer" -> {getBuffer[o[2]]} \cap Buffer

Distinct(queue) == \A i, j \in DOMAIN queue : queue[i] = queue[j] => i = j

\* Buffers pass between the managers, the lists and the tokenizers without a
\* record of who has them.  Yet at any time each Buffer is either in the pool,
\* once, and nobody has it; or out of it and exactly one has it, which may be a
\* manager that has died; or out of it and lost with a UDP packet of an unknown
\* type, and nobody has it.  So none is given back while it is still used, no two
\* threads write to one, and none is missing from the pool for another reason.
BufferOwnership ==
  /\ \A b \in Buffer :
       \/ /\ bufferQueue[b] = 1 /\ semaphores[b] = 0
          /\ b \notin lost /\ \A o \in Holder : b \notin Has(o)
       \/ /\ bufferQueue[b] = 0 /\ semaphores[b] = 1
          /\ b \notin lost
          /\ \E o \in Holder : b \in Has(o) /\ \A p \in Holder \ {o} : b \notin Has(p)
       \/ /\ bufferQueue[b] = 0 /\ semaphores[b] = 1
          /\ b \in lost /\ \A o \in Holder : b \notin Has(o)
  /\ \A s \in Session : Distinct(voiceBufferQueue[s])
  /\ \A c \in Connection : Distinct(ownBufferQueue[c])

\* Between two resets of a session's list the relay fetches each sequence number
\* from it at most once, though a packet may come on several channels, be thrown
\* away because the list is full, and come again.
NoRepeats ==
  \A s \in Session :
    /\ \A i, j \in DOMAIN voiceBufferQueue[s] :
         i # j => number[voiceBufferQueue[s][i]] # number[voiceBufferQueue[s][j]]
    /\ \A i \in DOMAIN voiceBufferQueue[s] : number[voiceBufferQueue[s][i]] \notin polled[s]

\* A read that fails leaves packets in the tokenizer to the next one.  They pile
\* up, but no further than the error count allows before the connection is closed.
LeftoverBounded ==
  \A c \in Connection :
    Len(ownBufferQueue[c]) <= (MAX_PACKETS - 1) * errorCountMap[c] + MAX_PACKETS

\* How many Buffers the managers, lists and tokenizers can have at once.
Demand == Cardinality(Session) * LIST_SIZE
            + Cardinality(Connection) * ((MAX_PACKETS - 1) * ERROR_COUNT_MAXIMUM + MAX_PACKETS)
            + Cardinality(Manager)

\* What else the pool must hold is what has been lost: a manager that finds the
\* pool empty and dies does so only after UDP packets of an unknown type have taken
\* all Buffers but Demand out of it.  Nothing else that the managers do, their deaths
\* by other exceptions included, uses a pool of that size up.
NoManagerExhausted ==
  Cardinality(Buffer) >= Demand + Cardinality(lost)
    => \A m \in Manager : at[m] # "exhausted"

\* A TCP manager always comes back to its selector, or dies, however fast the
\* other party's packets come in: the bound of count1 ends the loop.
ReadReturns ==
  \A m \in TcpManager : at[m] # "idle" ~> at[m] \in {"idle"} \cup Dead

-----------------------------------------------------------------------------
(***************************************************************************)
(* The relay implements PacketRelay, whose packets are numbers: what is    *)
(* written in the Buffers of a list, and in the Buffer a manager sends.    *)
(***************************************************************************)
Numbers(queue) == [i \in DOMAIN queue |-> number[queue[i]]]

Relay == INSTANCE PacketRelay WITH
  waiting <- [s \in Session |-> Numbers(voiceBufferQueue[s])],
  offered <- offeredHashMap,
  inHand  <- [m \in Manager |-> IF getBuffer[m] = None THEN None ELSE number[getBuffer[m]]]

\* A packet that waits in a list, or is about to be sent, stays what it was when
\* it was put, though Buffers are reused and any manager may write into the one
\* it has taken from the pool; and packets leave a list in the order they came.
Relays == Relay!Spec
=============================================================================
