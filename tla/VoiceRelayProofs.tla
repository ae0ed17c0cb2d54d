--------------------------- MODULE VoiceRelayProofs ---------------------------
(***************************************************************************)
(* The ownership of Buffers, the bound of what tokenizers hold, and that   *)
(* no sequence number is fetched twice, for any number of sessions,        *)
(* managers, connections and Buffers; and what they are good for: the      *)
(* relay implements the lines of PacketRelay, and a pool of Demand Buffers *)
(* beyond the lost ones never runs empty.                                  *)
(***************************************************************************)
EXTENDS VoiceRelay, FiniteSetTheorems, TLAPS

(***************************************************************************)
(* Sequences.                                                              *)
(***************************************************************************)
LEMMA HeadTailType ==
  ASSUME NEW S, NEW q \in Seq(S), q # << >>
  PROVE  /\ Head(q) \in S /\ Tail(q) \in Seq(S)
         /\ Len(q) \in Nat /\ Len(q) >= 1 /\ Len(Tail(q)) = Len(q) - 1
OBVIOUS

LEMMA AppendType ==
  ASSUME NEW S, NEW q \in Seq(S), NEW e \in S
  PROVE  /\ Append(q, e) \in Seq(S) /\ Append(q, e) # << >>
         /\ Len(Append(q, e)) = Len(q) + 1 /\ Len(q) \in Nat
OBVIOUS

LEMMA EmptyType == \A S : << >> \in Seq(S) /\ Len(<< >>) = 0
OBVIOUS

(***************************************************************************)
(* Type correctness.  What a manager has in its variables depends on where *)
(* it is.                                                                  *)
(***************************************************************************)
LocalOK ==
  \A m \in Manager :
    /\ at[m] \in {"tokenize", "check", "put", "testAddress", "readAddress"}
         => buffer[m] \in Buffer
    /\ at[m] \in {"idle", "get", "testCalling", "readCalling", "poll", "send"}
         => buffer[m] = None
    /\ IF at[m] = "send" THEN getBuffer[m] \in Buffer ELSE getBuffer[m] = None
    /\ at[m] \in {"put", "testCalling", "readCalling", "poll", "send", "testAddress", "readAddress"}
         => session[m] \in Session
    /\ at[m] = "poll" => peer[m] \in Session
    /\ at[m] \in {"tokenize", "get"} => m \in TcpManager
    /\ m \in TcpManager /\ at[m] \notin {"idle", "exhausted", "nullCall", "tooShort"}
         => channel[m] \in Connection /\ managerOf[channel[m]] = m

TypeInv == TypeOK /\ LocalOK

LEMMA AllocateType ==
  ASSUME PoolTypeOK, NEW b \in Buffer, allocate(b)
  PROVE  PoolTypeOK'
BY DEF PoolTypeOK, allocate

LEMMA DeallocateType ==
  ASSUME PoolTypeOK, NEW bs, deallocate(bs)
  PROVE  PoolTypeOK'
<1> DEFINE taken == {b \in bs \cap Buffer : semaphores[b] > 0}
<1>1. /\ bufferQueue' = [b \in Buffer |-> IF b \in taken THEN bufferQueue[b] + 1 ELSE bufferQueue[b]]
      /\ semaphores' = [b \in Buffer |-> IF b \in taken THEN semaphores[b] - 1 ELSE semaphores[b]]
  BY DEF deallocate
<1>2. \A b \in Buffer : bufferQueue[b] \in Nat /\ semaphores[b] \in Nat
  BY DEF PoolTypeOK
<1>3. \A b \in Buffer : semaphores[b] > 0 => semaphores[b] - 1 \in Nat
  BY <1>2
<1>4. QED
  BY <1>1, <1>2, <1>3 DEF PoolTypeOK

LEMMA InitType == Init => TypeInv
<1> SUFFICES ASSUME Init PROVE TypeInv
  OBVIOUS
<1>1. PoolTypeOK
  BY DEF Init, PoolInit, PoolTypeOK
<1>2. TypeOK
  BY <1>1, EmptyType, RelayAssumption DEF Init, TypeOK, Labels
<1>3. LocalOK
  BY DEF Init, LocalOK
<1>4. QED
  BY <1>2, <1>3 DEF TypeInv

LEMMA EnvironmentType ==
  ASSUME TypeInv, Environment
  PROVE  TypeInv'
<1>0. TypeOK /\ LocalOK
  BY DEF TypeInv
<1>1. ASSUME NEW s \in Session, NEW p \in Session \cup {None}, SetCallingSession(s, p)
      PROVE  TypeInv'
  BY <1>0, <1>1 DEF TypeInv, TypeOK, LocalOK, PoolTypeOK, SetCallingSession, poolVars, listVars,
     tcpVars, localVars
<1>2. ASSUME NEW m \in Manager, NEW s \in Session, registerSession(m, s) \/ unregisterSession(m, s)
      PROVE  TypeInv'
  <2>1. activeSessionMap' \in [Manager -> SUBSET Session]
    <3>1. activeSessionMap[m] \cup {s} \in SUBSET Session /\ activeSessionMap[m] \ {s} \in SUBSET Session
      BY <1>0 DEF TypeOK
    <3>2. \E x \in SUBSET Session : activeSessionMap' = [activeSessionMap EXCEPT ![m] = x]
      BY <1>2, <3>1 DEF registerSession, unregisterSession
    <3>3. QED
      BY <1>0, <3>2 DEF TypeOK
  <2>2. UNCHANGED <<poolVars, listVars, callingSession, tcpVars, localVars, lost>>
    BY <1>2 DEF registerSession, unregisterSession
  <2>3. QED
    BY <1>0, <2>1, <2>2 DEF TypeInv, TypeOK, LocalOK, PoolTypeOK, poolVars, listVars, tcpVars, localVars
<1>3. ASSUME NEW s \in Session, reset(s) PROVE TypeInv'
  <2>1. PoolTypeOK'
    BY <1>0, <1>3, DeallocateType DEF TypeOK, reset
  <2>2. LocalOK'
    BY <1>0, <1>3 DEF LocalOK, reset, localVars
  <2>3. TypeOK'
    BY <1>0, <1>3, <2>1, EmptyType, RelayAssumption DEF TypeOK, reset, callVars, tcpVars, localVars
  <2>4. QED
    BY <2>2, <2>3 DEF TypeInv
<1>4. QED
  BY <1>1, <1>2, <1>3 DEF Environment

LEMMA FailType ==
  ASSUME TypeInv, NEW m \in TcpManager \cup UdpManager, NEW error \in Nat, FailTcp(m, error),
         at[m] = "tokenize" \/ (m \in TcpManager /\ at[m] = "check")
  PROVE  TypeInv'
<1> DEFINE c == channel[m]
           errors == errorCountMap[c] + error
<1>0. /\ TypeOK /\ LocalOK /\ PoolTypeOK /\ ERROR_COUNT_MAXIMUM \in Nat
      /\ m \in Manager /\ m \in TcpManager /\ c \in Connection
  BY RelayAssumption DEF TypeInv, TypeOK, LocalOK, Manager
<1>1. errorCountMap[c] \in 0..ERROR_COUNT_MAXIMUM /\ errors \in Nat
  BY <1>0 DEF TypeOK
<1>2. /\ buffer' = [buffer EXCEPT ![m] = None] /\ channel' = [channel EXCEPT ![m] = None]
      /\ at' = [at EXCEPT ![m] = "idle"]
      /\ UNCHANGED <<listVars, callVars, getBuffer, session, count1, found, peer, lost>>
  BY DEF FailTcp, Goto
<1>3. /\ PoolTypeOK'
      /\ ownBufferQueue' \in [Connection -> Seq(Buffer)]
      /\ errorCountMap' \in [Connection -> 0..ERROR_COUNT_MAXIMUM]
  <2>1. CASE errors > ERROR_COUNT_MAXIMUM
    <3>1. CloseAnd(c, {buffer[m]})
      BY <2>1 DEF FailTcp
    <3>2. PoolTypeOK'
      BY <1>0, <3>1, DeallocateType DEF CloseAnd
    <3>3. QED
      BY <1>0, <3>1, <3>2, EmptyType DEF CloseAnd, TypeOK
  <2>2. CASE ~(errors > ERROR_COUNT_MAXIMUM)
    <3>1. /\ deallocate({buffer[m]})
          /\ errorCountMap' = [errorCountMap EXCEPT ![c] = errors]
          /\ UNCHANGED ownBufferQueue
      BY <2>2 DEF FailTcp
    <3>2. errors \in 0..ERROR_COUNT_MAXIMUM
      BY <1>0, <1>1, <2>2
    <3> HIDE DEF errors, c
    <3>3. QED
      BY <1>0, <3>1, <3>2, DeallocateType DEF TypeOK
  <2>3. QED
    BY <2>1, <2>2
<1>4. TypeOK'
  BY <1>0, <1>2, <1>3 DEF TypeOK, Labels, listVars, callVars
<1>5. LocalOK'
  BY <1>0, <1>2 DEF LocalOK, TypeOK, Manager
<1>6. QED
  BY <1>4, <1>5 DEF TypeInv

LEMMA OfferType ==
  ASSUME TypeOK, NEW s \in Session, NEW b \in Buffer, offer(s, b)
  PROVE  /\ PoolTypeOK'
         /\ voiceBufferQueue' \in [Session -> Seq(Buffer)]
         /\ \A t \in Session : Len(voiceBufferQueue[t]') <= LIST_SIZE
         /\ offeredHashMap' \in [Session -> SUBSET SeqNumber]
<1> DEFINE queue == Append(voiceBufferQueue[s], b)
<1>0. PoolTypeOK /\ LIST_SIZE \in Nat
  BY RelayAssumption DEF TypeOK
<1>1. CASE number[b] \in offeredHashMap[s]
  BY <1>0, <1>1, DeallocateType DEF offer, TypeOK
<1>2. CASE number[b] \notin offeredHashMap[s]
  <2>1. Enlist(s, b)
    BY <1>2 DEF offer
  <2>2. offeredHashMap[s] \cup {number[b]} \in SUBSET SeqNumber
    BY DEF TypeOK
  <2>3. offeredHashMap' \in [Session -> SUBSET SeqNumber]
    BY <2>1, <2>2 DEF Enlist, TypeOK
  <2>4. /\ queue \in Seq(Buffer) /\ Len(queue) <= LIST_SIZE + 1
        /\ Tail(queue) \in Seq(Buffer) /\ Len(Tail(queue)) <= LIST_SIZE
        /\ Len(queue) \in Nat
    <3>1. voiceBufferQueue[s] \in Seq(Buffer) /\ Len(voiceBufferQueue[s]) <= LIST_SIZE
      BY DEF TypeOK
    <3>2. /\ queue \in Seq(Buffer) /\ queue # << >>
          /\ Len(queue) = Len(voiceBufferQueue[s]) + 1 /\ Len(voiceBufferQueue[s]) \in Nat
      BY <3>1, AppendType
    <3> HIDE DEF queue
    <3>3. Tail(queue) \in Seq(Buffer) /\ Len(Tail(queue)) = Len(queue) - 1
      BY <3>2, HeadTailType
    <3>4. QED
      BY <1>0, <3>1, <3>2, <3>3
  <2>5. CASE Len(queue) > LIST_SIZE
    <3>1. deallocate({Head(queue)}) /\ voiceBufferQueue' = [voiceBufferQueue EXCEPT ![s] = Tail(queue)]
      BY <2>1, <2>5 DEF Enlist
    <3> HIDE DEF queue
    <3>2. PoolTypeOK'
      BY <1>0, <3>1, DeallocateType
    <3>3. QED
      BY <2>3, <2>4, <3>1, <3>2 DEF TypeOK
  <2>6. CASE ~(Len(queue) > LIST_SIZE)
    <3>1. UNCHANGED poolVars /\ voiceBufferQueue' = [voiceBufferQueue EXCEPT ![s] = queue]
      BY <2>1, <2>6 DEF Enlist
    <3> HIDE DEF queue
    <3>2. PoolTypeOK'
      BY <1>0, <3>1 DEF PoolTypeOK, poolVars
    <3>3. QED
      BY <1>0, <2>3, <2>4, <2>6, <3>1, <3>2 DEF TypeOK
  <2>7. QED
    BY <2>5, <2>6
<1>3. QED
  BY <1>1, <1>2

LEMMA PutType ==
  ASSUME TypeInv, NEW m \in Manager, PutVoiceBuffer(m)
  PROVE  TypeInv'
<1>0. /\ TypeOK /\ LocalOK /\ buffer[m] \in Buffer /\ session[m] \in Session
      /\ SEND_LIMIT \in Nat
  BY RelayAssumption DEF TypeInv, LocalOK, PutVoiceBuffer
<1>1. offer(session[m], buffer[m])
  BY DEF PutVoiceBuffer
<1>2. /\ buffer' = [buffer EXCEPT ![m] = None] /\ count1' = [count1 EXCEPT ![m] = 0]
      /\ at' = [at EXCEPT ![m] = "testCalling"]
      /\ UNCHANGED <<number, polled, callVars, tcpVars, getBuffer, session, channel, found, peer, lost>>
  BY DEF PutVoiceBuffer, Goto
<1>3. /\ PoolTypeOK'
      /\ voiceBufferQueue' \in [Session -> Seq(Buffer)]
      /\ \A t \in Session : Len(voiceBufferQueue[t]') <= LIST_SIZE
      /\ offeredHashMap' \in [Session -> SUBSET SeqNumber]
  BY <1>0, <1>1, OfferType
<1>4. TypeOK'
  BY <1>0, <1>2, <1>3 DEF TypeOK, Labels, callVars, tcpVars
<1>5. LocalOK'
  BY <1>0, <1>2 DEF LocalOK, TypeOK, PutVoiceBuffer, callVars, tcpVars
<1>6. QED
  BY <1>4, <1>5 DEF TypeInv

LEMMA StepType ==
  ASSUME TypeInv, NEW m \in Manager, Step(m)
  PROVE  TypeInv'
<1>0. TypeOK /\ LocalOK /\ PoolTypeOK
  BY DEF TypeInv, TypeOK
<1> USE RelayAssumption
<1>1. CASE AllocateUdp(m)
  <2>1. PoolTypeOK'
    BY <1>0, <1>1, AllocateType DEF AllocateUdp
  <2>2. TypeOK'
    BY <1>0, <1>1, <2>1, EmptyType, HeadTailType, AppendType DEF TypeOK, LocalOK, AllocateUdp, Goto, ReadOn, Labels, Manager, listVars, callVars, tcpVars
  <2>3. LocalOK'
    BY <1>0, <1>1 DEF TypeOK, LocalOK, AllocateUdp, Goto, ReadOn, Manager, listVars, callVars, tcpVars
  <2>4. QED
    BY <2>2, <2>3 DEF TypeInv
<1>2. CASE AllocateTcp(m)
  <2>1. PoolTypeOK'
    BY <1>0, <1>2, AllocateType DEF AllocateTcp
  <2>2. TypeOK'
    BY <1>0, <1>2, <2>1, EmptyType, HeadTailType, AppendType DEF TypeOK, LocalOK, AllocateTcp, Goto, ReadOn, Labels, Manager, listVars, callVars, tcpVars
  <2>3. LocalOK'
    BY <1>0, <1>2 DEF TypeOK, LocalOK, AllocateTcp, Goto, ReadOn, Manager, listVars, callVars, tcpVars
  <2>4. QED
    BY <2>2, <2>3 DEF TypeInv
<1>3. CASE Exhausted(m)
  <2>1. PoolTypeOK'
    BY <1>0, <1>3 DEF PoolTypeOK, Exhausted, poolVars
  <2>2. TypeOK'
    BY <1>0, <1>3, <2>1, EmptyType, HeadTailType, AppendType DEF TypeOK, LocalOK, Exhausted, Goto, ReadOn, Labels, Manager, listVars, callVars, tcpVars
  <2>3. LocalOK'
    BY <1>0, <1>3 DEF TypeOK, LocalOK, Exhausted, Goto, ReadOn, Manager, listVars, callVars, tcpVars
  <2>4. QED
    BY <2>2, <2>3 DEF TypeInv
<1>4. CASE FindPacket(m)
  <2>1. PoolTypeOK'
    BY <1>0, <1>4, AllocateType DEF FindPacket
  <2>a. channel[m] \in Connection
    BY <1>0, <1>4 DEF LocalOK, FindPacket
  <2>b. PICK b \in Buffer :
          ownBufferQueue' = [ownBufferQueue EXCEPT ![channel[m]] = Append(@, b)]
    BY <1>4 DEF FindPacket
  <2>c. Append(ownBufferQueue[channel[m]], b) \in Seq(Buffer)
    BY <1>0, <2>a, AppendType DEF TypeOK
  <2>d. ownBufferQueue' \in [Connection -> Seq(Buffer)]
    BY <1>0, <2>a, <2>b, <2>c DEF TypeOK
  <2>e. found[m] + 1 \in 0..MAX_PACKETS
    BY <1>0, <1>4 DEF TypeOK, FindPacket
  <2>f. found' \in [Manager -> 0..MAX_PACKETS]
    BY <1>0, <1>4, <2>e DEF TypeOK, FindPacket
  <2>2. TypeOK'
    BY <1>0, <1>4, <2>1, <2>d, <2>f DEF TypeOK, FindPacket, listVars, callVars
  <2>3. LocalOK'
    BY <1>0, <1>4 DEF TypeOK, LocalOK, FindPacket, Goto, ReadOn, Manager, listVars, callVars, tcpVars
  <2>4. QED
    BY <2>2, <2>3 DEF TypeInv
<1>5. CASE EndPut(m)
  <2>1. PoolTypeOK'
    BY <1>0, <1>5, DeallocateType DEF EndPut
  <2>2. TypeOK'
    BY <1>0, <1>5, <2>1, EmptyType, HeadTailType, AppendType DEF TypeOK, LocalOK, EndPut, Goto, ReadOn, Labels, Manager, listVars, callVars, tcpVars
  <2>3. LocalOK'
    BY <1>0, <1>5 DEF TypeOK, LocalOK, EndPut, Goto, ReadOn, Manager, listVars, callVars, tcpVars
  <2>4. QED
    BY <2>2, <2>3 DEF TypeInv
<1>6. CASE GetPacket(m)
  <2>1. PoolTypeOK'
    BY <1>0, <1>6 DEF PoolTypeOK, GetPacket, poolVars
  <2>a. channel[m] \in Connection
    BY <1>0, <1>6 DEF LocalOK, GetPacket
  <2>2. TypeOK'
    <3>1. CASE ownBufferQueue[channel[m]] = << >>
      BY <1>0, <1>6, <2>1, <3>1 DEF TypeOK, GetPacket, Goto, Labels, listVars, callVars
    <3>2. CASE ownBufferQueue[channel[m]] # << >>
      <4>1. /\ Head(ownBufferQueue[channel[m]]) \in Buffer
            /\ Tail(ownBufferQueue[channel[m]]) \in Seq(Buffer)
        BY <1>0, <2>a, <3>2, HeadTailType DEF TypeOK
      <4>2. /\ buffer' = [buffer EXCEPT ![m] = Head(ownBufferQueue[channel[m]])]
            /\ ownBufferQueue' = [ownBufferQueue EXCEPT ![channel[m]] = Tail(ownBufferQueue[channel[m]])]
            /\ at' = [at EXCEPT ![m] = "check"] /\ UNCHANGED channel
        BY <1>6, <3>2 DEF GetPacket, Goto
      <4>3. /\ buffer' \in [Manager -> Buffer \cup {None}]
            /\ ownBufferQueue' \in [Connection -> Seq(Buffer)]
            /\ at' \in [Manager -> Labels]
        BY <1>0, <2>a, <4>1, <4>2 DEF TypeOK, Labels
      <4>4. QED
        BY <1>0, <1>6, <2>1, <4>2, <4>3 DEF TypeOK, GetPacket, listVars, callVars
    <3>3. QED
      BY <3>1, <3>2
  <2>3. LocalOK'
    <3>1. /\ at \in [Manager -> Labels] /\ buffer \in [Manager -> Buffer \cup {None}]
          /\ channel \in [Manager -> Connection \cup {None}]
          /\ ownBufferQueue \in [Connection -> Seq(Buffer)] /\ channel[m] \in Connection
          /\ at[m] = "get" /\ UNCHANGED <<getBuffer, session, peer>>
      BY <1>0, <1>6, <2>a DEF TypeOK, GetPacket
    <3>2. CASE ownBufferQueue[channel[m]] = << >>
      <4>1. /\ at' = [at EXCEPT ![m] = "idle"] /\ channel' = [channel EXCEPT ![m] = None]
            /\ UNCHANGED buffer
        BY <1>6, <3>2 DEF GetPacket, Goto
      <4>2. QED
        BY <1>0, <3>1, <4>1 DEF LocalOK
    <3>3. CASE ownBufferQueue[channel[m]] # << >>
      <4>1. /\ at' = [at EXCEPT ![m] = "check"] /\ UNCHANGED channel
            /\ buffer' = [buffer EXCEPT ![m] = Head(ownBufferQueue[channel[m]])]
        BY <1>6, <3>3 DEF GetPacket, Goto
      <4>2. Head(ownBufferQueue[channel[m]]) \in Buffer
        BY <3>1, <3>3, HeadTailType
      <4>3. QED
        BY <1>0, <3>1, <4>1, <4>2 DEF LocalOK
    <3>4. QED
      BY <3>2, <3>3
  <2>4. QED
    BY <2>2, <2>3 DEF TypeInv
<1>7. CASE DropUdp(m)
  <2>1. PoolTypeOK'
    BY <1>0, <1>7, DeallocateType DEF DropUdp
  <2>2. TypeOK'
    BY <1>0, <1>7, <2>1, EmptyType, HeadTailType, AppendType DEF TypeOK, LocalOK, DropUdp, Goto, ReadOn, Labels, Manager, listVars, callVars, tcpVars
  <2>3. LocalOK'
    BY <1>0, <1>7 DEF TypeOK, LocalOK, DropUdp, Goto, ReadOn, Manager, listVars, callVars, tcpVars
  <2>4. QED
    BY <2>2, <2>3 DEF TypeInv
<1>8. ASSUME NEW s \in Session, NoteAddress(m, s) PROVE TypeInv'
  <2>1. PoolTypeOK'
    BY <1>0, <1>8 DEF PoolTypeOK, NoteAddress, poolVars
  <2>2. TypeOK'
    BY <1>0, <1>8, <2>1 DEF TypeOK, NoteAddress, Goto, Labels, listVars, callVars, tcpVars
  <2>3. LocalOK'
    BY <1>0, <1>8 DEF TypeOK, LocalOK, NoteAddress, Goto, Manager, listVars, callVars, tcpVars
  <2>4. QED
    BY <2>2, <2>3 DEF TypeInv
<1>9. ASSUME NEW s \in Session, NEW nr \in SeqNumber, Accepted(m, s, nr) PROVE TypeInv'
  <2>1. PoolTypeOK'
    BY <1>0, <1>9 DEF PoolTypeOK, Accepted, poolVars
  <2>a. /\ number' \in [Buffer -> SeqNumber]
        /\ session' \in [Manager -> Session \cup {None}]
    BY <1>0, <1>9 DEF TypeOK, Accepted
  <2>b. at' \in [Manager -> Labels]
    BY <1>0, <1>9 DEF TypeOK, Accepted, Goto, Labels
  <2>c. UNCHANGED <<voiceBufferQueue, offeredHashMap, polled, callVars, tcpVars,
                    buffer, getBuffer, channel, count1, found, peer, lost>>
    BY <1>9 DEF Accepted
  <2>2. TypeOK'
    BY <1>0, <2>1, <2>a, <2>b, <2>c DEF TypeOK, callVars, tcpVars
  <2>3. LocalOK'
    BY <1>0, <1>9 DEF TypeOK, LocalOK, Accepted, Goto, ReadOn, Manager, listVars, callVars, tcpVars
  <2>4. QED
    BY <2>2, <2>3 DEF TypeInv
<1>10. CASE TestCalling(m)
  <2>1. PoolTypeOK'
    BY <1>0, <1>10 DEF PoolTypeOK, TestCalling, poolVars
  <2>a. at' \in [Manager -> Labels]
    <3>1. at \in [Manager -> Labels]
      BY <1>0 DEF TypeOK
    <3>2. PICK l \in {"idle", "get", "readCalling"} : at' = [at EXCEPT ![m] = l]
      BY <1>10 DEF TestCalling, ReadOn, Goto
    <3>3. l \in Labels
      BY <3>2 DEF Labels
    <3>4. QED
      BY <3>1, <3>2, <3>3
  <2>b. session' \in [Manager -> Session \cup {None}]
    BY <1>0, <1>10 DEF TypeOK, TestCalling
  <2>2. TypeOK'
    BY <1>0, <1>10, <2>1, <2>a, <2>b DEF TypeOK, TestCalling, listVars, callVars, tcpVars
  <2>3. LocalOK'
    BY <1>0, <1>10 DEF TypeOK, LocalOK, TestCalling, Goto, ReadOn, Manager, listVars, callVars, tcpVars
  <2>4. QED
    BY <2>2, <2>3 DEF TypeInv
<1>11. CASE ReadCalling(m)
  <2>1. PoolTypeOK'
    BY <1>0, <1>11 DEF PoolTypeOK, ReadCalling, poolVars
  <2>2. TypeOK'
    BY <1>0, <1>11, <2>1, EmptyType, HeadTailType, AppendType DEF TypeOK, LocalOK, ReadCalling, Goto, ReadOn, Labels, Manager, listVars, callVars, tcpVars
  <2>3. LocalOK'
    BY <1>0, <1>11 DEF TypeOK, LocalOK, ReadCalling, Goto, ReadOn, Manager, listVars, callVars, tcpVars
  <2>4. QED
    BY <2>2, <2>3 DEF TypeInv
<1>12. CASE PollVoice(m)
  <2>1. PoolTypeOK'
    BY <1>0, <1>12 DEF PoolTypeOK, PollVoice, poolVars
  <2>a. peer[m] \in Session /\ session[m] \in Session
    BY <1>0, <1>12 DEF LocalOK, PollVoice
  <2>2. TypeOK'
    <3>1. CASE voiceBufferQueue[peer[m]] = << >>
      BY <1>0, <1>12, <2>1, <3>1 DEF TypeOK, PollVoice, Goto, ReadOn, Labels, callVars, tcpVars
    <3>2. CASE voiceBufferQueue[peer[m]] # << >>
      <4> DEFINE queue == voiceBufferQueue[peer[m]]
      <4>1. /\ Head(queue) \in Buffer /\ Tail(queue) \in Seq(Buffer)
            /\ Len(Tail(queue)) <= LIST_SIZE
        BY <1>0, <2>a, <3>2, HeadTailType DEF TypeOK
      <4>2. polled[peer[m]] \cup {number[Head(queue)]} \in SUBSET SeqNumber
        BY <1>0, <2>a, <4>1 DEF TypeOK
      <4>3. /\ polled' = [polled EXCEPT ![peer[m]] = polled[peer[m]] \cup {number[Head(queue)]}]
            /\ voiceBufferQueue' = [voiceBufferQueue EXCEPT ![peer[m]] = Tail(queue)]
            /\ getBuffer' = [getBuffer EXCEPT ![m] = Head(queue)]
            /\ Goto(m, "send")
        BY <1>12, <3>2 DEF PollVoice
      <4> HIDE DEF queue
      <4>4. polled' \in [Session -> SUBSET SeqNumber]
        BY <1>0, <2>a, <4>2, <4>3 DEF TypeOK
      <4>5. /\ voiceBufferQueue' \in [Session -> Seq(Buffer)]
            /\ \A s \in Session : Len(voiceBufferQueue[s]') <= LIST_SIZE
        BY <1>0, <2>a, <4>1, <4>3 DEF TypeOK
      <4>6. getBuffer' \in [Manager -> Buffer \cup {None}] /\ at' \in [Manager -> Labels]
        BY <1>0, <4>1, <4>3 DEF TypeOK, Goto, Labels
      <4>7. QED
        BY <1>0, <1>12, <2>1, <3>2, <4>4, <4>5, <4>6 DEF TypeOK, PollVoice, callVars, tcpVars
    <3>3. QED
      BY <3>1, <3>2
  <2>3. LocalOK'
    BY <1>0, <1>12 DEF TypeOK, LocalOK, PollVoice, Goto, ReadOn, Manager, listVars, callVars, tcpVars
  <2>4. QED
    BY <2>2, <2>3 DEF TypeInv
<1>13. CASE Send(m)
  <2>1. PoolTypeOK'
    BY <1>0, <1>13, DeallocateType DEF Send
  <2>2. TypeOK'
    BY <1>0, <1>13, <2>1, EmptyType, HeadTailType, AppendType DEF TypeOK, LocalOK, Send, Goto, ReadOn, Labels, Manager, listVars, callVars, tcpVars
  <2>3. LocalOK'
    BY <1>0, <1>13 DEF TypeOK, LocalOK, Send, Goto, ReadOn, Manager, listVars, callVars, tcpVars
  <2>4. QED
    BY <2>2, <2>3 DEF TypeInv
<1>14. CASE ThrowAway(m)
  <2>1. PoolTypeOK'
    BY <1>0, <1>14, DeallocateType DEF ThrowAway
  <2>2. TypeOK'
    BY <1>0, <1>14, <2>1, EmptyType, HeadTailType, AppendType DEF TypeOK, LocalOK, ThrowAway, Goto, ReadOn, Labels, Manager, listVars, callVars, tcpVars
  <2>3. LocalOK'
    BY <1>0, <1>14 DEF TypeOK, LocalOK, ThrowAway, Goto, ReadOn, Manager, listVars, callVars, tcpVars
  <2>4. QED
    BY <2>2, <2>3 DEF TypeInv
<1>15. CASE ReadFails(m)
  BY <1>15, FailType DEF ReadFails, Manager
<1>16. CASE WrongLength(m)
  BY <1>16, FailType DEF WrongLength, Manager
<1>17. CASE NotActive(m)
  BY <1>17, FailType DEF NotActive, Manager
<1>18. ASSUME NEW c \in Connection, TimeOut(m, c) PROVE TypeInv'
  <2>1. CloseAnd(c, {})
    BY <1>18 DEF TimeOut
  <2>2. PoolTypeOK'
    BY <1>0, <2>1, DeallocateType DEF CloseAnd
  <2>3. TypeOK'
    BY <1>0, <1>18, <2>1, <2>2, EmptyType DEF TypeOK, TimeOut, CloseAnd, listVars, callVars, localVars
  <2>4. LocalOK'
    BY <1>0, <1>18 DEF LocalOK, TimeOut, localVars
  <2>5. QED
    BY <2>3, <2>4 DEF TypeInv
<1>19. CASE PutVoiceBuffer(m)
  BY <1>19, PutType
<1>21. CASE TooShort(m)
  <2>1. PoolTypeOK'
    BY <1>0, <1>21 DEF PoolTypeOK, TooShort, poolVars
  <2>2. TypeOK'
    BY <1>0, <1>21, <2>1, EmptyType DEF TypeOK, LocalOK, TooShort, Goto, Labels, Manager, listVars, callVars, tcpVars
  <2>3. LocalOK'
    BY <1>0, <1>21 DEF TypeOK, LocalOK, TooShort, Goto, Manager, listVars, callVars, tcpVars
  <2>4. QED
    BY <2>2, <2>3 DEF TypeInv
<1>22. CASE DiscardTcp(m)
  <2>1. PoolTypeOK'
    BY <1>0, <1>22, DeallocateType DEF DiscardTcp
  <2>2. TypeOK'
    BY <1>0, <1>22, <2>1, EmptyType DEF TypeOK, LocalOK, DiscardTcp, Goto, Labels, Manager, listVars, callVars, tcpVars
  <2>3. LocalOK'
    BY <1>0, <1>22 DEF TypeOK, LocalOK, DiscardTcp, Goto, Manager, listVars, callVars, tcpVars
  <2>4. QED
    BY <2>2, <2>3 DEF TypeInv
<1>23. CASE LoseUdp(m)
  <2>1. PoolTypeOK'
    BY <1>0, <1>23 DEF PoolTypeOK, LoseUdp, poolVars
  <2>2. TypeOK'
    BY <1>0, <1>23, <2>1, EmptyType DEF TypeOK, LocalOK, LoseUdp, Goto, Labels, Manager, listVars, callVars, tcpVars
  <2>3. LocalOK'
    BY <1>0, <1>23 DEF TypeOK, LocalOK, LoseUdp, Goto, Manager, listVars, callVars, tcpVars
  <2>4. QED
    BY <2>2, <2>3 DEF TypeInv
<1>24. CASE TestAddress(m) \/ ReadAddress(m)
  <2>1. CASE EndAddress(m)
    <3>1. PoolTypeOK'
      BY <1>0, <2>1, DeallocateType DEF EndAddress
    <3>2. PICK l \in {"get", "idle"} :
            at' = [at EXCEPT ![m] = l] /\ (l = "get" <=> m \in TcpManager)
      BY <2>1 DEF EndAddress, ReadOn, Goto
    <3>3. UNCHANGED <<listVars, callVars, tcpVars, getBuffer, channel, count1, found, peer, lost>>
      BY <1>24 DEF TestAddress, ReadAddress
    <3>4. TypeOK'
      BY <1>0, <2>1, <3>1, <3>2, <3>3 DEF TypeOK, EndAddress, Labels, listVars, callVars, tcpVars
    <3>5. at[m] \in {"testAddress", "readAddress"}
      BY <1>24 DEF TestAddress, ReadAddress
    <3>6. LocalOK'
      BY <1>0, <2>1, <3>2, <3>3, <3>5 DEF TypeOK, LocalOK, EndAddress, Manager
    <3>7. QED
      BY <3>4, <3>6 DEF TypeInv
  <2>2. CASE ~ EndAddress(m)
    <3>1. /\ UNCHANGED <<poolVars, buffer, session, listVars, callVars, tcpVars, getBuffer, channel,
                        count1, found, peer, lost>>
          /\ \/ at[m] = "testAddress" /\ at' = [at EXCEPT ![m] = "readAddress"]
             \/ at[m] = "readAddress" /\ at' = [at EXCEPT ![m] = "nullCall"]
      BY <1>24, <2>2 DEF TestAddress, ReadAddress, Goto
    <3>2. PoolTypeOK'
      BY <1>0, <3>1 DEF PoolTypeOK, poolVars
    <3>3. TypeOK'
      BY <1>0, <3>1, <3>2 DEF TypeOK, Labels, listVars, callVars, tcpVars
    <3>4. LocalOK'
      <4>1. /\ buffer' = buffer /\ session' = session /\ getBuffer' = getBuffer /\ peer' = peer
            /\ channel' = channel /\ at \in [Manager -> Labels]
        BY <1>0, <3>1 DEF TypeOK
      <4>2. CASE at[m] = "testAddress" /\ at' = [at EXCEPT ![m] = "readAddress"]
        BY <1>0, <4>1, <4>2 DEF LocalOK
      <4>3. CASE at[m] = "readAddress" /\ at' = [at EXCEPT ![m] = "nullCall"]
        BY <1>0, <4>1, <4>3 DEF LocalOK
      <4>4. QED
        BY <3>1, <4>2, <4>3
    <3>5. QED
      BY <3>3, <3>4 DEF TypeInv
  <2>3. QED
    BY <2>1, <2>2
<1>25. QED
  BY <1>1, <1>2, <1>3, <1>4, <1>5, <1>6, <1>7, <1>8, <1>9, <1>10, <1>11, <1>12, <1>13,
     <1>14, <1>15, <1>16, <1>17, <1>18, <1>19, <1>21, <1>22, <1>23, <1>24 DEF Step

LEMMA NextType == TypeInv /\ [Next]_vars => TypeInv'
<1> SUFFICES ASSUME TypeInv, [Next]_vars PROVE TypeInv'
  OBVIOUS
<1>1. CASE Environment
  BY <1>1, EnvironmentType
<1>2. ASSUME NEW m \in Manager, Step(m) PROVE TypeInv'
  BY <1>2, StepType
<1>3. CASE UNCHANGED vars
  BY <1>3 DEF TypeInv, TypeOK, LocalOK, PoolTypeOK, vars, poolVars, listVars, callVars, tcpVars,
     localVars
<1>4. QED
  BY <1>1, <1>2, <1>3 DEF Next

\* Every variable of the relay keeps its type, whatever the handlers do meanwhile.
THEOREM RelayTypeCorrect == Spec => []TypeOK
<1>1. TypeInv => TypeOK
  BY DEF TypeInv
<1>2. QED
  BY <1>1, InitType, NextType, PTL DEF Spec

(***************************************************************************)
(* The Buffers in a queue.                                                 *)
(***************************************************************************)
LEMMA BuffersOf ==
  ASSUME NEW q \in Seq(Buffer)
  PROVE  /\ BuffersIn(q) \subseteq Buffer
         /\ BuffersIn(q) = {} <=> q = << >>
<1>1. \A i \in DOMAIN q : q[i] \in Buffer
  OBVIOUS
<1>2. q # << >> => 1 \in DOMAIN q
  OBVIOUS
<1>3. q = << >> => DOMAIN q = {}
  OBVIOUS
<1>4. QED
  BY <1>1, <1>2, <1>3 DEF BuffersIn

LEMMA EmptyQueue == BuffersIn(<< >>) = {} /\ Distinct(<< >>)
BY DEF BuffersIn, Distinct

LEMMA AppendBuffers ==
  ASSUME NEW q \in Seq(Buffer), NEW b \in Buffer
  PROVE  /\ BuffersIn(Append(q, b)) = BuffersIn(q) \cup {b}
         /\ Distinct(q) /\ b \notin BuffersIn(q) => Distinct(Append(q, b))
<1>1. /\ DOMAIN Append(q, b) = DOMAIN q \cup {Len(q) + 1}
      /\ Append(q, b)[Len(q) + 1] = b
      /\ \A i \in DOMAIN q : Append(q, b)[i] = q[i]
  OBVIOUS
<1>2. QED
  BY <1>1, Zenon DEF BuffersIn, Distinct

LEMMA TailBuffers ==
  ASSUME NEW q \in Seq(Buffer), q # << >>, Distinct(q)
  PROVE  /\ Head(q) \in BuffersIn(q)
         /\ BuffersIn(Tail(q)) = BuffersIn(q) \ {Head(q)}
         /\ Distinct(Tail(q))
<1>1. /\ Len(q) \in Nat /\ Len(q) >= 1 /\ DOMAIN q = 1..Len(q) /\ Head(q) = q[1]
      /\ DOMAIN Tail(q) = 1..(Len(q) - 1)
      /\ \A i \in DOMAIN Tail(q) : Tail(q)[i] = q[i + 1]
  OBVIOUS
<1>2. Head(q) \in BuffersIn(q)
  BY <1>1 DEF BuffersIn
<1>3. Distinct(Tail(q))
  BY <1>1 DEF Distinct
<1>4. ASSUME NEW x \in BuffersIn(Tail(q)) PROVE x \in BuffersIn(q) /\ x # Head(q)
  <2>1. PICK i \in DOMAIN Tail(q) : x = Tail(q)[i]
    BY DEF BuffersIn
  <2>2. i + 1 \in DOMAIN q /\ 1 \in DOMAIN q /\ i + 1 # 1 /\ x = q[i + 1]
    BY <1>1, <2>1
  <2>3. QED
    BY <1>1, <2>2 DEF BuffersIn, Distinct
<1>5. ASSUME NEW x \in BuffersIn(q), x # Head(q) PROVE x \in BuffersIn(Tail(q))
  <2>1. PICK i \in DOMAIN q : x = q[i]
    BY DEF BuffersIn
  <2>2. i - 1 \in DOMAIN Tail(q) /\ x = Tail(q)[i - 1]
    BY <1>1, <1>5, <2>1
  <2>3. QED
    BY <2>2 DEF BuffersIn
<1>6. QED
  BY <1>2, <1>3, <1>4, <1>5

(***************************************************************************)
(* Who has what.  An action gives Buffers to the pool, takes one, or moves *)
(* one: each kind keeps the ownership exclusive.                           *)
(***************************************************************************)
Nowhere == <<"lost", None>>

Place == Holder \cup {Nowhere}

Keeps(o) == IF o = Nowhere THEN lost ELSE Has(o)

Exclusive == \A o, p \in Place, b \in Buffer : b \in Keeps(o) /\ b \in Keeps(p) => o = p

Accounted ==
  \A b \in Buffer :
    IF \E o \in Place : b \in Keeps(o) THEN bufferQueue[b] = 0 /\ semaphores[b] = 1
                                      ELSE bufferQueue[b] = 1 /\ semaphores[b] = 0

QueuesDistinct ==
  /\ \A s \in Session : Distinct(voiceBufferQueue[s])
  /\ \A c \in Connection : Distinct(ownBufferQueue[c])

Owned == Exclusive /\ Accounted

OwnInv == Owned /\ QueuesDistinct

LEMMA Taken ==
  ASSUME TypeInv, Owned, NEW b \in Buffer, allocate(b), NEW d \in Place,
         \A o \in Place : Keeps(o)' = IF o = d THEN Keeps(o) \cup {b} ELSE Keeps(o)
  PROVE  Owned' /\ \A o \in Place : b \notin Keeps(o)
<1>1. bufferQueue \in [Buffer -> Nat] /\ semaphores \in [Buffer -> Nat]
  BY DEF TypeInv, TypeOK, PoolTypeOK
<1>2. bufferQueue[b] = 1 /\ semaphores[b] = 0 /\ \A o \in Place : b \notin Keeps(o)
  BY <1>1 DEF Owned, Accounted, allocate
<1>3. Exclusive'
  BY <1>2 DEF Owned, Exclusive, Place, Holder, Nowhere
<1>4. Accounted'
  <2> SUFFICES ASSUME NEW x \in Buffer
               PROVE  IF \E o \in Place : x \in Keeps(o)'
                      THEN bufferQueue'[x] = 0 /\ semaphores'[x] = 1
                      ELSE bufferQueue'[x] = 1 /\ semaphores'[x] = 0
    BY DEF Accounted, Place, Holder, Nowhere
  <2>1. CASE x = b
    BY <1>1, <1>2, <2>1 DEF allocate
  <2>2. CASE x # b
    BY <1>1, <2>2 DEF Owned, Accounted, allocate
  <2>3. QED
    BY <2>1, <2>2
<1>5. QED
  BY <1>2, <1>3, <1>4 DEF Owned

LEMMA Given ==
  ASSUME TypeInv, Owned, NEW bs, deallocate(bs),
         \A b \in bs \cap Buffer : \E o \in Place : b \in Keeps(o),
         \A o \in Place : Keeps(o)' = Keeps(o) \ bs
  PROVE  Owned'
<1>1. bufferQueue \in [Buffer -> Nat] /\ semaphores \in [Buffer -> Nat]
  BY DEF TypeInv, TypeOK, PoolTypeOK
<1>2. \A b \in bs \cap Buffer : bufferQueue[b] = 0 /\ semaphores[b] = 1
  BY DEF Owned, Accounted
<1>3. \A b \in Buffer : /\ bufferQueue'[b] = IF b \in bs THEN 1 ELSE bufferQueue[b]
                        /\ semaphores'[b] = IF b \in bs THEN 0 ELSE semaphores[b]
  BY <1>1, <1>2 DEF deallocate
<1>4. Exclusive'
  BY DEF Owned, Exclusive, Place, Holder, Nowhere
<1>5. Accounted'
  <2> SUFFICES ASSUME NEW x \in Buffer
               PROVE  IF \E o \in Place : x \in Keeps(o)'
                      THEN bufferQueue'[x] = 0 /\ semaphores'[x] = 1
                      ELSE bufferQueue'[x] = 1 /\ semaphores'[x] = 0
    BY DEF Accounted, Place, Holder, Nowhere
  <2>1. CASE x \in bs
    BY <1>3, <2>1
  <2>2. CASE x \notin bs
    BY <1>3, <2>2 DEF Owned, Accounted
  <2>3. QED
    BY <2>1, <2>2
<1>6. QED
  BY <1>4, <1>5 DEF Owned

LEMMA Moved ==
  ASSUME Owned, UNCHANGED poolVars, NEW b \in Buffer, NEW src \in Place, NEW d \in Place,
         b \in Keeps(src),
         \A o \in Place : Keeps(o)' = (Keeps(o) \ {b}) \cup (IF o = d THEN {b} ELSE {})
  PROVE  Owned'
<1>1. Exclusive'
  BY DEF Owned, Exclusive, Place, Holder, Nowhere
<1>2. ASSUME NEW x \in Buffer
      PROVE  (\E o \in Place : x \in Keeps(o)') <=> (\E o \in Place : x \in Keeps(o))
  BY <1>2
<1>3. Accounted'
  BY <1>2 DEF Owned, Accounted, poolVars, Place, Holder, Nowhere
<1>4. QED
  BY <1>1, <1>3 DEF Owned

\* The Buffer b goes to d, which gives h to the pool, possibly b itself.
LEMMA MovedAndGiven ==
  ASSUME TypeInv, Owned, NEW b \in Buffer, NEW src \in Place, NEW d \in Place, NEW h \in Buffer,
         b \in Keeps(src), h \in Keeps(d) \cup {b}, deallocate({h}),
         \A o \in Place : Keeps(o)' = ((Keeps(o) \ {b}) \cup (IF o = d THEN {b} ELSE {})) \ {h}
  PROVE  Owned'
<1>1. bufferQueue \in [Buffer -> Nat] /\ semaphores \in [Buffer -> Nat]
  BY DEF TypeInv, TypeOK, PoolTypeOK
<1>2. bufferQueue[h] = 0 /\ semaphores[h] = 1
  BY DEF Owned, Accounted
<1>3. \A x \in Buffer : /\ bufferQueue'[x] = IF x = h THEN 1 ELSE bufferQueue[x]
                        /\ semaphores'[x] = IF x = h THEN 0 ELSE semaphores[x]
  <2> DEFINE taken == {b1 \in {h} \cap Buffer : semaphores[b1] > 0}
  <2>1. /\ bufferQueue' = [b1 \in Buffer |-> IF b1 \in taken THEN bufferQueue[b1] + 1 ELSE bufferQueue[b1]]
        /\ semaphores' = [b1 \in Buffer |-> IF b1 \in taken THEN semaphores[b1] - 1 ELSE semaphores[b1]]
    BY DEF deallocate
  <2>2. taken = {h}
    BY <1>2
  <2> HIDE DEF taken
  <2>3. QED
    BY <1>2, <2>1, <2>2
<1>4. Exclusive'
  BY DEF Owned, Exclusive, Place, Holder, Nowhere
<1>5. Accounted'
  <2> SUFFICES ASSUME NEW x \in Buffer
               PROVE  IF \E o \in Place : x \in Keeps(o)'
                      THEN bufferQueue'[x] = 0 /\ semaphores'[x] = 1
                      ELSE bufferQueue'[x] = 1 /\ semaphores'[x] = 0
    BY DEF Accounted, Place, Holder, Nowhere
  <2>1. CASE x = h
    BY <1>3, <2>1
  <2>2. CASE x # h
    BY <1>3, <2>2 DEF Owned, Accounted
  <2>3. QED
    BY <2>1, <2>2
<1>6. QED
  BY <1>4, <1>5 DEF Owned

LEMMA Kept ==
  ASSUME Owned, UNCHANGED poolVars, \A o \in Place : Keeps(o)' = Keeps(o)
  PROVE  Owned'
<1>1. Exclusive'
  BY DEF Owned, Exclusive, Place, Holder, Nowhere
<1>2. Accounted'
  BY DEF Owned, Accounted, poolVars, Place, Holder, Nowhere
<1>3. QED
  BY <1>1, <1>2 DEF Owned

\* The four kinds of holders, in a state and in the next one.
LEMMA Kinds ==
  ASSUME NEW o \in Place
  PROVE  \/ \E s \in Session : /\ o = <<"list", s>>
                               /\ Keeps(o) = BuffersIn(voiceBufferQueue[s])
                               /\ Keeps(o)' = BuffersIn(voiceBufferQueue'[s])
         \/ \E c \in Connection : /\ o = <<"tokenizer", c>>
                                  /\ Keeps(o) = BuffersIn(ownBufferQueue[c])
                                  /\ Keeps(o)' = BuffersIn(ownBufferQueue'[c])
         \/ \E m \in Manager : /\ o = <<"buffer", m>>
                               /\ Keeps(o) = {buffer[m]} \cap Buffer
                               /\ Keeps(o)' = {buffer'[m]} \cap Buffer
         \/ \E m \in Manager : /\ o = <<"getBuffer", m>>
                               /\ Keeps(o) = {getBuffer[m]} \cap Buffer
                               /\ Keeps(o)' = {getBuffer'[m]} \cap Buffer
         \/ o = <<"lost", None>> /\ Keeps(o) = lost /\ Keeps(o)' = lost'
<1>1. CASE o \in {"list"} \X Session
  BY <1>1 DEF Has, Keeps, Nowhere
<1>2. CASE o \in {"tokenizer"} \X Connection
  BY <1>2 DEF Has, Keeps, Nowhere
<1>3. CASE o \in {"buffer", "getBuffer"} \X Manager
  BY <1>3 DEF Has, Keeps, Nowhere
<1>4. CASE o = Nowhere
  BY <1>4 DEF Keeps, Nowhere
<1>5. QED
  BY <1>1, <1>2, <1>3, <1>4 DEF Place, Holder

LEMMA Lists ==
  /\ \A s \in Session : /\ <<"list", s>> \in Place
                        /\ Keeps(<<"list", s>>) = BuffersIn(voiceBufferQueue[s])
  /\ \A c \in Connection : /\ <<"tokenizer", c>> \in Place
                           /\ Keeps(<<"tokenizer", c>>) = BuffersIn(ownBufferQueue[c])
  /\ \A m \in Manager : /\ <<"buffer", m>> \in Place /\ <<"getBuffer", m>> \in Place
                        /\ Keeps(<<"buffer", m>>) = {buffer[m]} \cap Buffer
                        /\ Keeps(<<"getBuffer", m>>) = {getBuffer[m]} \cap Buffer
  /\ Nowhere \in Place /\ Keeps(Nowhere) = lost
BY DEF Place, Holder, Nowhere, Has, Keeps

(***************************************************************************)
(* Every step keeps the ownership.                                         *)
(***************************************************************************)
LEMMA InitOwned == Init => OwnInv
<1> SUFFICES ASSUME Init PROVE OwnInv
  OBVIOUS
<1>1. \A o \in Place : Keeps(o) = {}
  BY EmptyQueue, RelayAssumption DEF Init, Place, Holder, Nowhere, Has, Keeps, Manager
<1>2. QED
  BY <1>1, EmptyQueue DEF Init, PoolInit, OwnInv, Owned, Exclusive, Accounted, QueuesDistinct

\* A manager's buffer, taken from the pool.
LEMMA OwnAllocate ==
  ASSUME TypeInv, OwnInv, NEW m \in Manager, AllocateUdp(m) \/ AllocateTcp(m)
  PROVE  OwnInv'
<1>0. /\ Owned /\ QueuesDistinct /\ buffer[m] = None /\ buffer \in [Manager -> Buffer \cup {None}]
      /\ None \notin Buffer
  BY RelayAssumption DEF OwnInv, TypeInv, TypeOK, LocalOK, AllocateUdp, AllocateTcp
<1>1. PICK b \in Buffer : allocate(b) /\ buffer' = [buffer EXCEPT ![m] = b]
  BY DEF AllocateUdp, AllocateTcp
<1>2. UNCHANGED <<voiceBufferQueue, ownBufferQueue, getBuffer, lost>>
  BY DEF AllocateUdp, AllocateTcp, listVars, tcpVars
<1>3. \A o \in Place : Keeps(o)' = IF o = <<"buffer", m>> THEN Keeps(o) \cup {b} ELSE Keeps(o)
  <2> TAKE o \in Place
  <2>1. QED
    BY <1>0, <1>1, <1>2, Kinds
<1>4. Owned'
  BY <1>0, <1>1, <1>3, Taken, Lists
<1>5. QED
  BY <1>0, <1>2, <1>4 DEF OwnInv, QueuesDistinct

LEMMA OwnFindPacket ==
  ASSUME TypeInv, OwnInv, NEW m \in Manager, FindPacket(m)
  PROVE  OwnInv'
<1> DEFINE c == channel[m]
<1>0. /\ Owned /\ QueuesDistinct /\ c \in Connection
      /\ ownBufferQueue \in [Connection -> Seq(Buffer)]
  BY DEF OwnInv, TypeInv, TypeOK, LocalOK, FindPacket
<1>1. PICK b \in Buffer : /\ allocate(b)
                          /\ ownBufferQueue' = [ownBufferQueue EXCEPT ![c] = Append(@, b)]
  BY DEF FindPacket
<1>2. UNCHANGED <<voiceBufferQueue, buffer, getBuffer, lost>>
  BY DEF FindPacket, listVars
<1>3. /\ BuffersIn(Append(ownBufferQueue[c], b)) = BuffersIn(ownBufferQueue[c]) \cup {b}
      /\ b \notin BuffersIn(ownBufferQueue[c]) => Distinct(Append(ownBufferQueue[c], b))
  BY <1>0, AppendBuffers DEF QueuesDistinct
<1> HIDE DEF c
<1>4. \A o \in Place : Keeps(o)' = IF o = <<"tokenizer", c>> THEN Keeps(o) \cup {b} ELSE Keeps(o)
  <2> TAKE o \in Place
  <2>1. CASE o = <<"tokenizer", c>>
    <3>1. Keeps(o) = BuffersIn(ownBufferQueue[c]) /\ Keeps(o)' = BuffersIn(ownBufferQueue'[c])
      BY <1>0, <2>1, Kinds
    <3>2. ownBufferQueue'[c] = Append(ownBufferQueue[c], b)
      BY <1>0, <1>1
    <3>3. QED
      BY <1>3, <2>1, <3>1, <3>2
  <2>2. CASE o # <<"tokenizer", c>>
    BY <1>0, <1>1, <1>2, <2>2, Kinds
  <2>3. QED
    BY <2>1, <2>2
<1>a. <<"tokenizer", c>> \in Place /\ Keeps(<<"tokenizer", c>>) = BuffersIn(ownBufferQueue[c])
  BY <1>0, Lists
<1>5. Owned' /\ b \notin BuffersIn(ownBufferQueue[c])
  BY <1>0, <1>1, <1>4, <1>a, Taken
<1>6. QED
  BY <1>0, <1>1, <1>2, <1>3, <1>5 DEF OwnInv, QueuesDistinct

\* A Buffer in a manager's variable goes back to the pool.
LEMMA OwnRelease ==
  ASSUME TypeInv, OwnInv, NEW m \in Manager, buffer[m] \in Buffer, deallocate({buffer[m]}),
         buffer' = [buffer EXCEPT ![m] = None],
         UNCHANGED <<voiceBufferQueue, ownBufferQueue, getBuffer, lost>>
  PROVE  OwnInv'
<1>0. /\ Owned /\ QueuesDistinct /\ None \notin Buffer
      /\ buffer \in [Manager -> Buffer \cup {None}]
  BY RelayAssumption DEF OwnInv, TypeInv, TypeOK
<1>1. buffer[m] \in Keeps(<<"buffer", m>>) /\ <<"buffer", m>> \in Place
  BY Lists
<1>2. \A o \in Place : Keeps(o)' = Keeps(o) \ {buffer[m]}
  <2> TAKE o \in Place
  <2>1. CASE o = <<"buffer", m>>
    BY <1>0, <2>1, Kinds
  <2>2. CASE o # <<"buffer", m>>
    <3>1. buffer[m] \notin Keeps(o)
      BY <1>0, <1>1, <2>2 DEF Owned, Exclusive
    <3>2. Keeps(o)' = Keeps(o)
      BY <1>0, <2>2, Kinds
    <3>3. QED
      BY <3>1, <3>2
  <2>3. QED
    BY <2>1, <2>2
<1>3. Owned'
  BY <1>0, <1>1, <1>2, Given
<1>4. QED
  BY <1>0, <1>3 DEF OwnInv, QueuesDistinct

LEMMA OwnSent ==
  ASSUME TypeInv, OwnInv, NEW m \in Manager, Send(m) \/ ThrowAway(m)
  PROVE  OwnInv'
<1>0. /\ Owned /\ QueuesDistinct /\ None \notin Buffer /\ getBuffer[m] \in Buffer
      /\ getBuffer \in [Manager -> Buffer \cup {None}]
  BY RelayAssumption DEF OwnInv, TypeInv, TypeOK, LocalOK, Send, ThrowAway
<1>a. /\ deallocate({getBuffer[m]}) /\ getBuffer' = [getBuffer EXCEPT ![m] = None]
      /\ UNCHANGED <<voiceBufferQueue, ownBufferQueue, buffer, lost>>
  BY DEF Send, ThrowAway, listVars, tcpVars
<1>1. getBuffer[m] \in Keeps(<<"getBuffer", m>>) /\ <<"getBuffer", m>> \in Place
  BY <1>0, Lists
<1>2. \A o \in Place : Keeps(o)' = Keeps(o) \ {getBuffer[m]}
  <2> TAKE o \in Place
  <2>1. CASE o = <<"getBuffer", m>>
    BY <1>0, <1>a, <2>1, Kinds
  <2>2. CASE o # <<"getBuffer", m>>
    <3>1. getBuffer[m] \notin Keeps(o)
      BY <1>0, <1>1, <2>2 DEF Owned, Exclusive
    <3>2. Keeps(o)' = Keeps(o)
      BY <1>0, <1>a, <2>2, Kinds
    <3>3. QED
      BY <3>1, <3>2
  <2>3. QED
    BY <2>1, <2>2
<1>3. Owned'
  BY <1>0, <1>a, <1>1, <1>2, Given
<1>4. QED
  BY <1>0, <1>a, <1>3 DEF OwnInv, QueuesDistinct

LEMMA OwnGetPacket ==
  ASSUME TypeInv, OwnInv, NEW m \in Manager, GetPacket(m)
  PROVE  OwnInv'
<1> DEFINE c == channel[m]
           b == Head(ownBufferQueue[c])
<1>0. /\ Owned /\ QueuesDistinct /\ c \in Connection /\ None \notin Buffer /\ buffer[m] = None
      /\ ownBufferQueue \in [Connection -> Seq(Buffer)]
      /\ buffer \in [Manager -> Buffer \cup {None}]
  BY RelayAssumption DEF OwnInv, TypeInv, TypeOK, LocalOK, GetPacket
<1>1. UNCHANGED <<poolVars, voiceBufferQueue, getBuffer, lost>>
  BY DEF GetPacket, listVars
<1>2. CASE ownBufferQueue[c] = << >>
  <2>1. UNCHANGED <<ownBufferQueue, buffer>>
    BY <1>2 DEF GetPacket
  <2>2. \A o \in Place : Keeps(o)' = Keeps(o)
    BY <1>1, <2>1, Kinds
  <2>3. QED
    BY <1>0, <1>1, <2>1, <2>2, Kept DEF OwnInv, QueuesDistinct
<1>3. CASE ownBufferQueue[c] # << >>
  <2>1. /\ buffer' = [buffer EXCEPT ![m] = b]
        /\ ownBufferQueue' = [ownBufferQueue EXCEPT ![c] = Tail(ownBufferQueue[c])]
    BY <1>3 DEF GetPacket
  <2>2. /\ b \in BuffersIn(ownBufferQueue[c]) /\ b \in Buffer
        /\ BuffersIn(Tail(ownBufferQueue[c])) = BuffersIn(ownBufferQueue[c]) \ {b}
        /\ Distinct(Tail(ownBufferQueue[c]))
    BY <1>0, <1>3, TailBuffers, BuffersOf DEF QueuesDistinct
  <2> HIDE DEF b, c
  <2>3. b \in Keeps(<<"tokenizer", c>>) /\ <<"tokenizer", c>> \in Place /\ <<"buffer", m>> \in Place
    BY <1>0, <2>2, Lists
  <2>4. \A o \in Place : Keeps(o)' = (Keeps(o) \ {b}) \cup (IF o = <<"buffer", m>> THEN {b} ELSE {})
    <3> TAKE o \in Place
    <3>1. CASE o = <<"buffer", m>>
      BY <1>0, <2>1, <2>2, <3>1, Kinds
    <3>2. CASE o = <<"tokenizer", c>>
      BY <1>0, <2>1, <2>2, <3>2, Kinds
    <3>3. CASE o # <<"buffer", m>> /\ o # <<"tokenizer", c>>
      <4>1. b \notin Keeps(o)
        BY <1>0, <2>2, <2>3, <3>3 DEF Owned, Exclusive
      <4>2. Keeps(o)' = Keeps(o)
        BY <1>0, <1>1, <2>1, <3>3, Kinds
      <4>3. QED
        BY <3>3, <4>1, <4>2
    <3>4. QED
      BY <3>1, <3>2, <3>3
  <2>5. Owned'
    BY <1>0, <1>1, <2>2, <2>3, <2>4, Moved
  <2>6. QED
    BY <1>0, <1>1, <2>1, <2>2, <2>5 DEF OwnInv, QueuesDistinct
<1>4. QED
  BY <1>2, <1>3

\* A Buffer is lost.
LEMMA OwnLose ==
  ASSUME TypeInv, OwnInv, NEW m \in Manager, LoseUdp(m)
  PROVE  OwnInv'
<1> DEFINE b == buffer[m]
<1>0. /\ Owned /\ QueuesDistinct /\ None \notin Buffer /\ b \in Buffer
      /\ buffer \in [Manager -> Buffer \cup {None}]
  BY RelayAssumption DEF OwnInv, TypeInv, TypeOK, LocalOK, LoseUdp
<1>1. /\ UNCHANGED <<poolVars, voiceBufferQueue, ownBufferQueue, getBuffer>>
      /\ buffer' = [buffer EXCEPT ![m] = None] /\ lost' = lost \cup {b}
  BY DEF LoseUdp, listVars, tcpVars
<1>2. <<"buffer", m>> \in Place /\ Nowhere \in Place /\ b \in Keeps(<<"buffer", m>>)
  BY <1>0, Lists
<1> HIDE DEF b
<1>3. \A o \in Place : Keeps(o)' = (Keeps(o) \ {b}) \cup (IF o = Nowhere THEN {b} ELSE {})
  <2> TAKE o \in Place
  <2>1. CASE o = Nowhere
    <3>1. Keeps(o) = lost /\ Keeps(o)' = lost'
      BY <2>1 DEF Keeps
    <3>2. QED
      BY <1>1, <2>1, <3>1
  <2>2. CASE o = <<"buffer", m>>
    <3>1. Keeps(o) = {buffer[m]} \cap Buffer /\ Keeps(o)' = {buffer'[m]} \cap Buffer /\ o # Nowhere
      BY <2>2, Kinds DEF Nowhere
    <3>2. QED
      BY <1>0, <1>1, <3>1 DEF b
  <2>3. CASE o # Nowhere /\ o # <<"buffer", m>>
    <3>1. b \notin Keeps(o)
      BY <1>0, <1>2, <2>3 DEF Owned, Exclusive
    <3>2. Keeps(o)' = Keeps(o)
      BY <1>0, <1>1, <2>3, Kinds DEF Nowhere
    <3>3. QED
      BY <2>3, <3>1, <3>2
  <2>4. QED
    BY <2>1, <2>2, <2>3
<1>4. Owned'
  BY <1>0, <1>1, <1>2, <1>3, Moved
<1>5. QED
  BY <1>0, <1>1, <1>4 DEF OwnInv, QueuesDistinct

\* A list's Buffers all go back to the pool.
LEMMA OwnReset ==
  ASSUME TypeInv, OwnInv, NEW s \in Session, reset(s)
  PROVE  OwnInv'
<1> DEFINE bs == BuffersIn(voiceBufferQueue[s])
<1>0. /\ Owned /\ QueuesDistinct /\ voiceBufferQueue \in [Session -> Seq(Buffer)]
      /\ deallocate(bs) /\ voiceBufferQueue' = [voiceBufferQueue EXCEPT ![s] = << >>]
      /\ UNCHANGED <<ownBufferQueue, buffer, getBuffer, lost>>
  BY DEF OwnInv, TypeInv, TypeOK, reset, tcpVars, localVars
<1>1. Keeps(<<"list", s>>) = bs /\ <<"list", s>> \in Place
  BY Lists
<1>2. \A o \in Place : Keeps(o)' = Keeps(o) \ bs
  <2> TAKE o \in Place
  <2>1. CASE o = <<"list", s>>
    <3>1. Keeps(o)' = BuffersIn(voiceBufferQueue'[s])
      BY <2>1, Kinds
    <3>2. Keeps(o)' = {}
      BY <1>0, <3>1, EmptyQueue
    <3>3. QED
      BY <1>1, <2>1, <3>2
  <2>2. CASE o # <<"list", s>>
    <3>1. \A b \in Buffer : b \in bs => b \notin Keeps(o)
      BY <1>0, <1>1, <2>2 DEF Owned, Exclusive
    <3>2. bs \subseteq Buffer
      BY <1>0, BuffersOf
    <3> HIDE DEF bs
    <3>3. Keeps(o)' = Keeps(o)
      BY <1>0, <2>2, Kinds
    <3>4. QED
      BY <3>1, <3>2, <3>3
  <2>3. QED
    BY <2>1, <2>2
<1> HIDE DEF bs
<1>3. Owned'
  BY <1>0, <1>1, <1>2, Given
<1>4. QED
  BY <1>0, <1>3, EmptyQueue DEF OwnInv, QueuesDistinct

\* A tokenizer's Buffers go back to the pool, alone or with a manager's.
LEMMA OwnClose ==
  ASSUME TypeInv, OwnInv, NEW c \in Connection, NEW m \in Manager,
         UNCHANGED <<voiceBufferQueue, getBuffer, lost>>,
         \/ CloseAnd(c, {}) /\ UNCHANGED buffer
         \/ CloseAnd(c, {buffer[m]}) /\ buffer[m] \in Buffer /\ buffer' = [buffer EXCEPT ![m] = None]
  PROVE  OwnInv'
<1> DEFINE queued == BuffersIn(ownBufferQueue[c])
           rest == IF buffer' = buffer THEN {} ELSE {buffer[m]}
<1>0. /\ Owned /\ QueuesDistinct /\ ownBufferQueue \in [Connection -> Seq(Buffer)]
      /\ None \notin Buffer /\ buffer \in [Manager -> Buffer \cup {None}]
  BY RelayAssumption DEF OwnInv, TypeInv, TypeOK
<1>1. /\ deallocate(queued \cup rest)
      /\ ownBufferQueue' = [ownBufferQueue EXCEPT ![c] = << >>]
      /\ \/ rest = {} /\ UNCHANGED buffer
         \/ rest = {buffer[m]} /\ buffer[m] \in Buffer /\ buffer' = [buffer EXCEPT ![m] = None]
  <2>1. CASE CloseAnd(c, {}) /\ UNCHANGED buffer
    BY <2>1 DEF CloseAnd
  <2>2. CASE CloseAnd(c, {buffer[m]}) /\ buffer[m] \in Buffer /\ buffer' = [buffer EXCEPT ![m] = None]
    <3>0. buffer'[m] = None /\ buffer[m] # None
      BY <1>0, <2>2
    <3>1. buffer' # buffer
      BY <3>0
    <3>2. QED
      BY <2>2, <3>1 DEF CloseAnd
  <2>3. QED
    BY <2>1, <2>2
<1> HIDE DEF rest
<1>2. Keeps(<<"tokenizer", c>>) = queued /\ <<"tokenizer", c>> \in Place
  <2>1. <<"tokenizer", c>> \in Place
    BY Lists
  <2>2. Keeps(<<"tokenizer", c>>) = BuffersIn(ownBufferQueue[c])
    BY Lists
  <2>3. QED
    BY <2>1, <2>2
<1>3. rest \subseteq Keeps(<<"buffer", m>>) /\ <<"buffer", m>> \in Place
  <2>1. /\ <<"buffer", m>> \in Place
        /\ Keeps(<<"buffer", m>>) = {buffer[m]} \cap Buffer
    BY Lists
  <2>2. rest = {} \/ (rest = {buffer[m]} /\ buffer[m] \in Buffer)
    BY <1>1
  <2>3. QED
    BY <2>1, <2>2
<1>4. \A o \in Place : Keeps(o)' = Keeps(o) \ (queued \cup rest)
  <2> TAKE o \in Place
  <2>1. CASE o = <<"tokenizer", c>>
    <3>1. Keeps(o)' = BuffersIn(ownBufferQueue'[c])
      BY <2>1, Kinds
    <3>2. Keeps(o)' = {}
      BY <1>0, <1>1, <3>1, EmptyQueue
    <3>3. QED
      BY <1>2, <2>1, <3>2
  <2>2. CASE o # <<"tokenizer", c>>
    <3>1. queued \subseteq Buffer
      BY <1>0, BuffersOf
    <3>2. \A b \in Buffer : b \in queued => b \notin Keeps(o)
      BY <1>0, <1>2, <2>2 DEF Owned, Exclusive
    <3> HIDE DEF queued
    <3>3. CASE o = <<"buffer", m>>
      <4>1. Keeps(o) = {buffer[m]} \cap Buffer /\ Keeps(o)' = {buffer'[m]} \cap Buffer
        BY <3>3, Kinds
      <4>2. CASE rest = {} /\ UNCHANGED buffer
        BY <3>1, <3>2, <4>1, <4>2
      <4>3. CASE rest = {buffer[m]} /\ buffer' = [buffer EXCEPT ![m] = None]
        <5>1. buffer'[m] = None
          BY <1>0, <4>3
        <5>2. QED
          BY <1>0, <4>1, <4>3, <5>1
      <4>4. QED
        BY <1>1, <4>2, <4>3
    <3>4. CASE o # <<"buffer", m>>
      <4>1. \A b \in Buffer : b \in rest => b \notin Keeps(o)
        BY <1>0, <1>3, <3>4 DEF Owned, Exclusive
      <4>2. Keeps(o)' = Keeps(o)
        BY <1>0, <1>1, <2>2, <3>4, Kinds
      <4>3. QED
        BY <1>1, <3>1, <3>2, <4>1, <4>2
    <3>5. QED
      BY <3>3, <3>4
  <2>3. QED
    BY <2>1, <2>2
<1> HIDE DEF queued
<1>5. \A b \in (queued \cup rest) \cap Buffer : \E o \in Place : b \in Keeps(o)
  BY <1>2, <1>3
<1>6. Owned'
  BY <1>0, <1>1, <1>4, <1>5, Given
<1>7. QED
  BY <1>0, <1>1, <1>6, EmptyQueue DEF OwnInv, QueuesDistinct

LEMMA OwnFail ==
  ASSUME TypeInv, OwnInv, NEW m \in Manager, NEW error \in Nat, FailTcp(m, error),
         at[m] = "tokenize" \/ (m \in TcpManager /\ at[m] = "check")
  PROVE  OwnInv'
<1>0. buffer[m] \in Buffer /\ channel[m] \in Connection
  BY DEF TypeInv, LocalOK
<1>1. buffer' = [buffer EXCEPT ![m] = None] /\ UNCHANGED <<voiceBufferQueue, getBuffer, lost>>
  BY DEF FailTcp, listVars
<1>2. CASE errorCountMap[channel[m]] + error > ERROR_COUNT_MAXIMUM
  <2>1. CloseAnd(channel[m], {buffer[m]})
    BY <1>2 DEF FailTcp
  <2>2. QED
    BY <1>0, <1>1, <2>1, OwnClose
<1>3. CASE ~(errorCountMap[channel[m]] + error > ERROR_COUNT_MAXIMUM)
  <2>1. deallocate({buffer[m]}) /\ UNCHANGED ownBufferQueue
    BY <1>3 DEF FailTcp
  <2>2. QED
    BY <1>0, <1>1, <2>1, OwnRelease
<1>4. QED
  BY <1>2, <1>3

LEMMA OwnPoll ==
  ASSUME TypeInv, OwnInv, NEW m \in Manager, PollVoice(m)
  PROVE  OwnInv'
<1> DEFINE p == peer[m]
           b == Head(voiceBufferQueue[p])
<1>0. /\ Owned /\ QueuesDistinct /\ p \in Session /\ None \notin Buffer /\ getBuffer[m] = None
      /\ voiceBufferQueue \in [Session -> Seq(Buffer)]
      /\ getBuffer \in [Manager -> Buffer \cup {None}]
  BY RelayAssumption DEF OwnInv, TypeInv, TypeOK, LocalOK, PollVoice
<1>1. UNCHANGED <<poolVars, ownBufferQueue, buffer, lost>>
  BY DEF PollVoice, tcpVars
<1>2. CASE voiceBufferQueue[p] = << >>
  <2>1. UNCHANGED <<voiceBufferQueue, getBuffer>>
    BY <1>2 DEF PollVoice
  <2>2. \A o \in Place : Keeps(o)' = Keeps(o)
    BY <1>1, <2>1, Kinds
  <2>3. QED
    BY <1>0, <1>1, <2>1, <2>2, Kept DEF OwnInv, QueuesDistinct
<1>3. CASE voiceBufferQueue[p] # << >>
  <2>1. /\ getBuffer' = [getBuffer EXCEPT ![m] = b]
        /\ voiceBufferQueue' = [voiceBufferQueue EXCEPT ![p] = Tail(voiceBufferQueue[p])]
    BY <1>3 DEF PollVoice
  <2>2. /\ b \in BuffersIn(voiceBufferQueue[p]) /\ b \in Buffer
        /\ BuffersIn(Tail(voiceBufferQueue[p])) = BuffersIn(voiceBufferQueue[p]) \ {b}
        /\ Distinct(Tail(voiceBufferQueue[p]))
    BY <1>0, <1>3, TailBuffers, BuffersOf DEF QueuesDistinct
  <2> HIDE DEF b, p
  <2>3. b \in Keeps(<<"list", p>>) /\ <<"list", p>> \in Place /\ <<"getBuffer", m>> \in Place
    BY <1>0, <2>2, Lists
  <2>4. \A o \in Place : Keeps(o)' = (Keeps(o) \ {b}) \cup (IF o = <<"getBuffer", m>> THEN {b} ELSE {})
    <3> TAKE o \in Place
    <3>1. CASE o = <<"getBuffer", m>>
      BY <1>0, <2>1, <2>2, <3>1, Kinds
    <3>2. CASE o = <<"list", p>>
      BY <1>0, <2>1, <2>2, <3>2, Kinds
    <3>3. CASE o # <<"getBuffer", m>> /\ o # <<"list", p>>
      <4>1. b \notin Keeps(o)
        BY <1>0, <2>2, <2>3, <3>3 DEF Owned, Exclusive
      <4>2. Keeps(o)' = Keeps(o)
        BY <1>0, <1>1, <2>1, <3>3, Kinds
      <4>3. QED
        BY <3>3, <4>1, <4>2
    <3>4. QED
      BY <3>1, <3>2, <3>3
  <2>5. Owned'
    BY <1>0, <1>1, <2>2, <2>3, <2>4, Moved
  <2>6. QED
    BY <1>0, <1>1, <2>1, <2>2, <2>5 DEF OwnInv, QueuesDistinct
<1>4. QED
  BY <1>2, <1>3

\* The Buffer goes from the manager to the list, and the list's first one to the
\* pool when the list is too long.
LEMMA OwnEnlist ==
  ASSUME TypeInv, OwnInv, NEW m \in Manager, NEW s \in Session, buffer[m] \in Buffer,
         Enlist(s, buffer[m]), buffer' = [buffer EXCEPT ![m] = None],
         UNCHANGED <<ownBufferQueue, getBuffer, lost>>
  PROVE  OwnInv'
<1> DEFINE b == buffer[m]
           q == voiceBufferQueue[s]
           queue == Append(q, b)
           src == <<"buffer", m>>
           d == <<"list", s>>
<1>0. /\ Owned /\ QueuesDistinct /\ None \notin Buffer
      /\ voiceBufferQueue \in [Session -> Seq(Buffer)] /\ q \in Seq(Buffer)
      /\ buffer \in [Manager -> Buffer \cup {None}]
  BY RelayAssumption DEF OwnInv, TypeInv, TypeOK
<1>1. src \in Place /\ d \in Place /\ b \in Keeps(src) /\ Keeps(d) = BuffersIn(q)
  BY Lists
<1>2. b \notin BuffersIn(q) /\ \A o \in Place : o # src => b \notin Keeps(o)
  BY <1>0, <1>1 DEF Owned, Exclusive
<1>3. /\ queue \in Seq(Buffer) /\ queue # << >> /\ Distinct(queue)
      /\ BuffersIn(queue) = BuffersIn(q) \cup {b}
  BY <1>0, <1>2, AppendBuffers, AppendType DEF QueuesDistinct
<1>4. /\ Head(queue) \in BuffersIn(queue) /\ Head(queue) \in Buffer /\ Distinct(Tail(queue))
      /\ BuffersIn(Tail(queue)) = BuffersIn(queue) \ {Head(queue)}
  BY <1>3, TailBuffers, BuffersOf
<1>5. \A o \in Place : o # d /\ o # src => Keeps(o)' = Keeps(o)
  <2> TAKE o \in Place
  <2>1. \A t \in Session : t # s => voiceBufferQueue'[t] = voiceBufferQueue[t]
    BY <1>0 DEF Enlist
  <2>2. \A k \in Manager : k # m => buffer'[k] = buffer[k]
    BY <1>0
  <2>3. QED
    BY <2>1, <2>2, Kinds
<1>6. Keeps(src) = {b} /\ Keeps(src)' = {}
  BY <1>0, <1>1, Kinds
<1>7. Keeps(d)' = BuffersIn(voiceBufferQueue'[s])
  BY <1>1, Kinds
<1>8. CASE Len(queue) > LIST_SIZE
  <2> DEFINE h == Head(queue)
  <2>1. deallocate({h}) /\ voiceBufferQueue' = [voiceBufferQueue EXCEPT ![s] = Tail(queue)]
    BY <1>8 DEF Enlist
  <2>2. Keeps(d)' = (Keeps(d) \cup {b}) \ {h}
    BY <1>0, <1>1, <1>3, <1>4, <1>7, <2>1
  <2> HIDE DEF h
  <2>3. h \in Keeps(d) \cup {b} /\ h \in Buffer
    BY <1>1, <1>3, <1>4 DEF h
  <2>4. \A o \in Place : Keeps(o)' = ((Keeps(o) \ {b}) \cup (IF o = d THEN {b} ELSE {})) \ {h}
    <3> TAKE o \in Place
    <3>1. CASE o = d
      BY <1>1, <1>2, <2>2, <3>1
    <3>2. CASE o = src
      BY <1>6, <3>2
    <3>3. CASE o # d /\ o # src
      <4>1. h \notin Keeps(o) /\ b \notin Keeps(o)
        BY <1>0, <1>1, <1>2, <2>3, <3>3 DEF Owned, Exclusive
      <4>2. QED
        BY <1>5, <3>3, <4>1
    <3>4. QED
      BY <3>1, <3>2, <3>3
  <2>5. Owned'
    BY <1>0, <1>1, <2>1, <2>3, <2>4, MovedAndGiven
  <2>6. QED
    BY <1>0, <1>4, <2>1, <2>5 DEF OwnInv, QueuesDistinct
<1>9. CASE ~(Len(queue) > LIST_SIZE)
  <2>1. UNCHANGED poolVars /\ voiceBufferQueue' = [voiceBufferQueue EXCEPT ![s] = queue]
    BY <1>9 DEF Enlist
  <2>2. Keeps(d)' = Keeps(d) \cup {b}
    BY <1>0, <1>1, <1>3, <1>7, <2>1
  <2>3. \A o \in Place : Keeps(o)' = (Keeps(o) \ {b}) \cup (IF o = d THEN {b} ELSE {})
    <3> TAKE o \in Place
    <3>1. CASE o = d
      BY <1>1, <1>2, <2>2, <3>1
    <3>2. CASE o = src
      BY <1>6, <3>2
    <3>3. CASE o # d /\ o # src
      BY <1>2, <1>5, <3>3
    <3>4. QED
      BY <3>1, <3>2, <3>3
  <2>4. Owned'
    BY <1>0, <1>1, <2>1, <2>3, Moved
  <2>5. QED
    BY <1>0, <1>3, <2>1, <2>4 DEF OwnInv, QueuesDistinct
<1>10. QED
  BY <1>8, <1>9

LEMMA NextOwned == TypeInv /\ OwnInv /\ [Next]_vars => OwnInv'
<1> SUFFICES ASSUME TypeInv, OwnInv, [Next]_vars PROVE OwnInv'
  OBVIOUS
<1>0. Owned /\ QueuesDistinct
  BY DEF OwnInv
<1>1. ASSUME UNCHANGED <<poolVars, voiceBufferQueue, ownBufferQueue, buffer, getBuffer, lost>>
      PROVE  OwnInv'
  <2>1. \A o \in Place : Keeps(o)' = Keeps(o)
    BY <1>1, Kinds
  <2>2. QED
    BY <1>0, <1>1, <2>1, Kept DEF OwnInv, QueuesDistinct
<1>2. CASE Environment
  <2>1. ASSUME NEW s \in Session, NEW p \in Session \cup {None}, SetCallingSession(s, p)
        PROVE  OwnInv'
    BY <1>1, <2>1 DEF SetCallingSession, listVars, tcpVars, localVars
  <2>2. ASSUME NEW m \in Manager, NEW s \in Session,
               registerSession(m, s) \/ unregisterSession(m, s)
        PROVE  OwnInv'
    BY <1>1, <2>2 DEF registerSession, unregisterSession, listVars, tcpVars, localVars
  <2>3. ASSUME NEW s \in Session, reset(s) PROVE OwnInv'
    BY <2>3, OwnReset
  <2>4. QED
    BY <1>2, <2>1, <2>2, <2>3 DEF Environment
<1>3. ASSUME NEW m \in Manager, Step(m) PROVE OwnInv'
  <2>0. LocalOK /\ ERROR \in Nat /\ WARNING \in Nat /\ SEVERE \in Nat
    BY RelayAssumption DEF TypeInv
  <2>1. CASE AllocateUdp(m) \/ AllocateTcp(m)
    BY <2>1, OwnAllocate
  <2>2. CASE Exhausted(m) \/ TooShort(m) \/ TestCalling(m) \/ ReadCalling(m)
    BY <1>1, <2>2 DEF Exhausted, TooShort, TestCalling, ReadCalling, listVars, tcpVars
  <2>3. CASE FindPacket(m)
    BY <2>3, OwnFindPacket
  <2>4. CASE EndPut(m) \/ DropUdp(m) \/ DiscardTcp(m)
    <3>1. /\ buffer[m] \in Buffer /\ deallocate({buffer[m]})
          /\ buffer' = [buffer EXCEPT ![m] = None]
          /\ UNCHANGED <<voiceBufferQueue, ownBufferQueue, getBuffer, lost>>
      BY <2>0, <2>4 DEF EndPut, DropUdp, DiscardTcp, LocalOK, listVars, tcpVars
    <3>2. QED
      BY <3>1, OwnRelease
  <2>5. CASE GetPacket(m)
    BY <2>5, OwnGetPacket
  <2>6. CASE ReadFails(m)
    BY <2>0, <2>6, OwnFail DEF ReadFails
  <2>7. CASE WrongLength(m)
    BY <2>0, <2>7, OwnFail DEF WrongLength
  <2>8. CASE NotActive(m)
    BY <2>0, <2>8, OwnFail DEF NotActive
  <2>9. ASSUME NEW c \in Connection, TimeOut(m, c) PROVE OwnInv'
    BY <2>9, OwnClose DEF TimeOut, listVars, localVars
  <2>10. ASSUME NEW s \in Session, NEW n \in SeqNumber, Accepted(m, s, n) PROVE OwnInv'
    BY <1>1, <2>10 DEF Accepted, tcpVars
  <2>11. CASE PutVoiceBuffer(m)
    <3>1. /\ buffer[m] \in Buffer /\ session[m] \in Session
          /\ offer(session[m], buffer[m]) /\ buffer' = [buffer EXCEPT ![m] = None]
          /\ UNCHANGED <<ownBufferQueue, getBuffer, lost>>
      BY <2>0, <2>11 DEF PutVoiceBuffer, LocalOK, tcpVars
    <3>2. CASE number[buffer[m]] \in offeredHashMap[session[m]]
      BY <3>1, <3>2, OwnRelease DEF offer
    <3>3. CASE number[buffer[m]] \notin offeredHashMap[session[m]]
      BY <3>1, <3>3, OwnEnlist DEF offer
    <3>4. QED
      BY <3>2, <3>3
  <2>12. CASE PollVoice(m)
    BY <2>12, OwnPoll
  <2>13. CASE Send(m) \/ ThrowAway(m)
    BY <2>13, OwnSent
  <2>14. CASE LoseUdp(m)
    BY <2>14, OwnLose
  <2>15. ASSUME NEW s \in Session, NoteAddress(m, s) PROVE OwnInv'
    BY <1>1, <2>15 DEF NoteAddress, listVars, tcpVars
  <2>16. CASE TestAddress(m) \/ ReadAddress(m)
    <3>1. CASE EndAddress(m)
      <4>1. /\ buffer[m] \in Buffer /\ deallocate({buffer[m]})
            /\ buffer' = [buffer EXCEPT ![m] = None]
            /\ UNCHANGED <<voiceBufferQueue, ownBufferQueue, getBuffer, lost>>
        BY <2>0, <2>16, <3>1 DEF TestAddress, ReadAddress, EndAddress, LocalOK, listVars, tcpVars
      <4>2. QED
        BY <4>1, OwnRelease
    <3>2. CASE ~ EndAddress(m)
      BY <1>1, <2>16, <3>2 DEF TestAddress, ReadAddress, listVars, tcpVars
    <3>3. QED
      BY <3>1, <3>2
  <2>17. QED
    BY <1>3, <2>1, <2>2, <2>3, <2>4, <2>5, <2>6, <2>7, <2>8, <2>9, <2>10, <2>11, <2>12, <2>13,
       <2>14, <2>15, <2>16 DEF Step
<1>4. CASE UNCHANGED vars
  BY <1>1, <1>4 DEF vars, listVars, tcpVars, localVars
<1>5. QED
  BY <1>2, <1>3, <1>4 DEF Next

\* However many parties, managers and connections there are: no Buffer is given back
\* while it is used, no two threads write to one, and a Buffer that is out of the pool
\* and that nobody has was lost with a UDP packet of an unknown type (BufferPool, and
\* read of both managers).
THEOREM BuffersOwned == Spec => []BufferOwnership
<1>1. ASSUME OwnInv PROVE BufferOwnership
  <2>1. ASSUME NEW b \in Buffer
        PROVE  \/ /\ bufferQueue[b] = 1 /\ semaphores[b] = 0
                  /\ b \notin lost /\ \A o \in Holder : b \notin Has(o)
               \/ /\ bufferQueue[b] = 0 /\ semaphores[b] = 1
                  /\ b \notin lost
                  /\ \E o \in Holder : b \in Has(o) /\ \A p \in Holder \ {o} : b \notin Has(p)
               \/ /\ bufferQueue[b] = 0 /\ semaphores[b] = 1
                  /\ b \in lost /\ \A o \in Holder : b \notin Has(o)
    <3>1. /\ \A o \in Holder : o \in Place /\ o # Nowhere /\ Keeps(o) = Has(o)
          /\ Nowhere \in Place /\ Keeps(Nowhere) = lost
      BY DEF Place, Holder, Nowhere, Keeps
    <3>2. CASE b \in lost
      BY <1>1, <3>1, <3>2 DEF OwnInv, Owned, Exclusive, Accounted
    <3>3. CASE b \notin lost /\ \E o \in Holder : b \in Has(o)
      BY <1>1, <3>1, <3>3 DEF OwnInv, Owned, Exclusive, Accounted
    <3>4. CASE b \notin lost /\ \A o \in Holder : b \notin Has(o)
      <4>1. \A o \in Place : b \notin Keeps(o)
        BY <3>1, <3>4 DEF Place
      <4>2. QED
        BY <1>1, <3>4, <4>1 DEF OwnInv, Owned, Accounted
    <3>5. QED
      BY <3>2, <3>3, <3>4
  <2>2. QED
    BY <1>1, <2>1 DEF BufferOwnership, OwnInv, QueuesDistinct
<1>2. QED
  BY <1>1, InitType, NextType, InitOwned, NextOwned, PTL DEF Spec

(***************************************************************************)
(* What the tokenizers hold.                                               *)
(***************************************************************************)
\* The packets that failed reads have left, at most.
Left(e) == (MAX_PACKETS - 1) * e

LEMMA LeftGrows ==
  /\ Left(0) = 0
  /\ \A e \in Nat : Left(e) \in Nat
  /\ \A e, d \in Nat : d >= 1 => Left(e + d) >= Left(e) + MAX_PACKETS - 1
<1>0. MAX_PACKETS - 1 \in Nat
  BY RelayAssumption
<1>1. \A k, e, d \in Nat : d >= 1 => k * e \in Nat /\ k * (e + d) >= k * e + k
  <2> TAKE k, e, d \in Nat
  <2> HAVE d >= 1
  <2>1. k * (e + d) = k * e + k * d /\ k * e \in Nat /\ k * d \in Nat
    OBVIOUS
  <2>2. k * d >= k
    <3>1. d - 1 \in Nat /\ k * (d - 1) \in Nat
      OBVIOUS
    <3>2. k * d = k * (d - 1) + k
      OBVIOUS
    <3>3. QED
      BY <2>1, <3>1, <3>2
  <2>3. QED
    BY <2>1, <2>2
<1>2. \A e \in Nat : (MAX_PACKETS - 1) * e \in Nat
  BY <1>0, <1>1
<1>3. (MAX_PACKETS - 1) * 0 = 0
  BY <1>0
<1>4. ASSUME NEW e \in Nat, NEW d \in Nat, d >= 1
      PROVE  (MAX_PACKETS - 1) * (e + d) >= (MAX_PACKETS - 1) * e + (MAX_PACKETS - 1)
  BY <1>0, <1>1, <1>4
<1>5. \A e \in Nat : Left(e) + MAX_PACKETS - 1 = (MAX_PACKETS - 1) * e + (MAX_PACKETS - 1)
  BY <1>0, <1>2, RelayAssumption DEF Left
<1>6. QED
  BY <1>2, <1>3, <1>4, <1>5 DEF Left

\* Beside them, what the read in progress has found and not yet taken.
Reading(c) ==
  LET m == managerOf[c] IN
    IF channel[m] # c THEN 0
    ELSE IF at[m] = "tokenize" THEN found[m]
    ELSE IF at[m] = "get" THEN MAX_PACKETS
    ELSE MAX_PACKETS - 1

ChannelOK ==
  /\ \A m \in Manager : at[m] = "idle" => channel[m] = None
  /\ \A m \in UdpManager : channel[m] = None

LeftInv ==
  /\ ChannelOK
  /\ \A c \in Connection : Len(ownBufferQueue[c]) <= Left(errorCountMap[c]) + Reading(c)

LEMMA LeftStep ==
  ASSUME NEW e \in Nat, NEW d \in Nat, d >= 1
  PROVE  Left(e + d) >= Left(e) + MAX_PACKETS - 1 /\ Left(e + d) \in Nat /\ Left(e) \in Nat
<1>1. e + d \in Nat
  OBVIOUS
<1>2. QED
  BY <1>1, LeftGrows

LEMMA InitLeft == Init => LeftInv
<1> SUFFICES ASSUME Init PROVE LeftInv
  OBVIOUS
<1>1. \A c \in Connection : Reading(c) = 0
  BY RelayAssumption DEF Init, Reading, Manager
<1>2. QED
  BY <1>1, LeftGrows, EmptyType DEF Init, LeftInv, ChannelOK, Manager

\* A step that leaves the connections' queues and errors alone, and every manager
\* either where it was, or dead or past the check it was at.
LEMMA LeftKept ==
  ASSUME TypeInv, LeftInv, UNCHANGED <<ownBufferQueue, errorCountMap>>,
         ChannelOK',
         \A c \in Connection : Reading(c)' \in Nat /\ Reading(c) \in Nat /\ Reading(c)' >= Reading(c)
  PROVE  LeftInv'
<1>1. \A c \in Connection : /\ Len(ownBufferQueue[c]) \in Nat /\ Left(errorCountMap[c]) \in Nat
                            /\ ownBufferQueue'[c] = ownBufferQueue[c]
                            /\ errorCountMap'[c] = errorCountMap[c]
  BY LeftGrows DEF TypeInv, TypeOK
<1>2. \A c \in Connection : Len(ownBufferQueue'[c]) <= Left(errorCountMap'[c]) + Reading(c)'
  BY <1>1 DEF LeftInv
<1>3. QED
  BY <1>2 DEF LeftInv, Left

LEMMA ReadingType ==
  ASSUME TypeInv
  PROVE  \A c \in Connection : Reading(c) \in 0..MAX_PACKETS
BY RelayAssumption DEF TypeInv, TypeOK, Reading, Manager

LEMMA LeftFail ==
  ASSUME TypeInv, LeftInv, NEW m \in TcpManager, NEW error \in Nat, error >= 1, FailTcp(m, error),
         \/ at[m] = "tokenize" /\ found[m] = 0
         \/ at[m] = "check"
  PROVE  LeftInv'
<1>p. PICK c \in Connection : c = channel[m]
  BY DEF TypeInv, LocalOK, Manager
<1> DEFINE errors == errorCountMap[c] + error
<1>0. /\ m \in Manager /\ c \in Connection /\ managerOf[c] = m /\ None \notin Connection
      /\ MAX_PACKETS \in Nat \ {0} /\ ERROR_COUNT_MAXIMUM \in Nat
      /\ ownBufferQueue \in [Connection -> Seq(Buffer)]
      /\ errorCountMap \in [Connection -> 0..ERROR_COUNT_MAXIMUM]
      /\ channel \in [Manager -> Connection \cup {None}] /\ at \in [Manager -> Labels]
  BY <1>p, RelayAssumption DEF TypeInv, TypeOK, LocalOK, Manager
<1>1. /\ channel' = [channel EXCEPT ![m] = None] /\ at' = [at EXCEPT ![m] = "idle"]
      /\ UNCHANGED found
  BY DEF FailTcp, Goto
<1>2. Len(ownBufferQueue[c]) <= Left(errorCountMap[c]) + MAX_PACKETS - 1
  <2>1. Reading(c) \in Nat /\ Reading(c) <= MAX_PACKETS - 1
    BY <1>0, <1>p DEF Reading
  <2>2. Left(errorCountMap[c]) \in Nat /\ Len(ownBufferQueue[c]) \in Nat
    BY <1>0, LeftGrows
  <2>3. Len(ownBufferQueue[c]) <= Left(errorCountMap[c]) + Reading(c)
    BY <1>0 DEF LeftInv
  <2>4. QED
    BY <1>0, <2>1, <2>2, <2>3
<1>a. channel[m] = c /\ channel'[m] = None /\ c # None
  BY <1>0, <1>1, <1>p
<1>3. ASSUME NEW e \in Connection, e # c PROVE Reading(e)' = Reading(e)
  <2>1. e # None /\ managerOf[e] \in Manager
    BY <1>0, RelayAssumption DEF Manager
  <2>2. CASE managerOf[e] = m
    BY <1>3, <1>a, <2>1, <2>2 DEF Reading
  <2>3. CASE managerOf[e] # m
    <3>1. /\ channel'[managerOf[e]] = channel[managerOf[e]]
          /\ at'[managerOf[e]] = at[managerOf[e]]
          /\ found' = found
      BY <1>0, <1>1, <2>1, <2>3
    <3>2. QED
      BY <3>1 DEF Reading
  <2>4. QED
    BY <2>2, <2>3
<1>4. Reading(c)' = 0
  BY <1>0, <1>a DEF Reading
<1>5. /\ Len(ownBufferQueue'[c]) <= Left(errorCountMap'[c])
      /\ \A e \in Connection : e # c => /\ ownBufferQueue'[e] = ownBufferQueue[e]
                                        /\ errorCountMap'[e] = errorCountMap[e]
  <2>1. CASE errors > ERROR_COUNT_MAXIMUM
    <3>1. CloseAnd(c, {buffer[m]})
      BY <1>p, <2>1 DEF FailTcp
    <3>2. QED
      BY <1>0, <3>1, LeftGrows, EmptyType DEF CloseAnd
  <2>2. CASE ~(errors > ERROR_COUNT_MAXIMUM)
    <3>1. errorCountMap' = [errorCountMap EXCEPT ![c] = errors] /\ UNCHANGED ownBufferQueue
      BY <1>p, <2>2 DEF FailTcp
    <3>2. errorCountMap[c] \in Nat /\ Len(ownBufferQueue[c]) \in Nat
      BY <1>0
    <3>3. /\ Left(errors) >= Left(errorCountMap[c]) + MAX_PACKETS - 1
          /\ Left(errors) \in Nat /\ Left(errorCountMap[c]) \in Nat
      BY <3>2, LeftStep
    <3> HIDE DEF errors
    <3>5. Len(ownBufferQueue[c]) <= Left(errors)
      BY <1>0, <1>2, <3>2, <3>3
    <3>6. QED
      BY <1>0, <3>1, <3>5
  <2>3. QED
    BY <2>1, <2>2
<1>6. \A e \in Connection : Len(ownBufferQueue'[e]) <= Left(errorCountMap'[e]) + Reading(e)'
  <2> TAKE e \in Connection
  <2>1. CASE e = c
    <3>1. errorCountMap'[c] \in Nat
      <4>1. TypeOK'
        BY <1>0, FailType DEF TypeInv, Manager
      <4>2. QED
        BY <1>0, <4>1 DEF TypeOK
    <3>2. Left(errorCountMap'[c]) \in Nat
      BY <3>1, LeftGrows
    <3>3. Len(ownBufferQueue'[e]) <= Left(errorCountMap'[e])
      BY <1>5, <2>1
    <3>4. Left(errorCountMap'[e]) + Reading(e)' = Left(errorCountMap'[e])
      BY <1>4, <2>1, <3>2
    <3>5. QED
      BY <3>3, <3>4
  <2>2. CASE e # c
    BY <1>3, <1>5, <2>2 DEF LeftInv
  <2>3. QED
    BY <2>1, <2>2
<1>7. ChannelOK'
  BY <1>0, <1>1 DEF LeftInv, ChannelOK, Manager
<1>8. QED
  BY <1>6, <1>7 DEF LeftInv, Left

LEMMA LeftFindPacket ==
  ASSUME TypeInv, LeftInv, NEW m \in Manager, FindPacket(m)
  PROVE  LeftInv'
<1>p. PICK c \in Connection : c = channel[m]
  BY DEF TypeInv, LocalOK, FindPacket
<1>0. /\ c \in Connection /\ managerOf[c] = m /\ at[m] = "tokenize"
      /\ ownBufferQueue \in [Connection -> Seq(Buffer)] /\ found \in [Manager -> 0..MAX_PACKETS]
      /\ errorCountMap \in [Connection -> 0..ERROR_COUNT_MAXIMUM]
      /\ MAX_PACKETS \in Nat
  BY <1>p, RelayAssumption DEF TypeInv, TypeOK, LocalOK, FindPacket
<1>1. PICK b \in Buffer : ownBufferQueue' = [ownBufferQueue EXCEPT ![c] = Append(@, b)]
  BY <1>p DEF FindPacket
<1>2. /\ found' = [found EXCEPT ![m] = @ + 1] /\ UNCHANGED <<errorCountMap, at, channel>>
  BY DEF FindPacket
<1>3. Reading(c) = found[m] /\ Reading(c)' = found[m] + 1
  BY <1>0, <1>2, <1>p DEF Reading
<1>4. Len(ownBufferQueue'[c]) = Len(ownBufferQueue[c]) + 1
  BY <1>0, <1>1, AppendType
<1>5. Len(ownBufferQueue[c]) \in Nat /\ Left(errorCountMap[c]) \in Nat /\ found[m] \in Nat
  BY <1>0, LeftGrows
<1>6. Len(ownBufferQueue[c]) <= Left(errorCountMap[c]) + found[m]
  BY <1>0, <1>3 DEF LeftInv
<1>7. Len(ownBufferQueue'[c]) <= Left(errorCountMap'[c]) + Reading(c)'
  <2>1. Len(ownBufferQueue[c]) + 1 <= Left(errorCountMap[c]) + (found[m] + 1)
    BY <1>5, <1>6
  <2>2. QED
    BY <1>2, <1>3, <1>4, <2>1
<1>8. ASSUME NEW e \in Connection, e # c
      PROVE  Len(ownBufferQueue'[e]) <= Left(errorCountMap'[e]) + Reading(e)'
  <2>1. ownBufferQueue'[e] = ownBufferQueue[e]
    BY <1>0, <1>1, <1>8
  <2>2. Reading(e)' = Reading(e)
    <3>1. CASE managerOf[e] = m
      BY <1>0, <1>2, <1>p, <1>8, <3>1 DEF Reading
    <3>2. CASE managerOf[e] # m
      <4>1. managerOf[e] \in Manager
        BY RelayAssumption DEF Manager
      <4>2. found'[managerOf[e]] = found[managerOf[e]]
        BY <1>0, <1>2, <3>2, <4>1
      <4>3. QED
        BY <1>2, <4>2 DEF Reading
    <3>3. QED
      BY <3>1, <3>2
  <2>3. QED
    BY <1>2, <2>1, <2>2 DEF LeftInv
<1>9. QED
  BY <1>2, <1>7, <1>8 DEF LeftInv, ChannelOK

LEMMA LeftGetPacket ==
  ASSUME TypeInv, LeftInv, NEW m \in Manager, GetPacket(m)
  PROVE  LeftInv'
<1>p. PICK c \in Connection : c = channel[m]
  BY DEF TypeInv, LocalOK, GetPacket
<1>0. /\ c \in Connection /\ managerOf[c] = m /\ at[m] = "get" /\ None \notin Connection
      /\ ownBufferQueue \in [Connection -> Seq(Buffer)]
      /\ errorCountMap \in [Connection -> 0..ERROR_COUNT_MAXIMUM]
      /\ channel \in [Manager -> Connection \cup {None}] /\ at \in [Manager -> Labels]
      /\ MAX_PACKETS \in Nat
  BY <1>p, RelayAssumption DEF TypeInv, TypeOK, LocalOK, GetPacket
<1>1. UNCHANGED <<errorCountMap, found>>
  BY DEF GetPacket
<1>2. Len(ownBufferQueue[c]) \in Nat /\ Left(errorCountMap[c]) \in Nat
  BY <1>0, LeftGrows
<1>3. Len(ownBufferQueue[c]) <= Left(errorCountMap[c]) + MAX_PACKETS
  BY <1>0, <1>p DEF LeftInv, Reading
<1>4. /\ \A k \in Manager : k # m => channel'[k] = channel[k] /\ at'[k] = at[k]
      /\ channel'[m] \in {c, None}
      /\ \A e \in Connection : e # c => ownBufferQueue'[e] = ownBufferQueue[e]
      /\ at'[m] = "idle" => channel'[m] = None
      /\ Len(ownBufferQueue'[c]) <= Left(errorCountMap[c]) + Reading(c)'
  <2>1. CASE ownBufferQueue[c] = << >>
    <3>1. /\ channel' = [channel EXCEPT ![m] = None] /\ at' = [at EXCEPT ![m] = "idle"]
          /\ UNCHANGED ownBufferQueue
      BY <1>p, <2>1 DEF GetPacket, Goto
    <3>2. Reading(c)' = 0
      BY <1>0, <1>p, <3>1 DEF Reading
    <3>3. Len(ownBufferQueue'[c]) = 0
      BY <2>1, <3>1, EmptyType
    <3>4. QED
      BY <1>0, <1>2, <3>1, <3>2, <3>3
  <2>2. CASE ownBufferQueue[c] # << >>
    <3>1. /\ UNCHANGED channel /\ at' = [at EXCEPT ![m] = "check"]
          /\ ownBufferQueue' = [ownBufferQueue EXCEPT ![c] = Tail(ownBufferQueue[c])]
      BY <1>p, <2>2 DEF GetPacket, Goto
    <3>2. Reading(c)' = MAX_PACKETS - 1
      BY <1>0, <1>p, <3>1 DEF Reading
    <3>3. Len(ownBufferQueue'[c]) = Len(ownBufferQueue[c]) - 1
      BY <1>0, <2>2, <3>1, HeadTailType
    <3>4. channel[m] = c
      BY <1>p
    <3>5. Len(ownBufferQueue'[c]) <= Left(errorCountMap[c]) + Reading(c)'
      BY <1>0, <1>2, <1>3, <3>2, <3>3
    <3>6. at'[m] # "idle"
      BY <1>0, <3>1 DEF GetPacket
    <3>7. /\ \A k \in Manager : k # m => channel'[k] = channel[k] /\ at'[k] = at[k]
          /\ channel'[m] \in {c, None}
          /\ \A e \in Connection : e # c => ownBufferQueue'[e] = ownBufferQueue[e]
      BY <1>0, <3>1, <3>4
    <3>8. QED
      BY <3>5, <3>6, <3>7
  <2>3. QED
    BY <2>1, <2>2
<1>5. ASSUME NEW e \in Connection, e # c
      PROVE  Len(ownBufferQueue'[e]) <= Left(errorCountMap'[e]) + Reading(e)'
  <2>1. Reading(e)' = Reading(e)
    <3>1. CASE managerOf[e] = m
      BY <1>0, <1>4, <1>5, <1>p, <3>1 DEF Reading
    <3>2. CASE managerOf[e] # m
      <4>1. managerOf[e] \in Manager
        BY RelayAssumption DEF Manager
      <4>2. QED
        BY <1>1, <1>4, <3>2, <4>1 DEF Reading
    <3>3. QED
      BY <3>1, <3>2
  <2>2. QED
    BY <1>1, <1>4, <1>5, <2>1 DEF LeftInv
<1>6. ChannelOK'
  BY <1>0, <1>4, RelayAssumption DEF LeftInv, ChannelOK, Manager
<1>7. QED
  BY <1>1, <1>4, <1>5, <1>6 DEF LeftInv

\* The read's own steps that neither take a packet nor end it.
LEMMA LeftSame ==
  ASSUME TypeInv, LeftInv, NEW m \in Manager, NEW l \in Labels, Goto(m, l),
         UNCHANGED <<ownBufferQueue, errorCountMap, channel, found>>,
         \/ m \in UdpManager
         \/ l \notin {"idle", "tokenize"} /\ at[m] \notin {"tokenize", "get"}
         \/ l = "get" /\ at[m] = "tokenize"
         \/ l = "exhausted" /\ (at[m] = "idle" \/ (at[m] = "tokenize" /\ found[m] < MAX_PACKETS))
  PROVE  LeftInv'
<1>0. /\ at' = [at EXCEPT ![m] = l] /\ at \in [Manager -> Labels]
      /\ found \in [Manager -> 0..MAX_PACKETS] /\ MAX_PACKETS \in Nat \ {0}
      /\ TcpManager \cap UdpManager = {} /\ \A c \in Connection : managerOf[c] \in TcpManager
      /\ None \notin Connection
  BY RelayAssumption DEF Goto, TypeInv, TypeOK
<1>1. ChannelOK'
  BY <1>0 DEF LeftInv, ChannelOK
<1>2. \A c \in Connection : Reading(c)' \in Nat /\ Reading(c)' >= Reading(c) /\ Reading(c) \in Nat
  <2> TAKE c \in Connection
  <2>1. managerOf[c] \in Manager /\ managerOf[c] \notin UdpManager
    BY <1>0 DEF Manager
  <2>2. found[managerOf[c]] \in 0..MAX_PACKETS /\ found' = found /\ channel' = channel
    BY <1>0, <2>1
  <2>3. CASE managerOf[c] = m
    BY <1>0, <2>1, <2>2, <2>3 DEF Reading, LeftInv, ChannelOK
  <2>4. CASE managerOf[c] # m
    <3>1. at'[managerOf[c]] = at[managerOf[c]]
      BY <1>0, <2>1, <2>4
    <3>2. QED
      BY <1>0, <2>2, <3>1 DEF Reading
  <2>5. QED
    BY <2>3, <2>4
<1>3. QED
  BY <1>1, <1>2, LeftKept

LEMMA LeftAllocate ==
  ASSUME TypeInv, LeftInv, NEW m \in Manager, AllocateTcp(m)
  PROVE  LeftInv'
<1>0. /\ m \in TcpManager /\ at[m] = "idle" /\ at' = [at EXCEPT ![m] = "tokenize"]
      /\ found' = [found EXCEPT ![m] = 0] /\ UNCHANGED <<ownBufferQueue, errorCountMap>>
      /\ channel \in [Manager -> Connection \cup {None}] /\ at \in [Manager -> Labels]
      /\ found \in [Manager -> 0..MAX_PACKETS] /\ None \notin Connection
  BY RelayAssumption DEF AllocateTcp, Goto, TypeInv, TypeOK, tcpVars
<1>1. PICK d \in Connection : managerOf[d] = m /\ channel' = [channel EXCEPT ![m] = d]
  BY DEF AllocateTcp
<1>2. \A c \in Connection : Reading(c)' \in Nat /\ Reading(c)' >= Reading(c) /\ Reading(c) \in Nat
  <2> TAKE c \in Connection
  <2>1. managerOf[c] \in Manager /\ Reading(c) \in Nat
    BY RelayAssumption, ReadingType DEF Manager
  <2>2. CASE managerOf[c] = m
    <3>1. channel[m] = None
      BY <1>0 DEF LeftInv, ChannelOK
    <3>2. Reading(c) = 0
      BY <1>0, <2>2, <3>1 DEF Reading
    <3>3. Reading(c)' = 0
      BY <1>0, <2>1, <2>2 DEF Reading
    <3>4. QED
      BY <3>2, <3>3
  <2>3. CASE managerOf[c] # m
    <3>1. /\ at'[managerOf[c]] = at[managerOf[c]] /\ found'[managerOf[c]] = found[managerOf[c]]
          /\ channel'[managerOf[c]] = channel[managerOf[c]]
      BY <1>0, <1>1, <2>1, <2>3
    <3>2. Reading(c)' = Reading(c)
      BY <3>1 DEF Reading
    <3>3. QED
      BY <2>1, <3>2
  <2>4. QED
    BY <2>2, <2>3
<1>3. ChannelOK'
  BY <1>0, <1>1, RelayAssumption DEF LeftInv, ChannelOK
<1>4. QED
  BY <1>0, <1>2, <1>3, LeftKept

LEMMA LeftTimeOut ==
  ASSUME TypeInv, LeftInv, NEW c \in Connection, CloseAnd(c, {}), UNCHANGED localVars
  PROVE  LeftInv'
<1>0. /\ ownBufferQueue' = [ownBufferQueue EXCEPT ![c] = << >>]
      /\ errorCountMap' = [errorCountMap EXCEPT ![c] = 0]
      /\ ownBufferQueue \in [Connection -> Seq(Buffer)]
      /\ errorCountMap \in [Connection -> 0..ERROR_COUNT_MAXIMUM]
  BY DEF CloseAnd, TypeInv, TypeOK
<1>1. \A e \in Connection : Reading(e)' = Reading(e) /\ Reading(e) \in Nat
  BY ReadingType DEF localVars, Reading
<1>2. ASSUME NEW e \in Connection
      PROVE  Len(ownBufferQueue'[e]) <= Left(errorCountMap'[e]) + Reading(e)'
  <2>1. CASE e = c
    <3>1. Len(ownBufferQueue'[e]) = 0 /\ Left(errorCountMap'[e]) = 0
      BY <1>0, <2>1, EmptyType, LeftGrows
    <3>2. QED
      BY <1>1, <3>1
  <2>2. CASE e # c
    <3>1. ownBufferQueue'[e] = ownBufferQueue[e] /\ errorCountMap'[e] = errorCountMap[e]
      BY <1>0, <2>2
    <3>2. QED
      BY <1>1, <3>1 DEF LeftInv
  <2>3. QED
    BY <2>1, <2>2
<1>3. QED
  BY <1>2 DEF LeftInv, ChannelOK, localVars

\* The steps that touch neither a connection nor a manager's reading.
LEMMA LeftUnchanged ==
  ASSUME TypeInv, LeftInv,
         UNCHANGED <<ownBufferQueue, errorCountMap, channel, found, at>>
  PROVE  LeftInv'
BY DEF LeftInv, ChannelOK, Reading

LEMMA StepLeft ==
  ASSUME TypeInv, LeftInv, NEW m \in Manager, Step(m)
  PROVE  LeftInv'
<1>0. /\ m \in TcpManager \/ m \in UdpManager
      /\ ERROR \in Nat /\ WARNING \in Nat /\ SEVERE \in Nat
      /\ ERROR >= 1 /\ WARNING >= 1 /\ SEVERE >= 1
  BY RelayAssumption DEF Manager
<1>t. at[m] \in {"tokenize", "get"} => m \in TcpManager
  BY DEF TypeInv, LocalOK
<1> USE DEF Labels
<1>1. CASE AllocateUdp(m)
  <2>1. m \in UdpManager /\ Goto(m, "check")
        /\ UNCHANGED <<ownBufferQueue, errorCountMap, channel, found>>
    BY <1>1 DEF AllocateUdp, tcpVars
  <2>2. QED
    BY <2>1, LeftSame
<1>2. CASE AllocateTcp(m)
  BY <1>2, LeftAllocate
<1>3. CASE Exhausted(m)
  <2>1. /\ Goto(m, "exhausted") /\ UNCHANGED <<ownBufferQueue, errorCountMap, channel, found>>
        /\ at[m] = "idle" \/ (at[m] = "tokenize" /\ found[m] < MAX_PACKETS)
    BY <1>3 DEF Exhausted, tcpVars
  <2>2. QED
    BY <2>1, LeftSame
<1>4. CASE FindPacket(m)
  BY <1>4, LeftFindPacket
<1>5. CASE EndPut(m)
  <2>1. /\ Goto(m, "get") /\ UNCHANGED <<ownBufferQueue, errorCountMap, channel, found>>
        /\ at[m] = "tokenize"
    BY <1>5 DEF EndPut, tcpVars
  <2>2. QED
    BY <2>1, LeftSame
<1>6. CASE GetPacket(m)
  BY <1>6, LeftGetPacket
<1>7. CASE ReadFails(m)
  BY <1>0, <1>t, <1>7, LeftFail DEF ReadFails
<1>8. ASSUME NEW c \in Connection, TimeOut(m, c) PROVE LeftInv'
  BY <1>8, LeftTimeOut DEF TimeOut
<1>9. CASE DropUdp(m)
  <2>1. m \in UdpManager /\ Goto(m, "idle")
        /\ UNCHANGED <<ownBufferQueue, errorCountMap, channel, found>>
    BY <1>9 DEF DropUdp, tcpVars
  <2>2. QED
    BY <2>1, LeftSame
<1>10. CASE WrongLength(m)
  BY <1>0, <1>10, LeftFail DEF WrongLength
<1>11. CASE NotActive(m)
  BY <1>0, <1>11, LeftFail DEF NotActive
<1>12. ASSUME NEW s \in Session, NoteAddress(m, s) PROVE LeftInv'
  <2>1. /\ Goto(m, "testAddress") /\ UNCHANGED <<ownBufferQueue, errorCountMap, channel, found>>
        /\ at[m] = "check"
    BY <1>12 DEF NoteAddress, tcpVars
  <2>2. QED
    BY <2>1, LeftSame
<1>13. ASSUME NEW s \in Session, NEW n \in SeqNumber, Accepted(m, s, n) PROVE LeftInv'
  <2>1. /\ Goto(m, "put") /\ UNCHANGED <<ownBufferQueue, errorCountMap, channel, found>>
        /\ at[m] = "check"
    BY <1>13 DEF Accepted, tcpVars
  <2>2. QED
    BY <2>1, LeftSame
<1>14. CASE PutVoiceBuffer(m)
  <2>1. /\ Goto(m, "testCalling") /\ UNCHANGED <<ownBufferQueue, errorCountMap, channel, found>>
        /\ at[m] = "put"
    BY <1>14 DEF PutVoiceBuffer, tcpVars
  <2>2. QED
    BY <2>1, LeftSame
<1>15. ASSUME at[m] \in {"testCalling", "poll", "send", "testAddress", "readAddress"}, ReadOn(m),
              UNCHANGED <<ownBufferQueue, errorCountMap, channel, found>>
       PROVE  LeftInv'
  <2>1. CASE m \in TcpManager
    <3>1. Goto(m, "get")
      BY <1>15, <2>1 DEF ReadOn
    <3>2. QED
      BY <1>15, <3>1, LeftSame
  <2>2. CASE m \notin TcpManager
    <3>1. Goto(m, "idle") /\ m \in UdpManager
      BY <1>0, <1>15, <2>2 DEF ReadOn
    <3>2. QED
      BY <1>15, <3>1, LeftSame
  <2>3. QED
    BY <2>1, <2>2
<1>16. CASE TestCalling(m)
  <2>1. /\ ReadOn(m) \/ Goto(m, "readCalling")
        /\ UNCHANGED <<ownBufferQueue, errorCountMap, channel, found>>
        /\ at[m] = "testCalling"
    BY <1>16 DEF TestCalling, tcpVars
  <2>2. QED
    BY <1>15, <2>1, LeftSame
<1>17. CASE ReadCalling(m)
  <2>1. /\ Goto(m, "nullCall") \/ Goto(m, "poll")
        /\ UNCHANGED <<ownBufferQueue, errorCountMap, channel, found>>
        /\ at[m] = "readCalling"
    BY <1>17 DEF ReadCalling, tcpVars
  <2>2. QED
    BY <2>1, LeftSame
<1>18. CASE PollVoice(m)
  <2>1. /\ ReadOn(m) \/ Goto(m, "send")
        /\ UNCHANGED <<ownBufferQueue, errorCountMap, channel, found>>
        /\ at[m] = "poll"
    BY <1>18 DEF PollVoice, tcpVars
  <2>2. QED
    BY <1>15, <2>1, LeftSame
<1>19. CASE Send(m)
  <2>1. /\ Goto(m, "testCalling") /\ UNCHANGED <<ownBufferQueue, errorCountMap, channel, found>>
        /\ at[m] = "send"
    BY <1>19 DEF Send, tcpVars
  <2>2. QED
    BY <2>1, LeftSame
<1>20. CASE ThrowAway(m)
  BY <1>15, <1>20 DEF ThrowAway, tcpVars
<1>21. CASE TestAddress(m) \/ ReadAddress(m)
  <2>1. /\ ReadOn(m) \/ Goto(m, "readAddress") \/ Goto(m, "nullCall")
        /\ UNCHANGED <<ownBufferQueue, errorCountMap, channel, found>>
        /\ at[m] \in {"testAddress", "readAddress"}
    BY <1>21 DEF TestAddress, ReadAddress, EndAddress, tcpVars
  <2>2. QED
    BY <1>15, <2>1, LeftSame
<1>22. CASE TooShort(m) \/ DiscardTcp(m)
  <2>1. /\ Goto(m, "tooShort") \/ Goto(m, "get")
        /\ UNCHANGED <<ownBufferQueue, errorCountMap, channel, found>>
        /\ at[m] = "check"
    BY <1>22 DEF TooShort, DiscardTcp, tcpVars
  <2>2. QED
    BY <2>1, LeftSame
<1>23. CASE LoseUdp(m)
  <2>1. m \in UdpManager /\ Goto(m, "idle")
        /\ UNCHANGED <<ownBufferQueue, errorCountMap, channel, found>>
    BY <1>23 DEF LoseUdp, tcpVars
  <2>2. QED
    BY <2>1, LeftSame
<1>24. QED
  BY <1>1, <1>2, <1>3, <1>4, <1>5, <1>6, <1>7, <1>8, <1>9, <1>10, <1>11, <1>12, <1>13, <1>14,
     <1>16, <1>17, <1>18, <1>19, <1>20, <1>21, <1>22, <1>23 DEF Step

LEMMA NextLeft == TypeInv /\ LeftInv /\ [Next]_vars => LeftInv'
<1> SUFFICES ASSUME TypeInv, LeftInv, [Next]_vars PROVE LeftInv'
  OBVIOUS
<1>1. CASE Environment
  <2>1. UNCHANGED <<tcpVars, localVars>>
    BY <1>1 DEF Environment, SetCallingSession, registerSession, unregisterSession, reset
  <2>2. QED
    BY <2>1, LeftUnchanged DEF tcpVars, localVars
<1>2. ASSUME NEW m \in Manager, Step(m) PROVE LeftInv'
  BY <1>2, StepLeft
<1>3. CASE UNCHANGED vars
  BY <1>3, LeftUnchanged DEF vars, tcpVars, localVars
<1>4. QED
  BY <1>1, <1>2, <1>3 DEF Next

\* A read that fails leaves packets in the tokenizer to the next one: they pile up
\* no further than the error count allows before run closes the connection
\* (VoiceTcpManager.read, addErrorCount).
THEOREM LeftoversBounded == Spec => []LeftoverBounded
<1>1. Spec => []TypeInv
  <2>1. TypeInv /\ [Next]_vars => TypeInv'
    BY NextType
  <2>2. QED
    BY InitType, <2>1, PTL DEF Spec
<1>2. TypeInv /\ LeftInv => LeftoverBounded
  <2> SUFFICES ASSUME TypeInv, LeftInv, NEW c \in Connection
               PROVE  Len(ownBufferQueue[c]) <= Left(errorCountMap[c]) + MAX_PACKETS
    BY DEF LeftoverBounded, Left
  <2>1. /\ Len(ownBufferQueue[c]) \in Nat /\ Left(errorCountMap[c]) \in Nat
        /\ Reading(c) \in 0..MAX_PACKETS
        /\ Len(ownBufferQueue[c]) <= Left(errorCountMap[c]) + Reading(c)
    <3>1. errorCountMap[c] \in Nat /\ ownBufferQueue[c] \in Seq(Buffer)
      BY DEF TypeInv, TypeOK
    <3>2. Reading(c) \in 0..MAX_PACKETS
      BY ReadingType
    <3>3. Len(ownBufferQueue[c]) <= Left(errorCountMap[c]) + Reading(c)
      BY DEF LeftInv
    <3>4. Left(errorCountMap[c]) \in Nat
      BY <3>1, LeftGrows
    <3>5. Len(ownBufferQueue[c]) \in Nat
      BY <3>1
    <3>6. QED
      BY <3>2, <3>3, <3>4, <3>5
  <2>2. MAX_PACKETS \in Nat
    BY RelayAssumption
  <2>3. Reading(c) \in Nat /\ Reading(c) <= MAX_PACKETS
    BY <2>1, <2>2
  <2>4. QED
    BY <2>1, <2>2, <2>3
<1>3. Spec => []LeftInv
  BY <1>1, InitLeft, NextLeft, PTL DEF Spec
<1>4. QED
  BY <1>1, <1>2, <1>3, PTL

(***************************************************************************)
(* The sequence numbers.  A list remembers in offeredHashMap all that were *)
(* put into it, the ones no longer in it too.                              *)
(***************************************************************************)
Once(q, num, offered, taken) ==
  /\ \A i \in DOMAIN q : num[q[i]] \in offered /\ num[q[i]] \notin taken
  /\ \A i, j \in DOMAIN q : i # j => num[q[i]] # num[q[j]]
  /\ taken \subseteq offered

OnceInv ==
  \A s \in Session : Once(voiceBufferQueue[s], number, offeredHashMap[s], polled[s])

LEMMA OnceEmpty == \A num : Once(<< >>, num, {}, {})
BY DEF Once

LEMMA OnceAppend ==
  ASSUME NEW q \in Seq(Buffer), NEW b \in Buffer, NEW num, NEW offered, NEW taken,
         Once(q, num, offered, taken), num[b] \notin offered
  PROVE  Once(Append(q, b), num, offered \cup {num[b]}, taken)
<1>1. /\ DOMAIN Append(q, b) = DOMAIN q \cup {Len(q) + 1}
      /\ Append(q, b)[Len(q) + 1] = b
      /\ \A i \in DOMAIN q : Append(q, b)[i] = q[i]
  OBVIOUS
<1> HIDE DEF Once
<1>2. /\ \A i \in DOMAIN q : num[q[i]] \in offered /\ num[q[i]] \notin taken
      /\ \A i, j \in DOMAIN q : i # j => num[q[i]] # num[q[j]]
      /\ taken \subseteq offered
  BY DEF Once
<1>3. \A i \in DOMAIN Append(q, b) : \/ i \in DOMAIN q /\ Append(q, b)[i] = q[i]
                                     \/ i = Len(q) + 1 /\ Append(q, b)[i] = b
  BY <1>1
<1>4. \A i \in DOMAIN Append(q, b) : /\ num[Append(q, b)[i]] \in offered \cup {num[b]}
                                     /\ num[Append(q, b)[i]] \notin taken
  BY <1>2, <1>3
<1>5. \A i, j \in DOMAIN Append(q, b) : i # j => num[Append(q, b)[i]] # num[Append(q, b)[j]]
  BY <1>2, <1>3
<1>6. QED
  BY <1>2, <1>4, <1>5 DEF Once

\* The first Buffer of a list, taken from it, whether its number is noted or not.
LEMMA OnceTail ==
  ASSUME NEW q \in Seq(Buffer), q # << >>, NEW num, NEW offered, NEW taken,
         Once(q, num, offered, taken)
  PROVE  /\ Once(Tail(q), num, offered, taken)
         /\ Once(Tail(q), num, offered, taken \cup {num[Head(q)]})
<1>1. /\ Len(q) \in Nat /\ Len(q) >= 1 /\ DOMAIN q = 1..Len(q) /\ Head(q) = q[1]
      /\ DOMAIN Tail(q) = 1..(Len(q) - 1)
      /\ \A i \in DOMAIN Tail(q) : Tail(q)[i] = q[i + 1]
  OBVIOUS
<1>2. /\ \A i \in DOMAIN q : num[q[i]] \in offered /\ num[q[i]] \notin taken
      /\ \A i, j \in DOMAIN q : i # j => num[q[i]] # num[q[j]]
      /\ taken \subseteq offered
  BY DEF Once
<1>3. 1 \in DOMAIN q /\ num[Head(q)] \in offered
  BY <1>1, <1>2
<1>4. \A i \in DOMAIN Tail(q) : i + 1 \in DOMAIN q /\ i + 1 # 1 /\ Tail(q)[i] = q[i + 1]
  BY <1>1
<1>5. \A i \in DOMAIN Tail(q) : /\ num[Tail(q)[i]] \in offered /\ num[Tail(q)[i]] \notin taken
                                /\ num[Tail(q)[i]] # num[Head(q)]
  BY <1>1, <1>2, <1>3, <1>4
<1>6. \A i, j \in DOMAIN Tail(q) : i # j => num[Tail(q)[i]] # num[Tail(q)[j]]
  <2> TAKE i, j \in DOMAIN Tail(q)
  <2> HAVE i # j
  <2>1. i + 1 # j + 1
    BY <1>1
  <2>2. QED
    BY <1>2, <1>4, <2>1
<1>7. QED
  BY <1>2, <1>3, <1>5, <1>6 DEF Once

LEMMA OnceKept ==
  ASSUME OnceInv, UNCHANGED <<voiceBufferQueue, offeredHashMap, polled>>,
         \A s \in Session : \A b \in BuffersIn(voiceBufferQueue[s]) : number'[b] = number[b]
  PROVE  OnceInv'
<1>1. \A s \in Session : \A i \in DOMAIN voiceBufferQueue[s] :
        number'[voiceBufferQueue[s][i]] = number[voiceBufferQueue[s][i]]
  BY DEF BuffersIn
<1>2. QED
  BY <1>1 DEF OnceInv, Once

LEMMA OncePut ==
  ASSUME TypeInv, OnceInv, NEW m \in Manager, PutVoiceBuffer(m)
  PROVE  OnceInv'
<1>p. PICK s \in Session, b \in Buffer : s = session[m] /\ b = buffer[m]
  BY DEF TypeInv, LocalOK, PutVoiceBuffer
<1>0. /\ voiceBufferQueue \in [Session -> Seq(Buffer)]
      /\ offeredHashMap \in [Session -> SUBSET SeqNumber]
      /\ offer(s, b) /\ UNCHANGED <<number, polled>>
  BY <1>p DEF TypeInv, TypeOK, PutVoiceBuffer
<1>1. CASE number[b] \in offeredHashMap[s]
  BY <1>0, <1>1, OnceKept DEF offer
<1>2. CASE number[b] \notin offeredHashMap[s]
  <2> DEFINE queue == Append(voiceBufferQueue[s], b)
             offered == offeredHashMap[s] \cup {number[b]}
  <2>1. Enlist(s, b)
    BY <1>0, <1>2 DEF offer
  <2>2. Once(queue, number, offered, polled[s])
    BY <1>0, <1>2, OnceAppend DEF OnceInv
  <2>3. queue \in Seq(Buffer) /\ queue # << >>
    BY <1>0, AppendType
  <2>4. Once(Tail(queue), number, offered, polled[s])
    BY <2>2, <2>3, OnceTail
  <2>5. /\ offeredHashMap' = [offeredHashMap EXCEPT ![s] = offered]
        /\ \/ voiceBufferQueue' = [voiceBufferQueue EXCEPT ![s] = Tail(queue)]
           \/ voiceBufferQueue' = [voiceBufferQueue EXCEPT ![s] = queue]
    BY <2>1 DEF Enlist
  <2> HIDE DEF queue, offered
  <2>6. ASSUME NEW t \in Session
        PROVE  Once(voiceBufferQueue'[t], number', offeredHashMap'[t], polled'[t])
    <3>1. CASE t = s
      BY <1>0, <2>2, <2>4, <2>5, <3>1
    <3>2. CASE t # s
      <4>1. voiceBufferQueue'[t] = voiceBufferQueue[t] /\ offeredHashMap'[t] = offeredHashMap[t]
        BY <1>0, <2>5, <3>2
      <4>2. QED
        BY <1>0, <4>1 DEF OnceInv
    <3>3. QED
      BY <3>1, <3>2
  <2>7. QED
    BY <2>6 DEF OnceInv, Once
<1>3. QED
  BY <1>1, <1>2

LEMMA OncePoll ==
  ASSUME TypeInv, OnceInv, NEW m \in Manager, PollVoice(m)
  PROVE  OnceInv'
<1>p. PICK p \in Session : p = peer[m]
  BY DEF TypeInv, LocalOK, PollVoice
<1>0. /\ voiceBufferQueue \in [Session -> Seq(Buffer)] /\ polled \in [Session -> SUBSET SeqNumber]
      /\ UNCHANGED <<number, offeredHashMap>>
  BY DEF TypeInv, TypeOK, PollVoice
<1>1. CASE voiceBufferQueue[p] = << >>
  <2>1. UNCHANGED <<voiceBufferQueue, polled>>
    BY <1>p, <1>1 DEF PollVoice
  <2>2. QED
    BY <1>0, <2>1, OnceKept
<1>2. CASE voiceBufferQueue[p] # << >>
  <2> DEFINE q == voiceBufferQueue[p]
             taken == polled[p] \cup {number[Head(q)]}
  <2>1. voiceBufferQueue' = [voiceBufferQueue EXCEPT ![p] = Tail(q)]
    BY <1>p, <1>2 DEF PollVoice
  <2>2. polled' = [polled EXCEPT ![p] = taken]
    BY <1>p, <1>2 DEF PollVoice
  <2>3. Once(Tail(q), number, offeredHashMap[p], taken)
    BY <1>0, <1>2, OnceTail DEF OnceInv
  <2> HIDE DEF q, taken
  <2>4. ASSUME NEW t \in Session
        PROVE  Once(voiceBufferQueue'[t], number', offeredHashMap'[t], polled'[t])
    <3>1. CASE t = p
      BY <1>0, <2>1, <2>2, <2>3, <3>1
    <3>2. CASE t # p
      <4>1. voiceBufferQueue'[t] = voiceBufferQueue[t] /\ polled'[t] = polled[t]
        BY <1>0, <2>1, <2>2, <3>2
      <4>2. QED
        BY <1>0, <4>1 DEF OnceInv
    <3>3. QED
      BY <3>1, <3>2
  <2>5. QED
    BY <2>4 DEF OnceInv, Once
<1>3. QED
  BY <1>1, <1>2

\* A manager writes a packet's number only into the Buffer it has itself.
LEMMA OnceAccepted ==
  ASSUME TypeInv, OwnInv, OnceInv, NEW m \in Manager, NEW s \in Session, NEW n \in SeqNumber,
         Accepted(m, s, n)
  PROVE  OnceInv'
<1>p. PICK b \in Buffer : b = buffer[m]
  BY DEF TypeInv, LocalOK, Accepted
<1>1. /\ number' = [number EXCEPT ![b] = n] /\ number \in [Buffer -> SeqNumber]
      /\ UNCHANGED <<voiceBufferQueue, offeredHashMap, polled>>
      /\ voiceBufferQueue \in [Session -> Seq(Buffer)]
  BY <1>p DEF Accepted, TypeInv, TypeOK
<1>2. <<"buffer", m>> \in Place /\ b \in Keeps(<<"buffer", m>>)
  BY <1>p, Lists
<1>3. ASSUME NEW t \in Session PROVE b \notin BuffersIn(voiceBufferQueue[t])
  <2>1. <<"list", t>> \in Place /\ Keeps(<<"list", t>>) = BuffersIn(voiceBufferQueue[t])
    BY Lists
  <2>2. <<"list", t>> # <<"buffer", m>>
    OBVIOUS
  <2>3. QED
    BY <1>2, <2>1, <2>2 DEF OwnInv, Owned, Exclusive
<1>4. ASSUME NEW t \in Session, NEW x \in BuffersIn(voiceBufferQueue[t])
      PROVE  number'[x] = number[x]
  <2>1. x \in Buffer /\ x # b
    BY <1>1, <1>3, BuffersOf
  <2>2. QED
    BY <1>1, <2>1
<1>5. QED
  BY <1>1, <1>4, OnceKept

LEMMA OnceReset ==
  ASSUME TypeInv, OnceInv, NEW s \in Session, reset(s)
  PROVE  OnceInv'
<1>1. /\ voiceBufferQueue' = [voiceBufferQueue EXCEPT ![s] = << >>]
      /\ offeredHashMap' = [offeredHashMap EXCEPT ![s] = {}]
      /\ polled' = [polled EXCEPT ![s] = {}] /\ UNCHANGED number
      /\ voiceBufferQueue \in [Session -> Seq(Buffer)]
      /\ offeredHashMap \in [Session -> SUBSET SeqNumber]
      /\ polled \in [Session -> SUBSET SeqNumber]
  BY DEF reset, TypeInv, TypeOK
<1>2. ASSUME NEW t \in Session
      PROVE  Once(voiceBufferQueue'[t], number', offeredHashMap'[t], polled'[t])
  <2>1. CASE t = s
    BY <1>1, <2>1, OnceEmpty
  <2>2. CASE t # s
    <3>1. /\ voiceBufferQueue'[t] = voiceBufferQueue[t] /\ offeredHashMap'[t] = offeredHashMap[t]
          /\ polled'[t] = polled[t]
      BY <1>1, <2>2
    <3>2. QED
      BY <1>1, <3>1 DEF OnceInv
  <2>3. QED
    BY <2>1, <2>2
<1>3. QED
  BY <1>2 DEF OnceInv, Once

LEMMA NextOnce == TypeInv /\ OwnInv /\ OnceInv /\ [Next]_vars => OnceInv'
<1> SUFFICES ASSUME TypeInv, OwnInv, OnceInv, [Next]_vars PROVE OnceInv'
  OBVIOUS
<1>1. CASE Environment
  <2>1. UNCHANGED listVars \/ \E s \in Session : reset(s)
    BY <1>1 DEF Environment, SetCallingSession, registerSession, unregisterSession
  <2>2. QED
    BY <2>1, OnceKept, OnceReset DEF listVars
<1>2. ASSUME NEW m \in Manager, Step(m) PROVE OnceInv'
  <2>1. \/ UNCHANGED listVars
        \/ PutVoiceBuffer(m) \/ PollVoice(m)
        \/ \E s \in Session, n \in SeqNumber : Accepted(m, s, n)
    BY <1>2 DEF Step, AllocateUdp, AllocateTcp, Exhausted, FindPacket, EndPut, GetPacket,
       ReadFails, TimeOut, DropUdp, WrongLength, NotActive, TooShort, DiscardTcp, LoseUdp,
       NoteAddress, TestAddress, ReadAddress, FailTcp, TestCalling, ReadCalling, Send, ThrowAway
  <2>2. QED
    BY <2>1, OnceKept, OncePut, OncePoll, OnceAccepted DEF listVars
<1>3. CASE UNCHANGED vars
  BY <1>3, OnceKept DEF vars, listVars
<1>4. QED
  BY <1>1, <1>2, <1>3 DEF Next

\* Between two resets of a list no sequence number is fetched from it twice, on
\* however many channels it comes (VoiceDataList.offer).
THEOREM NumbersFetchedOnce == Spec => []NoRepeats
<1>1. Spec => []TypeInv
  BY InitType, NextType, PTL DEF Spec
<1>2. Spec => []OwnInv
  BY <1>1, InitOwned, NextOwned, PTL DEF Spec
<1>3. Init => OnceInv
  BY OnceEmpty DEF Init, OnceInv
<1>4. OnceInv => NoRepeats
  BY DEF OnceInv, Once, NoRepeats
<1>5. QED
  BY <1>1, <1>2, <1>3, <1>4, NextOnce, PTL DEF Spec

-----------------------------------------------------------------------------
(***************************************************************************)
(* The relay implements PacketRelay.  What a step of the relay does to     *)
(* Buffers is what a step of PacketRelay does to the numbers in them, and  *)
(* the reason is ownership: a manager writes only into a Buffer that is in *)
(* no list and in no other manager's hand (Exclusive).                     *)
(***************************************************************************)
Waiting == [s \in Session |-> Numbers(voiceBufferQueue[s])]
InHand == [m \in Manager |-> IF getBuffer[m] = None THEN None ELSE number[getBuffer[m]]]

(***************************************************************************)
(* The numbers in a queue of Buffers.                                      *)
(***************************************************************************)
LEMMA NumbersType ==
  ASSUME TypeOK, NEW q \in Seq(Buffer)
  PROVE  /\ Numbers(q) \in Seq(SeqNumber) /\ Len(Numbers(q)) = Len(q)
         /\ \A i \in 1..Len(q) : Numbers(q)[i] = number[q[i]]
<1>1. number \in [Buffer -> SeqNumber]
  BY DEF TypeOK
<1>2. DOMAIN q = 1..Len(q) /\ Len(q) \in Nat /\ \A i \in 1..Len(q) : q[i] \in Buffer
  OBVIOUS
<1>3. Numbers(q) \in [1..Len(q) -> SeqNumber]
  BY <1>1, <1>2 DEF Numbers
<1>4. \A i \in 1..Len(q) : Numbers(q)[i] = number[q[i]]
  BY <1>2 DEF Numbers
<1>5. QED
  BY <1>2, <1>3, <1>4

LEMMA NumbersAppend ==
  ASSUME TypeOK, NEW q \in Seq(Buffer), NEW b \in Buffer
  PROVE  Numbers(Append(q, b)) = Append(Numbers(q), number[b])
<1>1. /\ Append(q, b) \in Seq(Buffer) /\ Len(Append(q, b)) = Len(q) + 1
      /\ Len(q) \in Nat
      /\ \A i \in 1..Len(q) : Append(q, b)[i] = q[i]
      /\ Append(q, b)[Len(q) + 1] = b
  OBVIOUS
<1>2. /\ Numbers(q) \in Seq(SeqNumber) /\ Len(Numbers(q)) = Len(q)
      /\ \A i \in 1..Len(q) : Numbers(q)[i] = number[q[i]]
  BY NumbersType
<1>3. /\ Numbers(Append(q, b)) \in Seq(SeqNumber)
      /\ Len(Numbers(Append(q, b))) = Len(q) + 1
      /\ \A i \in 1..(Len(q) + 1) : Numbers(Append(q, b))[i] = number[Append(q, b)[i]]
  BY <1>1, NumbersType
<1>4. number[b] \in SeqNumber
  BY DEF TypeOK
<1>5. /\ Append(Numbers(q), number[b]) \in Seq(SeqNumber)
      /\ Len(Append(Numbers(q), number[b])) = Len(q) + 1
      /\ \A i \in 1..Len(q) : Append(Numbers(q), number[b])[i] = number[q[i]]
      /\ Append(Numbers(q), number[b])[Len(q) + 1] = number[b]
  BY <1>2, <1>4
<1>6. \A i \in 1..(Len(q) + 1) :
        Numbers(Append(q, b))[i] = Append(Numbers(q), number[b])[i]
  BY <1>1, <1>3, <1>5
<1>7. QED
  BY <1>3, <1>5, <1>6

(***************************************************************************)
(* Two sequences of the same length with the same elements are equal.      *)
(***************************************************************************)
LEMMA SameSequence ==
  ASSUME NEW S, NEW s \in Seq(S), NEW t \in Seq(S), NEW n,
         Len(s) = n, Len(t) = n, \A i \in 1..n : s[i] = t[i]
  PROVE  s = t
OBVIOUS

LEMMA NumbersTail ==
  ASSUME TypeOK, NEW q \in Seq(Buffer), q # << >>
  PROVE  /\ Numbers(Tail(q)) = Tail(Numbers(q))
         /\ Numbers(q) # << >> /\ Head(Numbers(q)) = number[Head(q)]
<1>1. /\ Tail(q) \in Seq(Buffer) /\ Len(q) \in Nat /\ Len(q) >= 1
      /\ Len(Tail(q)) = Len(q) - 1 /\ Head(q) = q[1]
      /\ \A i \in 1..(Len(q) - 1) : Tail(q)[i] = q[i + 1]
  OBVIOUS
<1>2. /\ Numbers(q) \in Seq(SeqNumber) /\ Len(Numbers(q)) = Len(q)
      /\ \A i \in 1..Len(q) : Numbers(q)[i] = number[q[i]]
  BY NumbersType
<1>3. /\ Numbers(Tail(q)) \in Seq(SeqNumber)
      /\ Len(Numbers(Tail(q))) = Len(q) - 1
      /\ \A i \in 1..(Len(q) - 1) : Numbers(Tail(q))[i] = number[Tail(q)[i]]
  BY <1>1, NumbersType
<1>4. Numbers(q) # << >>
  BY <1>1, <1>2
<1>5. /\ Tail(Numbers(q)) \in Seq(SeqNumber)
      /\ Len(Tail(Numbers(q))) = Len(q) - 1
      /\ \A i \in 1..(Len(q) - 1) : Tail(Numbers(q))[i] = Numbers(q)[i + 1]
      /\ Head(Numbers(q)) = Numbers(q)[1]
  BY <1>1, <1>2, <1>4
<1>6. \A i \in 1..(Len(q) - 1) : Numbers(Tail(q))[i] = Tail(Numbers(q))[i]
  <2> TAKE i \in 1..(Len(q) - 1)
  <2>1. i + 1 \in 1..Len(q)
    BY <1>1
  <2>2. QED
    BY <1>1, <1>2, <1>3, <1>5, <2>1
<1>7. Numbers(Tail(q)) = Tail(Numbers(q))
  <2> DEFINE later == Numbers(Tail(q))
             rest == Tail(Numbers(q))
             n == Len(q) - 1
  <2>1. later \in Seq(SeqNumber) /\ rest \in Seq(SeqNumber)
    BY <1>3, <1>5
  <2>2. Len(later) = n /\ Len(rest) = n /\ \A i \in 1..n : later[i] = rest[i]
    BY <1>3, <1>5, <1>6
  <2> HIDE DEF later, rest, n
  <2>3. later = rest
    BY <2>1, <2>2, SameSequence
  <2>4. QED
    BY <2>3 DEF later, rest
<1>8. Head(Numbers(q)) = number[Head(q)]
  <2>1. 1 \in 1..Len(q)
    BY <1>1
  <2>2. Numbers(q)[1] = number[q[1]]
    BY <1>2, <2>1
  <2>3. QED
    BY <1>1, <1>5, <2>2
<1>9. QED
  BY <1>4, <1>7, <1>8

LEMMA NumbersEmpty == Numbers(<< >>) = << >>
BY DEF Numbers

(***************************************************************************)
(* A step that changes no number that is in use, and neither lists nor     *)
(* hands, changes nothing of PacketRelay.                                  *)
(***************************************************************************)
Listed == UNION {BuffersIn(voiceBufferQueue[s]) : s \in Session}
BeingSent == {getBuffer[m] : m \in Manager}
InUse == Listed \cup BeingSent

LEMMA WaitingKept ==
  ASSUME UNCHANGED voiceBufferQueue, \A b \in InUse : number'[b] = number[b]
  PROVE  Waiting' = Waiting
<1>1. ASSUME NEW s \in Session, NEW i \in DOMAIN voiceBufferQueue[s]
      PROVE  number'[voiceBufferQueue[s][i]] = number[voiceBufferQueue[s][i]]
  <2>1. voiceBufferQueue[s][i] \in BuffersIn(voiceBufferQueue[s])
    BY Zenon DEF BuffersIn
  <2>2. BuffersIn(voiceBufferQueue[s]) \subseteq InUse
    BY DEF InUse, Listed
  <2>3. QED
    BY <2>1, <2>2
<1>2. \A s \in Session :
        [i \in DOMAIN voiceBufferQueue[s] |-> number'[voiceBufferQueue[s][i]]]
          = [i \in DOMAIN voiceBufferQueue[s] |-> number[voiceBufferQueue[s][i]]]
  BY <1>1
<1>3. QED
  BY <1>2 DEF Waiting, Numbers

LEMMA InHandKept ==
  ASSUME UNCHANGED getBuffer, \A b \in InUse : number'[b] = number[b]
  PROVE  InHand' = InHand
<1>1. \A m \in Manager : number'[getBuffer[m]] = number[getBuffer[m]]
  <2> TAKE m \in Manager
  <2>1. getBuffer[m] \in BeingSent
    BY Zenon DEF BeingSent
  <2>2. getBuffer[m] \in InUse
    BY <2>1, Zenon DEF InUse
  <2>3. QED
    BY <2>2
<1>2. QED
  BY <1>1 DEF InHand

LEMMA Mapping ==
  /\ UNCHANGED Relay!vars <=> /\ Waiting' = Waiting
                              /\ UNCHANGED offeredHashMap
                              /\ InHand' = InHand
  /\ Relay!Init <=> /\ Waiting = [s \in Session |-> << >>]
                    /\ offeredHashMap = [s \in Session |-> {}]
                    /\ InHand = [m \in Manager |-> None]
BY DEF Relay!vars, Relay!Init, Waiting, InHand

LEMMA PutMapping ==
  ASSUME NEW s, NEW n
  PROVE  Relay!Put(s, n) <=>
           /\ n \notin offeredHashMap[s]
           /\ offeredHashMap' = [offeredHashMap EXCEPT ![s] = @ \cup {n}]
           /\ Waiting' = [Waiting EXCEPT ![s] =
                IF Len(Append(Waiting[s], n)) > LIST_SIZE
                THEN Tail(Append(Waiting[s], n)) ELSE Append(Waiting[s], n)]
           /\ InHand' = InHand
BY DEF Relay!Put, Waiting, InHand

LEMMA TakeMapping ==
  ASSUME NEW m, NEW s
  PROVE  Relay!Take(m, s) <=>
           /\ InHand[m] = None /\ Waiting[s] # << >>
           /\ InHand' = [InHand EXCEPT ![m] = Head(Waiting[s])]
           /\ Waiting' = [Waiting EXCEPT ![s] = Tail(@)]
           /\ UNCHANGED offeredHashMap
BY DEF Relay!Take, Waiting, InHand

LEMMA FinishMapping ==
  ASSUME NEW m
  PROVE  Relay!Finish(m) <=> /\ InHand' = [InHand EXCEPT ![m] = None]
                             /\ Waiting' = Waiting /\ UNCHANGED offeredHashMap
BY DEF Relay!Finish, Waiting, InHand

LEMMA EmptyMapping ==
  ASSUME NEW s
  PROVE  Relay!Empty(s) <=> /\ Waiting' = [Waiting EXCEPT ![s] = << >>]
                            /\ offeredHashMap' = [offeredHashMap EXCEPT ![s] = {}]
                            /\ InHand' = InHand
BY DEF Relay!Empty, Waiting, InHand

LEMMA InitRefines == Init => Relay!Init
<1> SUFFICES ASSUME Init PROVE Relay!Init
  OBVIOUS
<1>1. Waiting = [s \in Session |-> << >>]
  BY NumbersEmpty DEF Init, Waiting
<1>2. InHand = [m \in Manager |-> None]
  BY DEF Init, InHand
<1>3. QED
  BY <1>1, <1>2, Mapping DEF Init

(***************************************************************************)
(* The steps.                                                              *)
(***************************************************************************)
LEMMA AcceptedRefines ==
  ASSUME TypeInv, OwnInv, NEW m \in Manager, NEW s \in Session, NEW n \in SeqNumber,
         Accepted(m, s, n)
  PROVE  UNCHANGED Relay!vars
<1>p. PICK b \in Buffer : b = buffer[m]
  BY DEF TypeInv, LocalOK, Accepted
<1>1. /\ number' = [number EXCEPT ![b] = n]
      /\ UNCHANGED <<voiceBufferQueue, offeredHashMap, getBuffer>>
      /\ voiceBufferQueue \in [Session -> Seq(Buffer)] /\ number \in [Buffer -> SeqNumber]
  BY <1>p DEF Accepted, TypeInv, TypeOK
<1>2. <<"buffer", m>> \in Place /\ b \in Keeps(<<"buffer", m>>)
  BY <1>p, Lists
<1>3. ASSUME NEW t \in Session PROVE b \notin BuffersIn(voiceBufferQueue[t])
  <2>1. <<"list", t>> \in Place /\ Keeps(<<"list", t>>) = BuffersIn(voiceBufferQueue[t])
    BY Lists
  <2>2. <<"list", t>> # <<"buffer", m>>
    OBVIOUS
  <2>3. QED
    BY <1>2, <2>1, <2>2 DEF OwnInv, Owned, Exclusive
<1>4. ASSUME NEW o \in Manager PROVE b # getBuffer[o]
  <2>1. <<"getBuffer", o>> \in Place /\ Keeps(<<"getBuffer", o>>) = {getBuffer[o]} \cap Buffer
    BY Lists
  <2>2. <<"getBuffer", o>> # <<"buffer", m>>
    OBVIOUS
  <2>3. QED
    BY <1>2, <2>1, <2>2 DEF OwnInv, Owned, Exclusive
<1>5. b \notin InUse
  <2> SUFFICES ASSUME b \in InUse PROVE FALSE
    OBVIOUS
  <2>1. b \notin Listed
    BY <1>3 DEF Listed
  <2>2. b \notin BeingSent
    BY <1>4 DEF BeingSent
  <2>3. QED
    BY <2>1, <2>2 DEF InUse
<1>6. \A x \in InUse : number'[x] = number[x]
  BY <1>1, <1>5
<1>7. QED
  BY <1>1, <1>6, WaitingKept, InHandKept, Mapping

LEMMA PutRefines ==
  ASSUME TypeInv, NEW m \in Manager, PutVoiceBuffer(m)
  PROVE  [Relay!Next]_(Relay!vars)
<1>p. PICK s \in Session, b \in Buffer : s = session[m] /\ b = buffer[m]
  BY DEF TypeInv, LocalOK, PutVoiceBuffer
<1>0. /\ voiceBufferQueue \in [Session -> Seq(Buffer)]
      /\ offeredHashMap \in [Session -> SUBSET SeqNumber]
      /\ number \in [Buffer -> SeqNumber]
      /\ offer(s, b) /\ UNCHANGED <<number, getBuffer>>
  BY <1>p DEF TypeInv, TypeOK, PutVoiceBuffer
<1>h. InHand' = InHand
  BY <1>0, InHandKept
<1>1. CASE number[b] \in offeredHashMap[s]
  <2>1. UNCHANGED <<voiceBufferQueue, offeredHashMap>>
    BY <1>0, <1>1 DEF offer
  <2>2. QED
    BY <1>0, <1>h, <2>1, WaitingKept, Mapping
<1>2. CASE number[b] \notin offeredHashMap[s]
  <2> DEFINE queue == Append(voiceBufferQueue[s], b)
             kept == IF Len(queue) > LIST_SIZE THEN Tail(queue) ELSE queue
             line == Append(Waiting[s], number[b])
  <2>1. /\ offeredHashMap' = [offeredHashMap EXCEPT ![s] = @ \cup {number[b]}]
        /\ voiceBufferQueue' = [voiceBufferQueue EXCEPT ![s] = kept]
    BY <1>0, <1>2 DEF offer, Enlist
  <2>2. queue \in Seq(Buffer) /\ queue # << >>
    BY <1>0, AppendType
  <2>3. Numbers(queue) = line /\ Len(line) = Len(queue)
    BY <1>0, <2>2, NumbersAppend, NumbersType DEF TypeInv, Waiting
  <2>4. Numbers(Tail(queue)) = Tail(line)
    BY <2>2, <2>3, NumbersTail DEF TypeInv
  <2> HIDE DEF queue, line
  <2>5. Numbers(kept) = IF Len(line) > LIST_SIZE THEN Tail(line) ELSE line
    BY <2>3, <2>4
  <2> HIDE DEF kept
  <2>6. Waiting' = [Waiting EXCEPT ![s] = Numbers(kept)]
    BY <1>0, <2>1 DEF Waiting, Numbers
  <2>7. Relay!Put(s, number[b])
    BY <1>2, <1>h, <2>1, <2>5, <2>6, PutMapping DEF line
  <2>8. number[b] \in SeqNumber
    BY <1>0
  <2>9. QED
    BY <2>7, <2>8 DEF Relay!Next
<1>3. QED
  BY <1>1, <1>2

LEMMA PollRefines ==
  ASSUME TypeInv, NEW m \in Manager, PollVoice(m)
  PROVE  [Relay!Next]_(Relay!vars)
<1>p. PICK p \in Session : p = peer[m]
  BY DEF TypeInv, LocalOK, PollVoice
<1>0. /\ voiceBufferQueue \in [Session -> Seq(Buffer)]
      /\ getBuffer \in [Manager -> Buffer \cup {None}] /\ getBuffer[m] = None
      /\ UNCHANGED <<number, offeredHashMap>>
  BY DEF TypeInv, TypeOK, LocalOK, PollVoice
<1>1. CASE voiceBufferQueue[p] = << >>
  <2>1. UNCHANGED <<voiceBufferQueue, getBuffer>>
    BY <1>p, <1>1 DEF PollVoice
  <2>2. QED
    BY <1>0, <2>1, WaitingKept, InHandKept, Mapping
<1>2. CASE voiceBufferQueue[p] # << >>
  <2> DEFINE q == voiceBufferQueue[p]
  <2>1. /\ voiceBufferQueue' = [voiceBufferQueue EXCEPT ![p] = Tail(q)]
        /\ getBuffer' = [getBuffer EXCEPT ![m] = Head(q)]
    BY <1>p, <1>2 DEF PollVoice
  <2>2. q \in Seq(Buffer) /\ Head(q) \in Buffer
    BY <1>0, <1>2
  <2>3. /\ Numbers(Tail(q)) = Tail(Numbers(q)) /\ Numbers(q) # << >>
        /\ Head(Numbers(q)) = number[Head(q)]
    BY <1>2, <2>2, NumbersTail DEF TypeInv
  <2> HIDE DEF q
  <2>4. Waiting[p] = Numbers(q)
    BY DEF Waiting, q
  <2>5. Waiting' = [Waiting EXCEPT ![p] = Tail(@)]
    BY <1>0, <2>1, <2>3, <2>4 DEF Waiting, Numbers
  <2>6. Head(q) # None
    BY <2>2, RelayAssumption
  <2>7. InHand' = [InHand EXCEPT ![m] = Head(Waiting[p])]
    BY <1>0, <2>1, <2>3, <2>4, <2>6 DEF InHand
  <2>8. InHand[m] = None
    BY <1>0 DEF InHand
  <2>9. Relay!Take(m, p)
    BY <1>0, <2>3, <2>4, <2>5, <2>7, <2>8, TakeMapping
  <2>10. QED
    BY <2>9 DEF Relay!Next
<1>3. QED
  BY <1>1, <1>2

LEMMA SentRefines ==
  ASSUME TypeInv, NEW m \in Manager, Send(m) \/ ThrowAway(m)
  PROVE  Relay!Finish(m)
<1>1. /\ getBuffer' = [getBuffer EXCEPT ![m] = None]
      /\ getBuffer \in [Manager -> Buffer \cup {None}]
      /\ UNCHANGED <<number, voiceBufferQueue, offeredHashMap>>
  BY DEF Send, ThrowAway, listVars, TypeInv, TypeOK
<1>2. Waiting' = Waiting
  BY <1>1, WaitingKept
<1>3. InHand' = [InHand EXCEPT ![m] = None]
  BY <1>1 DEF InHand
<1>4. QED
  BY <1>1, <1>2, <1>3, FinishMapping

LEMMA ResetRefines ==
  ASSUME TypeInv, NEW s \in Session, reset(s)
  PROVE  Relay!Empty(s)
<1>1. /\ voiceBufferQueue' = [voiceBufferQueue EXCEPT ![s] = << >>]
      /\ offeredHashMap' = [offeredHashMap EXCEPT ![s] = {}]
      /\ UNCHANGED <<number, getBuffer>>
      /\ voiceBufferQueue \in [Session -> Seq(Buffer)]
  BY DEF reset, localVars, TypeInv, TypeOK
<1>2. InHand' = InHand
  BY <1>1, InHandKept
<1>3. Waiting' = [Waiting EXCEPT ![s] = << >>]
  BY <1>1, NumbersEmpty DEF Waiting, Numbers
<1>4. QED
  BY <1>1, <1>2, <1>3, EmptyMapping

LEMMA StepRefines == TypeInv /\ OwnInv /\ [Next]_vars => [Relay!Next]_(Relay!vars)
<1> SUFFICES ASSUME TypeInv, OwnInv, [Next]_vars PROVE [Relay!Next]_(Relay!vars)
  OBVIOUS
<1>0. ASSUME UNCHANGED <<listVars, getBuffer>> PROVE UNCHANGED Relay!vars
  BY <1>0, WaitingKept, InHandKept, Mapping DEF listVars
<1>1. CASE Environment
  <2>1. UNCHANGED <<listVars, getBuffer>> \/ \E s \in Session : reset(s)
    BY <1>1 DEF Environment, SetCallingSession, registerSession, unregisterSession, localVars
  <2>2. QED
    BY <1>0, <2>1, ResetRefines DEF Relay!Next
<1>2. ASSUME NEW m \in Manager, Step(m) PROVE [Relay!Next]_(Relay!vars)
  <2>1. \/ UNCHANGED <<listVars, getBuffer>>
        \/ PutVoiceBuffer(m) \/ PollVoice(m) \/ Send(m) \/ ThrowAway(m)
        \/ \E s \in Session, n \in SeqNumber : Accepted(m, s, n)
    BY <1>2 DEF Step, AllocateUdp, AllocateTcp, Exhausted, FindPacket, EndPut, GetPacket,
       ReadFails, TimeOut, DropUdp, WrongLength, NotActive, TooShort, DiscardTcp, LoseUdp,
       NoteAddress, TestAddress, ReadAddress, FailTcp, TestCalling, ReadCalling, localVars
  <2>2. QED
    BY <1>0, <2>1, PutRefines, PollRefines, SentRefines, AcceptedRefines DEF Relay!Next
<1>3. CASE UNCHANGED vars
  BY <1>0, <1>3 DEF vars, localVars
<1>4. QED
  BY <1>1, <1>2, <1>3 DEF Next

\* The relay of Buffers through pool, lists and managers implements the lines of
\* numbers: packets wait, are thrown away and are sent in the order they were put,
\* each number once, and none is overwritten meanwhile (VoiceDataList, Session
\* .putVoiceBuffer and getVoiceBuffer, and read of both managers).
THEOREM RelayImplementsLines == Spec => Relays
<1>1. Spec => []TypeInv
  BY InitType, NextType, PTL DEF Spec
<1>2. Spec => []OwnInv
  BY <1>1, InitOwned, NextOwned, PTL DEF Spec
<1>3. QED
  BY <1>1, <1>2, InitRefines, StepRefines, PTL DEF Spec, Relays, Relay!Spec

-----------------------------------------------------------------------------
(***************************************************************************)
(* A pool of Demand Buffers beyond the lost ones never runs empty, for any *)
(* number of sessions, managers and connections.  A Buffer that is out of  *)
(* the pool is lost or fills a slot: a place in a list, a place in a       *)
(* tokenizer, or a manager, which may be dead.  There are Demand slots, no *)
(* slot has two Buffers, and when a manager is about to take a Buffer some *)
(* slot has none.                                                          *)
(***************************************************************************)
\* What one tokenizer can hold.
Backlog == (MAX_PACKETS - 1) * ERROR_COUNT_MAXIMUM + MAX_PACKETS

ListSlot == {"list"} \X (Session \X (1..LIST_SIZE))
TokenizerSlot == {"tokenizer"} \X (Connection \X (1..Backlog))
ManagerSlot == {"manager"} \X Manager
Slot == ListSlot \cup TokenizerSlot \cup ManagerSlot

Fills(b, z) ==
  \/ \E s \in Session, i \in 1..LIST_SIZE :
       /\ z = <<"list", <<s, i>>>>
       /\ i \in DOMAIN voiceBufferQueue[s] /\ voiceBufferQueue[s][i] = b
  \/ \E c \in Connection, i \in 1..Backlog :
       /\ z = <<"tokenizer", <<c, i>>>>
       /\ i \in DOMAIN ownBufferQueue[c] /\ ownBufferQueue[c][i] = b
  \/ \E m \in Manager : z = <<"manager", m>> /\ (buffer[m] = b \/ getBuffer[m] = b)

LEMMA Tagged ==
  ASSUME NEW tag, NEW S, IsFiniteSet(S)
  PROVE  IsFiniteSet({tag} \X S) /\ Cardinality({tag} \X S) = Cardinality(S)
<1>1. IsFiniteSet({tag}) /\ Cardinality({tag}) = 1
  BY FS_Singleton
<1>2. Cardinality(S) \in Nat
  BY FS_CardinalityType
<1>3. IsFiniteSet({tag} \X S) /\ Cardinality({tag} \X S) = 1 * Cardinality(S)
  BY <1>1, FS_Product
<1>4. QED
  BY <1>2, <1>3

LEMMA AtMostSum ==
  ASSUME NEW S, NEW T, IsFiniteSet(S), IsFiniteSet(T)
  PROVE  IsFiniteSet(S \cup T) /\ Cardinality(S \cup T) <= Cardinality(S) + Cardinality(T)
<1>1. IsFiniteSet(S \cap T)
  BY FS_Intersection
<1>2. Cardinality(S) \in Nat /\ Cardinality(T) \in Nat /\ Cardinality(S \cap T) \in Nat
  BY <1>1, FS_CardinalityType
<1>3. /\ IsFiniteSet(S \cup T)
      /\ Cardinality(S \cup T) = Cardinality(S) + Cardinality(T) - Cardinality(S \cap T)
  BY FS_Union
<1>4. QED
  BY <1>2, <1>3

LEMMA BacklogType == Backlog \in Nat /\ Backlog >= 1
<1>1. MAX_PACKETS - 1 \in Nat /\ MAX_PACKETS \in Nat /\ MAX_PACKETS >= 1
  BY RelayAssumption
<1>2. ERROR_COUNT_MAXIMUM \in Nat
  BY RelayAssumption
<1>3. (MAX_PACKETS - 1) * ERROR_COUNT_MAXIMUM \in Nat
  BY <1>2, LeftGrows DEF Left
<1>4. QED
  BY <1>1, <1>3 DEF Backlog

LEMMA DemandType == Demand \in Nat
<1>1. \A S : IsFiniteSet(S) => Cardinality(S) \in Nat
  BY FS_CardinalityType
<1>2. Cardinality(Session) \in Nat /\ Cardinality(Connection) \in Nat /\ Cardinality(Manager) \in Nat
  BY <1>1, FiniteAssumption
<1>3. Backlog \in Nat /\ LIST_SIZE \in Nat
  BY BacklogType, RelayAssumption
<1>4. Cardinality(Session) * LIST_SIZE \in Nat /\ Cardinality(Connection) * Backlog \in Nat
  BY <1>2, <1>3
<1>5. Demand = Cardinality(Session) * LIST_SIZE + Cardinality(Connection) * Backlog + Cardinality(Manager)
  BY DEF Demand, Backlog
<1>6. QED
  BY <1>2, <1>4, <1>5

\* There are no more slots than Demand.
LEMMA SlotsCounted == IsFiniteSet(Slot) /\ Cardinality(Slot) <= Demand
<1>1. LIST_SIZE \in Nat
  BY RelayAssumption
<1>2. IsFiniteSet(1..LIST_SIZE) /\ Cardinality(1..LIST_SIZE) = LIST_SIZE
  BY <1>1, FS_Interval
<1>3. IsFiniteSet(1..Backlog) /\ Cardinality(1..Backlog) = Backlog
  BY BacklogType, FS_Interval
<1>4. /\ IsFiniteSet(Session \X (1..LIST_SIZE))
      /\ Cardinality(Session \X (1..LIST_SIZE)) = Cardinality(Session) * LIST_SIZE
  BY <1>2, FiniteAssumption, FS_Product
<1>5. /\ IsFiniteSet(Connection \X (1..Backlog))
      /\ Cardinality(Connection \X (1..Backlog)) = Cardinality(Connection) * Backlog
  BY <1>3, FiniteAssumption, FS_Product
<1>6. IsFiniteSet(ListSlot) /\ Cardinality(ListSlot) = Cardinality(Session) * LIST_SIZE
  BY <1>4, Tagged DEF ListSlot
<1>7. IsFiniteSet(TokenizerSlot) /\ Cardinality(TokenizerSlot) = Cardinality(Connection) * Backlog
  BY <1>5, Tagged DEF TokenizerSlot
<1>8. IsFiniteSet(ManagerSlot) /\ Cardinality(ManagerSlot) = Cardinality(Manager)
  BY FiniteAssumption, Tagged DEF ManagerSlot
<1>9. /\ IsFiniteSet(ListSlot \cup TokenizerSlot)
      /\ Cardinality(ListSlot \cup TokenizerSlot) <= Cardinality(ListSlot) + Cardinality(TokenizerSlot)
  BY <1>6, <1>7, AtMostSum
<1>10. /\ IsFiniteSet(Slot)
       /\ Cardinality(Slot) <= Cardinality(ListSlot \cup TokenizerSlot) + Cardinality(ManagerSlot)
  BY <1>8, <1>9, AtMostSum DEF Slot
<1>11. /\ Cardinality(ListSlot) \in Nat /\ Cardinality(TokenizerSlot) \in Nat
       /\ Cardinality(ManagerSlot) \in Nat /\ Cardinality(ListSlot \cup TokenizerSlot) \in Nat
       /\ Cardinality(Slot) \in Nat
  BY <1>6, <1>7, <1>8, <1>9, <1>10, FS_CardinalityType
<1>12. Cardinality(Slot) <= Cardinality(ListSlot) + Cardinality(TokenizerSlot) + Cardinality(ManagerSlot)
  BY <1>9, <1>10, <1>11
<1>13. Demand = Cardinality(ListSlot) + Cardinality(TokenizerSlot) + Cardinality(ManagerSlot)
  BY <1>6, <1>7, <1>8 DEF Demand, Backlog
<1>14. QED
  BY <1>10, <1>12, <1>13

\* A tokenizer holds no more than Backlog packets.
LEMMA TokenizerBounded ==
  ASSUME TypeInv, LeftInv, NEW c \in Connection
  PROVE  /\ Len(ownBufferQueue[c]) \in Nat /\ Reading(c) \in Nat /\ Reading(c) <= MAX_PACKETS
         /\ Len(ownBufferQueue[c]) <= Backlog - MAX_PACKETS + Reading(c)
<1>1. /\ ownBufferQueue[c] \in Seq(Buffer)
      /\ errorCountMap[c] \in Nat /\ errorCountMap[c] <= ERROR_COUNT_MAXIMUM
  BY RelayAssumption DEF TypeInv, TypeOK
<1>2. MAX_PACKETS \in Nat /\ MAX_PACKETS >= 1 /\ ERROR_COUNT_MAXIMUM \in Nat
  BY RelayAssumption
<1>3. Reading(c) \in Nat /\ Reading(c) <= MAX_PACKETS
  BY <1>2, ReadingType
<1>4. Left(errorCountMap[c]) \in Nat /\ Left(ERROR_COUNT_MAXIMUM) \in Nat
  BY <1>1, <1>2, LeftGrows
<1>5. Left(errorCountMap[c]) <= Left(ERROR_COUNT_MAXIMUM)
  <2>1. CASE errorCountMap[c] = ERROR_COUNT_MAXIMUM
    BY <1>4, <2>1
  <2>2. CASE errorCountMap[c] # ERROR_COUNT_MAXIMUM
    <3> DEFINE d == ERROR_COUNT_MAXIMUM - errorCountMap[c]
    <3>1. d \in Nat /\ d >= 1 /\ errorCountMap[c] + d = ERROR_COUNT_MAXIMUM
      BY <1>1, <1>2, <2>2
    <3>2. Left(errorCountMap[c] + d) >= Left(errorCountMap[c]) + MAX_PACKETS - 1
      BY <1>1, <3>1, LeftStep
    <3>3. Left(ERROR_COUNT_MAXIMUM) >= Left(errorCountMap[c]) + MAX_PACKETS - 1
      BY <3>1, <3>2
    <3>4. QED
      BY <1>2, <1>4, <3>3
  <2>3. QED
    BY <2>1, <2>2
<1>6. Len(ownBufferQueue[c]) <= Left(errorCountMap[c]) + Reading(c)
  BY DEF LeftInv
<1>7. Backlog - MAX_PACKETS = Left(ERROR_COUNT_MAXIMUM)
  BY <1>2, <1>4 DEF Backlog, Left
<1>8. Len(ownBufferQueue[c]) \in Nat
  BY <1>1
<1>9. QED
  BY <1>3, <1>4, <1>5, <1>6, <1>7, <1>8

\* A Buffer that somebody has fills a slot.
LEMMA HeldFills ==
  ASSUME TypeInv, LeftInv, NEW b \in Buffer, NEW o \in Place \ {Nowhere}, b \in Keeps(o)
  PROVE  \E z \in Slot : Fills(b, z)
<1>1. CASE \E s \in Session : Keeps(o) = BuffersIn(voiceBufferQueue[s])
  <2>1. PICK s \in Session : Keeps(o) = BuffersIn(voiceBufferQueue[s])
    BY <1>1
  <2>2. PICK i \in DOMAIN voiceBufferQueue[s] : voiceBufferQueue[s][i] = b
    BY <2>1 DEF BuffersIn
  <2>3. voiceBufferQueue[s] \in Seq(Buffer) /\ Len(voiceBufferQueue[s]) <= LIST_SIZE /\ LIST_SIZE \in Nat
    BY RelayAssumption DEF TypeInv, TypeOK
  <2>4. i \in 1..LIST_SIZE
    BY <2>2, <2>3
  <2>5. <<"list", <<s, i>>>> \in Slot
    BY <2>4 DEF Slot, ListSlot
  <2>6. Fills(b, <<"list", <<s, i>>>>)
    BY <2>2, <2>4 DEF Fills
  <2>7. QED
    BY <2>5, <2>6
<1>2. CASE \E c \in Connection : Keeps(o) = BuffersIn(ownBufferQueue[c])
  <2>1. PICK c \in Connection : Keeps(o) = BuffersIn(ownBufferQueue[c])
    BY <1>2
  <2>2. PICK i \in DOMAIN ownBufferQueue[c] : ownBufferQueue[c][i] = b
    BY <2>1 DEF BuffersIn
  <2>3. ownBufferQueue[c] \in Seq(Buffer) /\ MAX_PACKETS \in Nat
    BY RelayAssumption DEF TypeInv, TypeOK
  <2>4. Len(ownBufferQueue[c]) <= Backlog /\ Len(ownBufferQueue[c]) \in Nat /\ Backlog \in Nat
    BY <2>3, TokenizerBounded, BacklogType
  <2>5. i \in 1..Backlog
    BY <2>2, <2>3, <2>4
  <2>6. <<"tokenizer", <<c, i>>>> \in Slot
    BY <2>5 DEF Slot, TokenizerSlot
  <2>7. Fills(b, <<"tokenizer", <<c, i>>>>)
    BY <2>2, <2>5 DEF Fills
  <2>8. QED
    BY <2>6, <2>7
<1>3. CASE \E m \in Manager : Keeps(o) = {buffer[m]} \cap Buffer \/ Keeps(o) = {getBuffer[m]} \cap Buffer
  <2>1. PICK m \in Manager : Keeps(o) = {buffer[m]} \cap Buffer \/ Keeps(o) = {getBuffer[m]} \cap Buffer
    BY <1>3
  <2>2. buffer[m] = b \/ getBuffer[m] = b
    BY <2>1
  <2>3. <<"manager", m>> \in Slot
    BY DEF Slot, ManagerSlot
  <2>4. Fills(b, <<"manager", m>>)
    BY <2>2 DEF Fills
  <2>5. QED
    BY <2>3, <2>4
<1>4. QED
  BY <1>1, <1>2, <1>3, Kinds DEF Nowhere

\* No slot has two.
LEMMA FilledOnce ==
  ASSUME TypeInv, NEW b \in Buffer, NEW d \in Buffer, NEW z, Fills(b, z), Fills(d, z)
  PROVE  b = d
<1>1. ASSUME NEW m \in Manager PROVE buffer[m] \notin Buffer \/ getBuffer[m] \notin Buffer
  <2>1. None \notin Buffer
    BY RelayAssumption
  <2>2. at[m] # "send" => getBuffer[m] = None
    BY DEF TypeInv, LocalOK
  <2>3. at[m] = "send" => buffer[m] = None
    BY DEF TypeInv, LocalOK
  <2>4. QED
    BY <2>1, <2>2, <2>3
<1>2. QED
  BY <1>1 DEF Fills

\* What a set loses is counted.
LEMMA WithoutLost ==
  ASSUME NEW L, L \subseteq Buffer
  PROVE  /\ IsFiniteSet(L) /\ IsFiniteSet(Buffer \ L)
         /\ Cardinality(L) \in Nat /\ Cardinality(Buffer \ L) \in Nat /\ Cardinality(Buffer) \in Nat
         /\ Cardinality(Buffer) = Cardinality(Buffer \ L) + Cardinality(L)
<1>1. IsFiniteSet(Buffer) /\ IsFiniteSet(L) /\ IsFiniteSet(Buffer \ L)
  BY FiniteAssumption, FS_Subset
<1>2. /\ Cardinality(L) \in Nat /\ Cardinality(Buffer \ L) \in Nat
      /\ Cardinality(Buffer) \in Nat
  BY <1>1, FS_CardinalityType
<1>3. Cardinality((Buffer \ L) \cup L)
        = Cardinality(Buffer \ L) + Cardinality(L) - Cardinality((Buffer \ L) \cap L)
  BY <1>1, FS_Union
<1>4. (Buffer \ L) \cup L = Buffer /\ (Buffer \ L) \cap L = {}
  OBVIOUS
<1>5. Cardinality({}) = 0
  BY FS_EmptySet
<1>6. Cardinality(Buffer) = Cardinality(Buffer \ L) + Cardinality(L) - 0
  BY <1>3, <1>4, <1>5
<1>7. QED
  BY <1>1, <1>2, <1>6

\* When every Buffer is out and yet some slot has none, there are fewer Buffers
\* than slots, but for the ones that are lost.
LEMMA TooFew ==
  ASSUME TypeInv, LeftInv, OwnInv, Empty, NEW z \in Slot, \A b \in Buffer : ~ Fills(b, z)
  PROVE  Cardinality(Buffer) < Demand + Cardinality(lost)
<1> DEFINE Present == Buffer \ lost
<1>0. lost \subseteq Buffer
  BY DEF TypeInv, TypeOK
<1>1. \A b \in Present : \E y \in Slot \ {z} : Fills(b, y)
  <2> TAKE b \in Present
  <2>1. PICK o \in Place : b \in Keeps(o)
    BY DEF OwnInv, Owned, Accounted, Empty
  <2>2. o # Nowhere
    BY <2>1, Lists
  <2>3. QED
    BY <2>1, <2>2, HeldFills
<1> DEFINE f == [b \in Present |-> CHOOSE y \in Slot \ {z} : Fills(b, y)]
           Rest == Slot \ {z}
<1>2. \A b \in Present : f[b] \in Rest /\ Fills(b, f[b])
  BY <1>1
<1>3. \A b, d \in Present : f[b] = f[d] => b = d
  BY <1>2, FilledOnce
<1>4. f \in [Present -> Rest]
  BY <1>2
<1>5. IsFiniteSet(Rest) /\ Cardinality(Rest) = Cardinality(Slot) - 1
  BY SlotsCounted, FS_RemoveElement
<1>6. /\ IsFiniteSet(Present) /\ Cardinality(Present) \in Nat /\ Cardinality(lost) \in Nat
      /\ Cardinality(Buffer) \in Nat
      /\ Cardinality(Buffer) = Cardinality(Present) + Cardinality(lost)
  BY <1>0, WithoutLost
<1> HIDE DEF f, Rest, Present
<1>7. ~ (Cardinality(Rest) < Cardinality(Present))
  BY <1>3, <1>4, <1>5, <1>6, FS_PigeonHole
<1>8. Cardinality(Rest) \in Nat /\ Cardinality(Slot) \in Nat
  BY <1>5, SlotsCounted, FS_CardinalityType
<1>9. Demand \in Nat
  BY DemandType
<1>10. QED
  BY <1>5, <1>6, <1>7, <1>8, <1>9, SlotsCounted

\* A manager that is about to take a Buffer has a free slot for it.
LEMMA TakerHasSlot ==
  ASSUME TypeInv, LeftInv, NEW m \in Manager,
         at[m] = "idle" \/ (at[m] = "tokenize" /\ found[m] < MAX_PACKETS)
  PROVE  \E z \in Slot : \A b \in Buffer : ~ Fills(b, z)
<1>1. CASE at[m] = "idle"
  <2>1. buffer[m] \notin Buffer /\ getBuffer[m] \notin Buffer
    BY <1>1, RelayAssumption DEF TypeInv, LocalOK
  <2>2. <<"manager", m>> \in Slot
    BY DEF Slot, ManagerSlot
  <2>3. QED
    BY <2>1, <2>2 DEF Fills
<1>2. CASE at[m] = "tokenize" /\ found[m] < MAX_PACKETS
  <2> DEFINE c == channel[m]
  <2>1. c \in Connection /\ managerOf[c] = m
    BY <1>2 DEF TypeInv, LocalOK
  <2>2. Reading(c) = found[m]
    BY <1>2, <2>1 DEF Reading
  <2>3. MAX_PACKETS \in Nat /\ found[m] \in Nat
    BY RelayAssumption DEF TypeInv, TypeOK
  <2>4. Len(ownBufferQueue[c]) < Backlog
    BY <1>2, <2>1, <2>2, <2>3, TokenizerBounded, BacklogType
  <2>5. ownBufferQueue[c] \in Seq(Buffer)
    BY <2>1 DEF TypeInv, TypeOK
  <2>6. Backlog \notin DOMAIN ownBufferQueue[c]
    BY <2>4, <2>5, BacklogType
  <2>7. <<"tokenizer", <<c, Backlog>>>> \in Slot
    BY <2>1, BacklogType DEF Slot, TokenizerSlot
  <2>8. \A b \in Buffer : ~ Fills(b, <<"tokenizer", <<c, Backlog>>>>)
    BY <2>6 DEF Fills
  <2>9. QED
    BY <2>7, <2>8
<1>3. QED
  BY <1>1, <1>2

\* Manager n is where it was, or somewhere else but there.
Elsewhere(n) == at' = at \/ \E l \in Labels \ {"exhausted"} : at' = [at EXCEPT ![n] = l]

\* Only Exhausted takes a manager there.
LEMMA OnlyExhausted ==
  ASSUME NEW n \in Manager, Step(n), ~ Exhausted(n)
  PROVE  Elsewhere(n)
<1> USE DEF Goto, Labels, Elsewhere
<1>1. ASSUME AllocateUdp(n) \/ AllocateTcp(n) \/ EndPut(n) \/ PutVoiceBuffer(n) PROVE Elsewhere(n)
  BY <1>1 DEF AllocateUdp, AllocateTcp, EndPut, PutVoiceBuffer
<1>2. ASSUME FindPacket(n) PROVE at' = at
  BY <1>2 DEF FindPacket
<1>3. ASSUME GetPacket(n) PROVE Elsewhere(n)
  BY <1>3 DEF GetPacket
<1>4. ASSUME ReadFails(n) \/ WrongLength(n) \/ NotActive(n)
      PROVE  Elsewhere(n)
  BY <1>4 DEF ReadFails, WrongLength, NotActive, FailTcp
<1>5. ASSUME NEW c \in Connection, TimeOut(n, c) PROVE at' = at
  BY <1>5 DEF TimeOut, localVars
<1>6. ASSUME DropUdp(n) \/ TooShort(n) \/ DiscardTcp(n) \/ LoseUdp(n) PROVE Elsewhere(n)
  BY <1>6 DEF DropUdp, TooShort, DiscardTcp, LoseUdp
<1>7. ASSUME NEW s \in Session, NEW k \in SeqNumber, Accepted(n, s, k) PROVE Elsewhere(n)
  BY <1>7 DEF Accepted
<1>8. ASSUME TestCalling(n) \/ ReadCalling(n) PROVE Elsewhere(n)
  BY <1>8 DEF TestCalling, ReadCalling, ReadOn
<1>9. ASSUME PollVoice(n) \/ Send(n) \/ ThrowAway(n) PROVE Elsewhere(n)
  BY <1>9 DEF PollVoice, Send, ThrowAway, ReadOn
<1>10. ASSUME NEW s \in Session, NoteAddress(n, s) PROVE Elsewhere(n)
  BY <1>10 DEF NoteAddress
<1>11. ASSUME TestAddress(n) \/ ReadAddress(n) PROVE Elsewhere(n)
  BY <1>11 DEF TestAddress, ReadAddress, EndAddress, ReadOn
<1>12. QED
  BY <1>1, <1>2, <1>3, <1>4, <1>5, <1>6, <1>7, <1>8, <1>9, <1>10, <1>11 DEF Step

\* What is lost stays lost.
LEMMA LostGrows == TypeInv /\ [Next]_vars => lost \subseteq lost'
<1> SUFFICES ASSUME [Next]_vars PROVE lost \subseteq lost'
  OBVIOUS
<1>1. CASE Environment
  BY <1>1 DEF Environment, SetCallingSession, registerSession, unregisterSession, reset
<1>2. ASSUME NEW m \in Manager, Step(m) PROVE lost \subseteq lost'
  BY <1>2 DEF Step, AllocateUdp, AllocateTcp, Exhausted, FindPacket, EndPut, GetPacket, ReadFails,
     TimeOut, DropUdp, WrongLength, NotActive, TooShort, DiscardTcp, LoseUdp, Accepted, NoteAddress,
     TestAddress, ReadAddress, FailTcp, PutVoiceBuffer, TestCalling, ReadCalling, PollVoice, Send,
     ThrowAway
<1>3. CASE UNCHANGED vars
  BY <1>3 DEF vars
<1>4. QED
  BY <1>1, <1>2, <1>3 DEF Next

\* No step takes a manager to where it finds the pool empty.
LEMMA NextEnough ==
  ASSUME TypeInv, LeftInv, OwnInv, NoManagerExhausted, [Next]_vars
  PROVE  NoManagerExhausted'
<1> SUFFICES ASSUME Cardinality(Buffer) >= Demand + Cardinality(lost'),
                    NEW m \in Manager, at'[m] = "exhausted"
             PROVE  FALSE
  BY DEF NoManagerExhausted
<1>0. /\ Cardinality(Buffer) >= Demand + Cardinality(lost)
      /\ Cardinality(Buffer) \in Nat /\ Cardinality(lost) \in Nat /\ Demand \in Nat
  <2>1. lost \subseteq Buffer /\ lost' \subseteq Buffer /\ lost \subseteq lost'
    BY NextType, LostGrows DEF TypeInv, TypeOK
  <2>2. IsFiniteSet(lost') /\ Cardinality(lost') \in Nat /\ Cardinality(lost) \in Nat
    BY <2>1, WithoutLost
  <2>3. Cardinality(lost) <= Cardinality(lost')
    BY <2>1, <2>2, FS_Subset
  <2>4. Cardinality(Buffer) \in Nat /\ Demand \in Nat
    BY FiniteAssumption, FS_CardinalityType, DemandType
  <2>5. QED
    BY <2>2, <2>3, <2>4
<1>1. at \in [Manager -> Labels] /\ at[m] # "exhausted"
  BY <1>0 DEF TypeInv, TypeOK, NoManagerExhausted
<1>2. CASE Exhausted(m)
  <2>1. Empty /\ (at[m] = "idle" \/ (at[m] = "tokenize" /\ found[m] < MAX_PACKETS))
    BY <1>2 DEF Exhausted
  <2>2. Cardinality(Buffer) < Demand + Cardinality(lost)
    BY <2>1, TakerHasSlot, TooFew
  <2>3. QED
    BY <1>0, <2>2
<1>3. ASSUME NEW n \in Manager, Step(n), ~ Exhausted(m) PROVE FALSE
  <2>1. CASE n = m
    BY <1>1, <1>3, <2>1, OnlyExhausted DEF Elsewhere
  <2>2. CASE n # m /\ ~ Exhausted(n)
    BY <1>1, <1>3, <2>2, OnlyExhausted DEF Elsewhere
  <2>3. CASE n # m /\ Exhausted(n)
    BY <1>1, <2>3 DEF Exhausted, Goto
  <2>4. QED
    BY <2>1, <2>2, <2>3
<1>4. CASE Environment
  BY <1>1, <1>4 DEF Environment, SetCallingSession, registerSession, unregisterSession, reset, localVars
<1>5. CASE UNCHANGED vars
  BY <1>1, <1>5 DEF vars, localVars
<1>6. QED
  BY <1>2, <1>3, <1>4, <1>5 DEF Next

\* The VoiceUdpManagers and VoiceTcpManagers do not test what BufferPool.allocate
\* returns.  It returns null to one of them only when UDP packets of an unknown type
\* (VoiceUdpManager.read has no branch for them) have left fewer Buffers than Demand;
\* nothing else, the deaths of managers included, uses the pool up.
THEOREM DemandBeyondLost == Spec => []NoManagerExhausted
<1>1. Init => NoManagerExhausted
  BY DEF Init, NoManagerExhausted
<1>2. TypeInv /\ LeftInv /\ OwnInv /\ NoManagerExhausted /\ [Next]_vars => NoManagerExhausted'
  BY NextEnough
<1>3. QED
  BY <1>1, <1>2, InitType, NextType, InitOwned, NextOwned, InitLeft, NextLeft, PTL DEF Spec
=============================================================================
