------------------------ MODULE SessionHandlerProofs ------------------------
(***************************************************************************)
(* Proofs about SessionHandler, for any number of sessions, handlers and   *)
(* channels: which handler threads can reach a session, why a handler      *)
(* finds the message that isWritable has announced, that messages are      *)
(* written in the order of registration and that no work is forgotten.     *)
(*                                                                         *)
(* The first argument is about handlersOf: every reference that leads a    *)
(* thread to a session - an entry of a queue, the field sessionHandler,    *)
(* the map, a local variable - leads to or from one of the session's       *)
(* handlers.  So a session that had one handler only is reached by that    *)
(* thread only, and no other one can take its last message between the two *)
(* looks, or write between its taking and its writing.                     *)
(***************************************************************************)
EXTENDS SessionHandler, FiniteSetTheorems, FunctionTheorems, TLAPS

USE ThreadAssumption, NoneAssumption DEF Registrar, Thread, Goto, poolVars,
    workVars, readVars, goVars, outVars

\* The session has, or had, a connection.
Connected(s) ==
  /\ sessionHandler[s] \in handlersOf[s]
  /\ socketChannel[s] \in Channel

SessionsConnected ==
  \A s \in Session :
    /\ handlersOf[s] # {} => Connected(s)
    /\ sessionHandler[s] # None => Connected(s)
    /\ sessionHandlerMapBySession[s] # None =>
         sessionHandlerMapBySession[s] \in handlersOf[s]
    /\ s \in invalid => Connected(s)

EntriesOwned ==
  \A h \in Handler : \A i \in DOMAIN sessionQueue[h] :
    h \in handlersOf[sessionQueue[h][i]]

HandlersOwn ==
  \A h \in Handler : at[h] # "loop" =>
    session[h] \in Session /\ h \in handlersOf[session[h]]

MonitorConnected ==
  at[Monitor] # "loop" => session[Monitor] \in Session /\ Connected(session[Monitor])

Targets ==
  /\ back[Monitor] # "operations"
  /\ \A r \in Registrar : at[r] \in RegisterPlaces =>
       target[r] \in Session /\ Connected(target[r])

ReaderOwns ==
  /\ at[Reader] \notin {"loop", "close"} => session[Reader] \in Session
  /\ at[Reader] # "loop" => channel \in Channel
  /\ at[Reader] \in {"mapChannel", "mapHandler"} => Connected(session[Reader])
  /\ at[Reader] \in {"putInputBuffer", "queue"} =>
       readHandler \in handlersOf[session[Reader]]
  /\ \A c \in Channel : sessionMapBySocketChannel[c] # None =>
       Connected(sessionMapBySocketChannel[c])

\* A handler about to take a message finds one, if it is the session's only one.
OutputKept ==
  \A h \in Handler :
    at[h] = "getOutputMessage" /\ Alone(session[h], h) =>
      outputMessageQueue[session[h]] # << >>

\* The inductive invariant.
IInv == /\ TypeOK
        /\ SessionsConnected /\ EntriesOwned
        /\ HandlersOwn /\ MonitorConnected /\ Targets /\ ReaderOwns
        /\ OutputKept /\ DiesOfSharing

-----------------------------------------------------------------------------
(***************************************************************************)
(* Each step keeps the invariant.                                          *)
(***************************************************************************)

LEMMA AcceptKept ==
  ASSUME IInv, NEW c \in Channel, Accept(c)
  PROVE  IInv'
<1>1. Pool'
  BY DEF IInv, TypeOK, Pool, Locals, Places, ReaderOwns, Accept
<1>2. Locals'
  <2>1. session' \in [Thread -> Session \cup {None}]
    <3>1. CASE UNCHANGED session
      BY <3>1 DEF IInv, TypeOK, Locals
    <3>2. CASE \E s \in free : session' = [session EXCEPT ![Reader] = s]
      <4>1. free \subseteq Session
        BY DEF IInv, TypeOK, Pool
      <4>2. QED
        BY <3>2, <4>1 DEF IInv, TypeOK, Locals
    <3>3. QED
      BY <3>1, <3>2 DEF Accept
  <2>2. channel' \in Channel \cup {None}
    BY DEF IInv, TypeOK, Locals, Accept
  <2>3. UNCHANGED <<target, back, message, readHandler>>
    BY DEF Accept
  <2>4. QED
    BY <2>1, <2>2, <2>3 DEF IInv, TypeOK, Locals
<1>3. Places'
  BY DEF IInv, TypeOK, Places, HandlerPlaces, ReaderPlaces, ClosePlaces,
     RegisterPlaces, ReaderOwns, Accept
<1>4. ReaderOwns'
  BY DEF IInv, TypeOK, Pool, Locals, Places, ReaderOwns, Connected, Accept
<1>5. /\ Queues' /\ SessionsConnected' /\ EntriesOwned' /\ HandlersOwn'
       /\ MonitorConnected' /\ Targets' /\ OutputKept' /\ DiesOfSharing'
  <2>1. \A h \in Handler : at'[h] = at[h] /\ session'[h] = session[h]
    BY DEF IInv, TypeOK, Locals, Places, Accept
  <2>2. at'[Monitor] = at[Monitor] /\ session'[Monitor] = session[Monitor]
    BY DEF IInv, TypeOK, Locals, Places, Accept
  <2>3. UNCHANGED <<socketChannel, sessionHandler, handlersOf, invalid, workVars, target,
                    back, message, written, sessionHandlerMapBySession>>
    BY DEF Accept
  <2>4. HandlersOwn' /\ OutputKept' /\ DiesOfSharing'
    BY <2>1, <2>3 DEF IInv, HandlersOwn, OutputKept, DiesOfSharing, Alone
  <2>5. MonitorConnected' /\ Targets'
    BY <2>1, <2>2, <2>3 DEF IInv, MonitorConnected, Targets, Connected
  <2>6. Queues' /\ SessionsConnected' /\ EntriesOwned'
    BY <2>3 DEF IInv, TypeOK, Queues, SessionsConnected, EntriesOwned, Connected
  <2>7. QED
    BY <2>4, <2>5, <2>6
<1>6. QED
  BY <1>1, <1>2, <1>3, <1>4, <1>5 DEF IInv, TypeOK

LEMMA InitSessionKept ==
  ASSUME IInv, NEW h \in Handler, InitSession(h)
  PROVE  IInv'
<1>1. Pool'
  BY DEF IInv, TypeOK, Pool, Locals, Places, ReaderOwns, InitSession
<1>2. Places'
  BY DEF IInv, TypeOK, Places, HandlerPlaces, ReaderPlaces, ClosePlaces,
     RegisterPlaces, ReaderOwns, InitSession
<1>3. SessionsConnected'
  BY DEF IInv, TypeOK, Pool, SessionsConnected, Connected, ReaderOwns,
     InitSession
<1>4. EntriesOwned'
  BY DEF IInv, TypeOK, Pool, Queues, Locals, EntriesOwned, ReaderOwns,
     InitSession
<1>5. HandlersOwn'
  BY DEF IInv, TypeOK, Pool, Locals, Places, HandlersOwn, ReaderOwns,
     InitSession
<1>6. MonitorConnected'
  BY DEF IInv, TypeOK, Pool, Locals, Places, MonitorConnected, Connected,
     ReaderOwns, InitSession
<1>7. Targets'
  BY DEF IInv, TypeOK, Pool, Locals, Places, Targets, Connected,
     RegisterPlaces, ReaderOwns, InitSession
<1>8. ReaderOwns'
  BY DEF IInv, TypeOK, Pool, Locals, Places, ReaderOwns, Connected, InitSession
<1>9. OutputKept'
  <2>1. \A g \in Handler : at'[g] = at[g]
    BY DEF IInv, TypeOK, Places, InitSession
  <2>2. ASSUME NEW g \in Handler, at[g] = "getOutputMessage", Alone(session[g], g)'
        PROVE  Alone(session[g], g)
    <3>1. session[g] \in Session /\ g \in handlersOf[session[g]]
      BY <2>2 DEF IInv, HandlersOwn
    <3>2. handlersOf[session[g]] \subseteq handlersOf'[session[g]]
      BY <3>1 DEF IInv, TypeOK, Pool, InitSession
    <3>3. QED
      BY <2>2, <3>1, <3>2 DEF Alone, InitSession
  <2>3. QED
    BY <2>1, <2>2 DEF IInv, OutputKept, InitSession
<1>10. DiesOfSharing'
  <2>1. \A g \in Handler : at'[g] = at[g]
    BY DEF IInv, TypeOK, Places, InitSession
  <2>2. ASSUME NEW g \in Handler, at[g] = "dead", Alone(session[g], g)'
        PROVE  Alone(session[g], g)
    <3>1. session[g] \in Session /\ g \in handlersOf[session[g]]
      BY <2>2 DEF IInv, HandlersOwn
    <3>2. handlersOf[session[g]] \subseteq handlersOf'[session[g]]
      BY <3>1 DEF IInv, TypeOK, Pool, InitSession
    <3>3. QED
      BY <2>2, <3>1, <3>2 DEF Alone, InitSession
  <2>3. QED
    BY <2>1, <2>2 DEF IInv, DiesOfSharing, InitSession
<1>11. Queues' /\ Locals'
  BY DEF IInv, TypeOK, Queues, Locals, InitSession
<1>12. QED
  BY <1>1, <1>2, <1>3, <1>4, <1>5, <1>6, <1>7, <1>8, <1>9, <1>10, <1>11 DEF IInv, TypeOK

LEMMA MapChannelKept ==
  ASSUME IInv, MapChannel
  PROVE  IInv'
<1>1. Pool'
  BY DEF IInv, TypeOK, Pool, Locals, Places, ReaderOwns, MapChannel
<1>2. Places'
  BY DEF IInv, TypeOK, Places, HandlerPlaces, ReaderPlaces, ClosePlaces,
     RegisterPlaces, ReaderOwns, MapChannel
<1>3. ReaderOwns'
  BY DEF IInv, TypeOK, Pool, Locals, Places, ReaderOwns, Connected, MapChannel
<1>4. /\ Queues' /\ Locals' /\ SessionsConnected' /\ EntriesOwned'
       /\ HandlersOwn' /\ MonitorConnected' /\ Targets' /\ OutputKept'
       /\ DiesOfSharing'
  BY DEF IInv, TypeOK, Pool, Locals, Places, Queues, SessionsConnected,
     Connected, EntriesOwned, HandlersOwn, MonitorConnected, Targets,
     RegisterPlaces, OutputKept, Alone, DiesOfSharing, MapChannel
<1>5. QED
  BY <1>1, <1>2, <1>3, <1>4 DEF IInv, TypeOK

LEMMA MapHandlerKept ==
  ASSUME IInv, MapHandler
  PROVE  IInv'
<1>1. Pool'
  BY DEF IInv, TypeOK, Pool, Locals, Places, ReaderOwns, MapHandler
<1>2. Places'
  BY DEF IInv, TypeOK, Places, HandlerPlaces, ReaderPlaces, ClosePlaces,
     RegisterPlaces, ReaderOwns, MapHandler
<1>3. SessionsConnected'
  BY DEF IInv, TypeOK, Pool, SessionsConnected, Connected, ReaderOwns,
     MapHandler
<1>4. ReaderOwns'
  BY DEF IInv, TypeOK, Pool, Locals, Places, ReaderOwns, Connected, MapHandler
<1>5. /\ Queues' /\ Locals' /\ EntriesOwned' /\ HandlersOwn'
       /\ MonitorConnected' /\ Targets' /\ OutputKept' /\ DiesOfSharing'
  BY DEF IInv, TypeOK, Pool, Locals, Places, Queues, EntriesOwned, HandlersOwn,
     MonitorConnected, Connected, Targets, RegisterPlaces, OutputKept, Alone,
     DiesOfSharing, MapHandler
<1>6. QED
  BY <1>1, <1>2, <1>3, <1>4, <1>5 DEF IInv, TypeOK

LEMMA ReadChannelKept ==
  ASSUME IInv, NEW c \in Channel, ReadChannel(c)
  PROVE  IInv'
<1>1. Locals'
  BY DEF IInv, TypeOK, Pool, Queues, Locals, Places, ReaderOwns, ReadChannel
<1>2. Places'
  BY DEF IInv, TypeOK, Places, HandlerPlaces, ReaderPlaces, ClosePlaces,
     RegisterPlaces, ReaderOwns, ReadChannel
<1>3. ReaderOwns'
  BY DEF IInv, TypeOK, Pool, Locals, Places, ReaderOwns, Connected, ReadChannel
<1>4. /\ Pool' /\ Queues' /\ SessionsConnected' /\ EntriesOwned'
       /\ HandlersOwn' /\ MonitorConnected' /\ Targets' /\ OutputKept'
       /\ DiesOfSharing'
  BY DEF IInv, TypeOK, Pool, Locals, Places, Queues, SessionsConnected,
     Connected, EntriesOwned, HandlersOwn, MonitorConnected, Targets,
     RegisterPlaces, OutputKept, Alone, DiesOfSharing, ReadChannel
<1>5. QED
  BY <1>1, <1>2, <1>3, <1>4 DEF IInv, TypeOK

LEMMA GetHandlerKept ==
  ASSUME IInv, GetHandler
  PROVE  IInv'
<1>1. Locals'
  BY DEF IInv, TypeOK, Pool, Queues, Locals, Places, ReaderOwns,
     SessionsConnected, Connected, GetHandler
<1>2. Places'
  BY DEF IInv, TypeOK, Places, HandlerPlaces, ReaderPlaces, ClosePlaces,
     RegisterPlaces, ReaderOwns, SessionsConnected, Connected, GetHandler
<1>3. ReaderOwns'
  BY DEF IInv, TypeOK, Pool, Locals, Places, ReaderOwns, Connected,
     SessionsConnected, GetHandler
<1>4. /\ Pool' /\ Queues' /\ SessionsConnected' /\ EntriesOwned'
       /\ HandlersOwn' /\ MonitorConnected' /\ Targets' /\ OutputKept'
       /\ DiesOfSharing'
  BY DEF IInv, TypeOK, Pool, Locals, Places, Queues, SessionsConnected,
     Connected, EntriesOwned, HandlersOwn, MonitorConnected, Targets,
     RegisterPlaces, OutputKept, Alone, DiesOfSharing, GetHandler
<1>5. QED
  BY <1>1, <1>2, <1>3, <1>4 DEF IInv, TypeOK

LEMMA putInputBufferKept ==
  ASSUME IInv, putInputBuffer
  PROVE  IInv'
<1>1. Queues'
  BY DEF IInv, TypeOK, Pool, Queues, Locals, Places, ReaderOwns, putInputBuffer
<1>2. Places'
  BY DEF IInv, TypeOK, Places, HandlerPlaces, ReaderPlaces, ClosePlaces,
     RegisterPlaces, ReaderOwns, putInputBuffer
<1>3. ReaderOwns'
  BY DEF IInv, TypeOK, Pool, Locals, Places, ReaderOwns, Connected,
     putInputBuffer
<1>4. /\ Pool' /\ Locals' /\ SessionsConnected' /\ EntriesOwned'
       /\ HandlersOwn' /\ MonitorConnected' /\ Targets' /\ OutputKept'
       /\ DiesOfSharing'
  BY DEF IInv, TypeOK, Pool, Locals, Places, Queues, SessionsConnected,
     Connected, EntriesOwned, HandlersOwn, MonitorConnected, Targets,
     RegisterPlaces, OutputKept, Alone, DiesOfSharing, putInputBuffer
<1>5. QED
  BY <1>1, <1>2, <1>3, <1>4 DEF IInv, TypeOK

LEMMA QueueReadKept ==
  ASSUME IInv, QueueRead
  PROVE  IInv'
<1>1. Queues'
  BY DEF IInv, TypeOK, Pool, Queues, Locals, Places, ReaderOwns, QueueRead
<1>2. Places'
  BY DEF IInv, TypeOK, Places, HandlerPlaces, ReaderPlaces, ClosePlaces,
     RegisterPlaces, ReaderOwns, QueueRead
<1>3. EntriesOwned'
  BY DEF IInv, TypeOK, Pool, Queues, Locals, EntriesOwned, ReaderOwns,
     QueueRead
<1>4. ReaderOwns'
  BY DEF IInv, TypeOK, Pool, Locals, Places, ReaderOwns, Connected, QueueRead
<1>5. /\ Pool' /\ Locals' /\ SessionsConnected' /\ HandlersOwn'
       /\ MonitorConnected' /\ Targets' /\ OutputKept' /\ DiesOfSharing'
  BY DEF IInv, TypeOK, Pool, Locals, Places, Queues, SessionsConnected,
     Connected, HandlersOwn, MonitorConnected, Targets, RegisterPlaces,
     OutputKept, Alone, DiesOfSharing, QueueRead
<1>6. QED
  BY <1>1, <1>2, <1>3, <1>4, <1>5 DEF IInv, TypeOK

LEMMA closeKept ==
  ASSUME IInv, close
  PROVE  IInv'
<1>1. Pool'
  BY DEF IInv, TypeOK, Pool, Locals, Places, ReaderOwns, close
<1>2. Places'
  BY DEF IInv, TypeOK, Places, HandlerPlaces, ReaderPlaces, ClosePlaces,
     RegisterPlaces, ReaderOwns, close
<1>3. SessionsConnected'
  BY DEF IInv, TypeOK, Pool, SessionsConnected, Connected, ReaderOwns, close
<1>4. ReaderOwns'
  BY DEF IInv, TypeOK, Pool, Locals, Places, ReaderOwns, Connected, close
<1>5. /\ Queues' /\ Locals' /\ EntriesOwned' /\ HandlersOwn'
       /\ MonitorConnected' /\ Targets' /\ OutputKept' /\ DiesOfSharing'
  BY DEF IInv, TypeOK, Pool, Locals, Places, Queues, EntriesOwned, HandlersOwn,
     MonitorConnected, Connected, Targets, RegisterPlaces, OutputKept, Alone,
     DiesOfSharing, close
<1>6. QED
  BY <1>1, <1>2, <1>3, <1>4, <1>5 DEF IInv, TypeOK

LEMMA registerOutputMessageKept ==
  ASSUME IInv, NEW r \in Registrar, registerOutputMessage(r)
  PROVE  IInv'
<1>1. Queues'
  <2>1. target[r] \in Session
    BY DEF IInv, Targets, RegisterPlaces, registerOutputMessage
  <2>2. registered' \in Nat
    BY DEF IInv, TypeOK, Queues, registerOutputMessage
  <2>3. Append(outputMessageQueue[target[r]], registered') \in Seq(Nat)
    BY <2>1, <2>2 DEF IInv, TypeOK, Queues
  <2>4. QED
    BY <2>2, <2>3 DEF IInv, TypeOK, Queues, registerOutputMessage
<1>2. Places'
  BY DEF IInv, TypeOK, Places, HandlerPlaces, ReaderPlaces, ClosePlaces,
     RegisterPlaces, Targets, registerOutputMessage
<1>3. HandlersOwn'
  BY DEF IInv, TypeOK, Pool, Locals, Places, HandlersOwn, Targets,
     registerOutputMessage
<1>4. MonitorConnected'
  BY DEF IInv, TypeOK, Pool, Locals, Places, MonitorConnected, Connected,
     Targets, registerOutputMessage
<1>5. Targets'
  BY DEF IInv, TypeOK, Pool, Locals, Places, Targets, Connected,
     RegisterPlaces, registerOutputMessage
<1>6. OutputKept'
  <2> SUFFICES ASSUME NEW h \in Handler, at'[h] = "getOutputMessage",
                      Alone(session[h], h)'
               PROVE  (outputMessageQueue[session[h]] # << >>)'
    BY DEF OutputKept
  <2>1. at[h] = "getOutputMessage"
    BY DEF IInv, TypeOK, Places, registerOutputMessage
  <2>2. session[h] \in Session /\ outputMessageQueue[session[h]] # << >>
    BY <2>1 DEF IInv, HandlersOwn, OutputKept, Alone, registerOutputMessage
  <2>3. outputMessageQueue[session[h]] \in Seq(Nat)
    BY <2>2 DEF IInv, TypeOK, Queues
  <2>4. Append(outputMessageQueue[session[h]], registered') # << >>
    BY <2>3
  <2>5. QED
    BY <2>2, <2>4 DEF IInv, TypeOK, Queues, registerOutputMessage
<1>7. DiesOfSharing'
  BY DEF IInv, TypeOK, Pool, Queues, Locals, Places, DiesOfSharing, OutputKept,
     HandlersOwn, Alone, Targets, registerOutputMessage
<1>8. /\ Pool' /\ Locals' /\ SessionsConnected' /\ EntriesOwned'
       /\ ReaderOwns'
  BY DEF IInv, TypeOK, Pool, Locals, Places, SessionsConnected, Connected,
     EntriesOwned, ReaderOwns, registerOutputMessage
<1>9. QED
  BY <1>1, <1>2, <1>3, <1>4, <1>5, <1>6, <1>7, <1>8 DEF IInv, TypeOK

LEMMA QueueMessageKept ==
  ASSUME IInv, NEW r \in Registrar, QueueMessage(r)
  PROVE  IInv'
<1>1. Queues'
  <2>1. target[r] \in Session /\ sessionHandler[target[r]] \in Handler
    BY DEF IInv, TypeOK, Pool, Targets, Connected, RegisterPlaces, QueueMessage
  <2>2. Append(sessionQueue[sessionHandler[target[r]]], target[r]) \in Seq(Session)
    BY <2>1 DEF IInv, TypeOK, Queues
  <2>3. QED
    BY <2>2 DEF IInv, TypeOK, Queues, QueueMessage
<1>2. Places'
  <2>1. back[r] \in {"loop", "operations", "disconnect"}
    BY DEF IInv, TypeOK, Locals
  <2>2. r = Monitor => back[r] # "operations"
    BY DEF IInv, Targets
  <2>3. QED
    BY <2>1, <2>2 DEF IInv, TypeOK, Places, HandlerPlaces, ReaderPlaces,
       ClosePlaces, RegisterPlaces, QueueMessage
<1>3. EntriesOwned'
  <2>1. target[r] \in Session /\ sessionHandler[target[r]] \in Handler
        /\ sessionHandler[target[r]] \in handlersOf[target[r]]
    BY DEF IInv, TypeOK, Pool, Targets, Connected, RegisterPlaces, QueueMessage
  <2>2. UNCHANGED handlersOf
    BY DEF QueueMessage
  <2>3. ASSUME NEW h \in Handler, NEW i \in DOMAIN sessionQueue'[h]
        PROVE  h \in handlersOf[sessionQueue'[h][i]]
    <3>1. CASE h = sessionHandler[target[r]]
      <4>1. sessionQueue'[h] = Append(sessionQueue[h], target[r])
        BY <3>1 DEF IInv, TypeOK, Queues, QueueMessage
      <4>2. sessionQueue[h] \in Seq(Session)
        BY DEF IInv, TypeOK, Queues
      <4>3. \/ i \in DOMAIN sessionQueue[h] /\ sessionQueue'[h][i] = sessionQueue[h][i]
            \/ sessionQueue'[h][i] = target[r]
        BY <2>1, <4>1, <4>2
      <4>4. QED
        BY <2>1, <3>1, <4>3 DEF IInv, EntriesOwned
    <3>2. CASE h # sessionHandler[target[r]]
      BY <3>2 DEF IInv, TypeOK, Queues, EntriesOwned, QueueMessage
    <3>3. QED
      BY <3>1, <3>2
  <2>4. QED
    BY <2>2, <2>3 DEF EntriesOwned
<1>4. HandlersOwn'
  BY DEF IInv, TypeOK, Pool, Locals, Places, HandlersOwn, Targets, QueueMessage
<1>5. MonitorConnected'
  BY DEF IInv, TypeOK, Pool, Locals, Places, MonitorConnected, Connected,
     Targets, QueueMessage
<1>6. Targets'
  BY DEF IInv, TypeOK, Pool, Locals, Places, Targets, Connected,
     RegisterPlaces, QueueMessage
<1>7. OutputKept'
  BY DEF IInv, TypeOK, Pool, Queues, Locals, Places, OutputKept, HandlersOwn,
     Alone, Targets, QueueMessage
<1>8. DiesOfSharing'
  BY DEF IInv, TypeOK, Pool, Queues, Locals, Places, DiesOfSharing, OutputKept,
     HandlersOwn, Alone, Targets, QueueMessage
<1>9. Pool' /\ Locals' /\ SessionsConnected' /\ ReaderOwns'
  BY DEF IInv, TypeOK, Pool, Locals, Places, SessionsConnected, Connected,
     ReaderOwns, QueueMessage
<1>10. QED
  BY <1>1, <1>2, <1>3, <1>4, <1>5, <1>6, <1>7, <1>8, <1>9 DEF IInv, TypeOK

LEMMA OnCloseKept ==
  ASSUME IInv, NEW r \in Registrar, OnClose(r)
  PROVE  IInv'
<1>1. Queues'
  BY DEF IInv, TypeOK, Pool, Queues, Locals, Places, HandlersOwn,
     MonitorConnected, Targets, SessionsConnected, Call, Connected, OnClose
<1>2. Locals'
  <2>1. CASE \E s \in Session \ {session[r]} : Call(r, s, "disconnect")
    BY <2>1 DEF IInv, TypeOK, Locals, OnClose, Call
  <2>2. CASE UNCHANGED goVars
    BY <2>2 DEF IInv, TypeOK, Locals, OnClose
  <2>3. QED
    BY <2>1, <2>2 DEF OnClose
<1>3. Places'
  BY DEF IInv, TypeOK, Places, HandlerPlaces, ReaderPlaces, ClosePlaces,
     RegisterPlaces, HandlersOwn, MonitorConnected, Targets, SessionsConnected,
     Call, Connected, OnClose
<1>4. HandlersOwn'
  BY DEF IInv, TypeOK, Pool, Locals, Places, HandlersOwn, MonitorConnected,
     Targets, SessionsConnected, Call, Connected, OnClose
<1>5. MonitorConnected'
  BY DEF IInv, TypeOK, Pool, Locals, Places, MonitorConnected, Connected,
     HandlersOwn, Targets, SessionsConnected, Call, OnClose
<1>6. Targets'
  BY DEF IInv, TypeOK, Pool, Locals, Places, Targets, Connected,
     RegisterPlaces, HandlersOwn, MonitorConnected, SessionsConnected, Call,
     OnClose
<1>7. OutputKept'
  BY DEF IInv, TypeOK, Pool, Queues, Locals, Places, OutputKept, HandlersOwn,
     Alone, MonitorConnected, Targets, SessionsConnected, Call, Connected,
     OnClose
<1>8. DiesOfSharing'
  BY DEF IInv, TypeOK, Pool, Queues, Locals, Places, DiesOfSharing, OutputKept,
     HandlersOwn, Alone, MonitorConnected, Targets, SessionsConnected, Call,
     Connected, OnClose
<1>9. Pool' /\ SessionsConnected' /\ EntriesOwned' /\ ReaderOwns'
  <2>1. at'[Reader] = at[Reader]
    BY DEF IInv, TypeOK, Places, OnClose, Call
  <2>2. UNCHANGED <<poolVars, sessionQueue, readVars, invalid, session>>
    BY DEF OnClose
  <2>3. Pool' /\ EntriesOwned'
    BY <2>2 DEF IInv, TypeOK, Pool, EntriesOwned
  <2>4. SessionsConnected' /\ ReaderOwns'
    BY <2>1, <2>2 DEF IInv, SessionsConnected, ReaderOwns, Connected
  <2>5. QED
    BY <2>3, <2>4
<1>10. QED
  BY <1>1, <1>2, <1>3, <1>4, <1>5, <1>6, <1>7, <1>8, <1>9 DEF IInv, TypeOK

LEMMA DisconnectKept ==
  ASSUME IInv, NEW r \in Registrar, Disconnect(r)
  PROVE  IInv'
<1>1. Pool'
  <2>1. session[r] \in Session /\ socketChannel[session[r]] \in Channel
    BY DEF IInv, HandlersOwn, MonitorConnected, SessionsConnected, Connected,
       Disconnect
  <2>2. QED
    BY <2>1 DEF IInv, TypeOK, Pool, Disconnect
<1>2. Places'
  BY DEF IInv, TypeOK, Places, HandlerPlaces, ReaderPlaces, ClosePlaces,
     RegisterPlaces, HandlersOwn, MonitorConnected, Targets, Disconnect
<1>3. HandlersOwn'
  BY DEF IInv, TypeOK, Pool, Locals, Places, HandlersOwn, MonitorConnected,
     Targets, Disconnect
<1>4. MonitorConnected'
  BY DEF IInv, TypeOK, Pool, Locals, Places, MonitorConnected, Connected,
     HandlersOwn, Targets, Disconnect
<1>5. Targets'
  BY DEF IInv, TypeOK, Pool, Locals, Places, Targets, Connected,
     RegisterPlaces, HandlersOwn, MonitorConnected, Disconnect
<1>6. OutputKept'
  BY DEF IInv, TypeOK, Pool, Queues, Locals, Places, OutputKept, HandlersOwn,
     Alone, MonitorConnected, Targets, Disconnect
<1>7. DiesOfSharing'
  BY DEF IInv, TypeOK, Pool, Queues, Locals, Places, DiesOfSharing, OutputKept,
     HandlersOwn, Alone, MonitorConnected, Targets, Disconnect
<1>8. /\ Queues' /\ Locals' /\ SessionsConnected' /\ EntriesOwned'
       /\ ReaderOwns'
  BY DEF IInv, TypeOK, Pool, Locals, Places, Queues, SessionsConnected,
     Connected, EntriesOwned, ReaderOwns, Disconnect
<1>9. QED
  BY <1>1, <1>2, <1>3, <1>4, <1>5, <1>6, <1>7, <1>8 DEF IInv, TypeOK

LEMMA UnmapHandlerKept ==
  ASSUME IInv, NEW r \in Registrar, UnmapHandler(r)
  PROVE  IInv'
<1>1. Pool'
  BY DEF IInv, TypeOK, Pool, Locals, Places, HandlersOwn, MonitorConnected,
     Targets, UnmapHandler
<1>2. Places'
  BY DEF IInv, TypeOK, Places, HandlerPlaces, ReaderPlaces, ClosePlaces,
     RegisterPlaces, HandlersOwn, MonitorConnected, Targets, UnmapHandler
<1>3. SessionsConnected'
  BY DEF IInv, TypeOK, Pool, SessionsConnected, Connected, HandlersOwn,
     MonitorConnected, Targets, UnmapHandler
<1>4. HandlersOwn'
  BY DEF IInv, TypeOK, Pool, Locals, Places, HandlersOwn, MonitorConnected,
     Targets, UnmapHandler
<1>5. MonitorConnected'
  BY DEF IInv, TypeOK, Pool, Locals, Places, MonitorConnected, Connected,
     HandlersOwn, Targets, UnmapHandler
<1>6. Targets'
  BY DEF IInv, TypeOK, Pool, Locals, Places, Targets, Connected,
     RegisterPlaces, HandlersOwn, MonitorConnected, UnmapHandler
<1>7. OutputKept'
  BY DEF IInv, TypeOK, Pool, Queues, Locals, Places, OutputKept, HandlersOwn,
     Alone, MonitorConnected, Targets, UnmapHandler
<1>8. DiesOfSharing'
  BY DEF IInv, TypeOK, Pool, Queues, Locals, Places, DiesOfSharing, OutputKept,
     HandlersOwn, Alone, MonitorConnected, Targets, UnmapHandler
<1>9. Queues' /\ Locals' /\ EntriesOwned' /\ ReaderOwns'
  BY DEF IInv, TypeOK, Pool, Locals, Places, Queues, EntriesOwned, ReaderOwns,
     Connected, UnmapHandler
<1>10. QED
  BY <1>1, <1>2, <1>3, <1>4, <1>5, <1>6, <1>7, <1>8, <1>9 DEF IInv, TypeOK

LEMMA UnmapChannelKept ==
  ASSUME IInv, NEW r \in Registrar, UnmapChannel(r)
  PROVE  IInv'
<1>1. Pool'
  BY DEF IInv, TypeOK, Pool, Locals, Places, HandlersOwn, MonitorConnected,
     Targets, UnmapChannel
<1>2. Places'
  BY DEF IInv, TypeOK, Places, HandlerPlaces, ReaderPlaces, ClosePlaces,
     RegisterPlaces, HandlersOwn, MonitorConnected, Targets, UnmapChannel
<1>3. HandlersOwn'
  BY DEF IInv, TypeOK, Pool, Locals, Places, HandlersOwn, MonitorConnected,
     Targets, UnmapChannel
<1>4. MonitorConnected'
  BY DEF IInv, TypeOK, Pool, Locals, Places, MonitorConnected, Connected,
     HandlersOwn, Targets, UnmapChannel
<1>5. Targets'
  BY DEF IInv, TypeOK, Pool, Locals, Places, Targets, Connected,
     RegisterPlaces, HandlersOwn, MonitorConnected, UnmapChannel
<1>6. ReaderOwns'
  BY DEF IInv, TypeOK, Pool, Locals, Places, ReaderOwns, Connected,
     HandlersOwn, MonitorConnected, Targets, UnmapChannel
<1>7. OutputKept'
  BY DEF IInv, TypeOK, Pool, Queues, Locals, Places, OutputKept, HandlersOwn,
     Alone, MonitorConnected, Targets, UnmapChannel
<1>8. DiesOfSharing'
  BY DEF IInv, TypeOK, Pool, Queues, Locals, Places, DiesOfSharing, OutputKept,
     HandlersOwn, Alone, MonitorConnected, Targets, UnmapChannel
<1>9. Queues' /\ Locals' /\ SessionsConnected' /\ EntriesOwned'
  BY DEF IInv, TypeOK, Queues, Locals, SessionsConnected, Connected,
     EntriesOwned, UnmapChannel
<1>10. QED
  BY <1>1, <1>2, <1>3, <1>4, <1>5, <1>6, <1>7, <1>8, <1>9 DEF IInv, TypeOK

LEMMA DeallocateKept ==
  ASSUME IInv, NEW r \in Registrar, Deallocate(r)
  PROVE  IInv'
<1>1. Pool'
  BY DEF IInv, TypeOK, Pool, Locals, Places, HandlersOwn, MonitorConnected,
     Targets, Deallocate
<1>2. Places'
  BY DEF IInv, TypeOK, Places, HandlerPlaces, ReaderPlaces, ClosePlaces,
     RegisterPlaces, HandlersOwn, MonitorConnected, Targets, Deallocate
<1>3. HandlersOwn'
  BY DEF IInv, TypeOK, Pool, Locals, Places, HandlersOwn, MonitorConnected,
     Targets, Deallocate
<1>4. MonitorConnected'
  BY DEF IInv, TypeOK, Pool, Locals, Places, MonitorConnected, Connected,
     HandlersOwn, Targets, Deallocate
<1>5. Targets'
  BY DEF IInv, TypeOK, Pool, Locals, Places, Targets, Connected,
     RegisterPlaces, HandlersOwn, MonitorConnected, Deallocate
<1>6. OutputKept'
  BY DEF IInv, TypeOK, Pool, Queues, Locals, Places, OutputKept, HandlersOwn,
     Alone, MonitorConnected, Targets, Deallocate
<1>7. DiesOfSharing'
  BY DEF IInv, TypeOK, Pool, Queues, Locals, Places, DiesOfSharing, OutputKept,
     HandlersOwn, Alone, MonitorConnected, Targets, Deallocate
<1>8. /\ Queues' /\ Locals' /\ SessionsConnected' /\ EntriesOwned'
       /\ ReaderOwns'
  BY DEF IInv, TypeOK, Pool, Locals, Places, Queues, SessionsConnected,
     Connected, EntriesOwned, ReaderOwns, Deallocate
<1>9. QED
  BY <1>1, <1>2, <1>3, <1>4, <1>5, <1>6, <1>7, <1>8 DEF IInv, TypeOK

LEMMA QueueInvalidKept ==
  ASSUME IInv, NEW s \in Session, QueueInvalid(s)
  PROVE  IInv'
<1>1. Pool'
  BY DEF IInv, TypeOK, Pool, Locals, Places, SessionsConnected, Connected,
     QueueInvalid
<1>2. SessionsConnected'
  BY DEF IInv, TypeOK, Pool, SessionsConnected, Connected, QueueInvalid
<1>3. /\ Queues' /\ Locals' /\ Places' /\ EntriesOwned'
       /\ HandlersOwn' /\ MonitorConnected' /\ Targets' /\ ReaderOwns'
       /\ OutputKept' /\ DiesOfSharing'
  BY DEF IInv, TypeOK, Queues, Locals, Places, EntriesOwned, HandlersOwn,
     MonitorConnected, Connected, Targets, RegisterPlaces, ReaderOwns,
     OutputKept, Alone, DiesOfSharing, QueueInvalid
<1>4. QED
  BY <1>1, <1>2, <1>3 DEF IInv, TypeOK

LEMMA DeleteInvalidKept ==
  ASSUME IInv, NEW s \in Session, DeleteInvalid(s)
  PROVE  IInv'
<1>1. Pool'
  BY DEF IInv, TypeOK, Pool, Locals, Places, SessionsConnected, Connected,
     DeleteInvalid
<1>2. Locals'
  BY DEF IInv, TypeOK, Pool, Queues, Locals, Places, SessionsConnected,
     Connected, DeleteInvalid
<1>3. Places'
  BY DEF IInv, TypeOK, Places, HandlerPlaces, ReaderPlaces, ClosePlaces,
     RegisterPlaces, SessionsConnected, Connected, DeleteInvalid
<1>4. SessionsConnected'
  BY DEF IInv, TypeOK, Pool, SessionsConnected, Connected, DeleteInvalid
<1>5. MonitorConnected'
  BY DEF IInv, TypeOK, Pool, Locals, Places, MonitorConnected, Connected,
     SessionsConnected, DeleteInvalid
<1>6. Targets'
  BY DEF IInv, TypeOK, Pool, Locals, Places, Targets, Connected,
     RegisterPlaces, SessionsConnected, DeleteInvalid
<1>7. /\ Queues' /\ EntriesOwned' /\ HandlersOwn' /\ ReaderOwns'
       /\ OutputKept' /\ DiesOfSharing'
  BY DEF IInv, TypeOK, Pool, Locals, Places, Queues, EntriesOwned, HandlersOwn,
     ReaderOwns, Connected, OutputKept, Alone, DiesOfSharing, DeleteInvalid
<1>8. QED
  BY <1>1, <1>2, <1>3, <1>4, <1>5, <1>6, <1>7 DEF IInv, TypeOK

LEMMA PollKept ==
  ASSUME IInv, NEW h \in Handler, Poll(h)
  PROVE  IInv'
<1>1. Queues'
  BY DEF IInv, TypeOK, Pool, Queues, Locals, Places, EntriesOwned, Poll
<1>2. Locals'
  <2>1. Head(sessionQueue[h]) \in Session
    BY DEF IInv, TypeOK, Queues, Poll
  <2>2. session' = [session EXCEPT ![h] = Head(sessionQueue[h])]
    BY DEF Poll
  <2>3. session' \in [Thread -> Session \cup {None}]
    BY <2>1, <2>2 DEF IInv, TypeOK, Locals
  <2>4. UNCHANGED <<target, back, message, channel, readHandler>>
    BY DEF Poll
  <2>5. QED
    BY <2>3, <2>4 DEF IInv, TypeOK, Locals
<1>3. Places'
  BY DEF IInv, TypeOK, Places, HandlerPlaces, ReaderPlaces, ClosePlaces,
     RegisterPlaces, EntriesOwned, Poll
<1>4. EntriesOwned'
  <2>1. sessionQueue[h] \in Seq(Session) /\ sessionQueue[h] # << >>
    BY DEF IInv, TypeOK, Queues, Poll
  <2>2. \A i \in DOMAIN Tail(sessionQueue[h]) :
          i + 1 \in DOMAIN sessionQueue[h] /\ Tail(sessionQueue[h])[i] = sessionQueue[h][i + 1]
    BY <2>1
  <2>3. \A i \in DOMAIN Tail(sessionQueue[h]) : h \in handlersOf[Tail(sessionQueue[h])[i]]
    BY <2>2 DEF IInv, EntriesOwned
  <2>4. sessionQueue' = [sessionQueue EXCEPT ![h] = Tail(@)] /\ handlersOf' = handlersOf
    BY DEF Poll, poolVars
  <2>5. QED
    BY <2>3, <2>4 DEF IInv, TypeOK, Queues, EntriesOwned
<1>5. HandlersOwn'
  <2>1. sessionQueue[h] \in Seq(Session) /\ sessionQueue[h] # << >>
    BY DEF IInv, TypeOK, Queues, Poll
  <2>2. Head(sessionQueue[h]) \in Session /\ 1 \in DOMAIN sessionQueue[h]
        /\ Head(sessionQueue[h]) = sessionQueue[h][1]
    BY <2>1
  <2>3. h \in handlersOf[Head(sessionQueue[h])]
    BY <2>2 DEF IInv, EntriesOwned
  <2>4. QED
    BY <2>2, <2>3 DEF IInv, TypeOK, Locals, Places, HandlersOwn, Poll
<1>6. Targets'
  BY DEF IInv, TypeOK, Pool, Locals, Places, Targets, Connected,
     RegisterPlaces, EntriesOwned, Poll
<1>7. OutputKept'
  BY DEF IInv, TypeOK, Pool, Queues, Locals, Places, OutputKept, HandlersOwn,
     Alone, EntriesOwned, Poll
<1>8. DiesOfSharing'
  BY DEF IInv, TypeOK, Pool, Queues, Locals, Places, DiesOfSharing, OutputKept,
     HandlersOwn, Alone, EntriesOwned, Poll
<1>9. Pool' /\ SessionsConnected' /\ MonitorConnected' /\ ReaderOwns'
  BY DEF IInv, TypeOK, Pool, Locals, Places, SessionsConnected, Connected,
     MonitorConnected, ReaderOwns, Poll
<1>10. QED
  BY <1>1, <1>2, <1>3, <1>4, <1>5, <1>6, <1>7, <1>8, <1>9 DEF IInv, TypeOK

LEMMA isReadableKept ==
  ASSUME IInv, NEW h \in Handler, isReadable(h)
  PROVE  IInv'
<1>1. Places'
  BY DEF IInv, TypeOK, Places, HandlerPlaces, ReaderPlaces, ClosePlaces,
     RegisterPlaces, HandlersOwn, isReadable
<1>2. HandlersOwn'
  BY DEF IInv, TypeOK, Pool, Locals, Places, HandlersOwn, isReadable
<1>3. Targets'
  BY DEF IInv, TypeOK, Pool, Locals, Places, Targets, Connected,
     RegisterPlaces, HandlersOwn, isReadable
<1>4. OutputKept'
  BY DEF IInv, TypeOK, Pool, Queues, Locals, Places, OutputKept, HandlersOwn,
     Alone, isReadable
<1>5. DiesOfSharing'
  BY DEF IInv, TypeOK, Pool, Queues, Locals, Places, DiesOfSharing, OutputKept,
     HandlersOwn, Alone, isReadable
<1>6. /\ Pool' /\ Queues' /\ Locals' /\ SessionsConnected'
       /\ EntriesOwned' /\ MonitorConnected' /\ ReaderOwns'
  BY DEF IInv, TypeOK, Pool, Locals, Places, Queues, SessionsConnected,
     Connected, EntriesOwned, MonitorConnected, ReaderOwns, isReadable
<1>7. QED
  BY <1>1, <1>2, <1>3, <1>4, <1>5, <1>6 DEF IInv, TypeOK

LEMMA getInputBufferKept ==
  ASSUME IInv, NEW h \in Handler, getInputBuffer(h)
  PROVE  IInv'
<1>1. Queues'
  <2>1. CASE inputBufferQueue[session[h]] = << >>
    BY <2>1 DEF IInv, TypeOK, Queues, getInputBuffer
  <2>2. CASE inputBufferQueue[session[h]] # << >>
    <3>1. session[h] \in Session
      BY DEF IInv, HandlersOwn, getInputBuffer
    <3>2. Tail(inputBufferQueue[session[h]]) \in Seq(Channel)
      BY <2>2, <3>1 DEF IInv, TypeOK, Queues
    <3>3. QED
      BY <2>2, <3>2 DEF IInv, TypeOK, Queues, getInputBuffer
  <2>3. QED
    BY <2>1, <2>2
<1>2. Places'
  BY DEF IInv, TypeOK, Places, HandlerPlaces, ReaderPlaces, ClosePlaces,
     RegisterPlaces, HandlersOwn, getInputBuffer
<1>3. HandlersOwn'
  BY DEF IInv, TypeOK, Pool, Locals, Places, HandlersOwn, getInputBuffer
<1>4. Targets'
  BY DEF IInv, TypeOK, Pool, Locals, Places, Targets, Connected,
     RegisterPlaces, HandlersOwn, getInputBuffer
<1>5. OutputKept'
  BY DEF IInv, TypeOK, Pool, Queues, Locals, Places, OutputKept, HandlersOwn,
     Alone, getInputBuffer
<1>6. DiesOfSharing'
  BY DEF IInv, TypeOK, Pool, Queues, Locals, Places, DiesOfSharing, OutputKept,
     HandlersOwn, Alone, getInputBuffer
<1>7. /\ Pool' /\ Locals' /\ SessionsConnected' /\ EntriesOwned'
       /\ MonitorConnected' /\ ReaderOwns'
  BY DEF IInv, TypeOK, Pool, Locals, Places, SessionsConnected, Connected,
     EntriesOwned, MonitorConnected, ReaderOwns, getInputBuffer
<1>8. QED
  BY <1>1, <1>2, <1>3, <1>4, <1>5, <1>6, <1>7 DEF IInv, TypeOK

LEMMA AnswerKept ==
  ASSUME IInv, NEW h \in Handler, Answer(h)
  PROVE  IInv'
<1>1. Locals'
  BY DEF IInv, TypeOK, Pool, Queues, Locals, Places, SessionsConnected, Call,
     Connected, Answer
<1>2. Places'
  BY DEF IInv, TypeOK, Places, HandlerPlaces, ReaderPlaces, ClosePlaces,
     RegisterPlaces, SessionsConnected, Call, Connected, Answer
<1>3. HandlersOwn'
  BY DEF IInv, TypeOK, Pool, Locals, Places, HandlersOwn, SessionsConnected,
     Call, Connected, Answer
<1>4. Targets'
  BY DEF IInv, TypeOK, Pool, Locals, Places, Targets, Connected,
     RegisterPlaces, SessionsConnected, Call, Answer
<1>5. OutputKept'
  BY DEF IInv, TypeOK, Pool, Queues, Locals, Places, OutputKept, HandlersOwn,
     Alone, SessionsConnected, Call, Connected, Answer
<1>6. DiesOfSharing'
  BY DEF IInv, TypeOK, Pool, Queues, Locals, Places, DiesOfSharing, OutputKept,
     HandlersOwn, Alone, SessionsConnected, Call, Connected, Answer
<1>7. /\ Pool' /\ Queues' /\ SessionsConnected' /\ EntriesOwned'
       /\ MonitorConnected' /\ ReaderOwns'
  <2>1. at'[Reader] = at[Reader] /\ at'[Monitor] = at[Monitor]
    BY DEF IInv, TypeOK, Places, Answer, Call
  <2>2. UNCHANGED <<poolVars, workVars, readVars, outVars, invalid, session>>
    BY DEF Answer
  <2>3. Pool' /\ Queues' /\ EntriesOwned'
    BY <2>2 DEF IInv, TypeOK, Pool, Queues, EntriesOwned
  <2>4. SessionsConnected' /\ MonitorConnected' /\ ReaderOwns'
    BY <2>1, <2>2 DEF IInv, SessionsConnected, MonitorConnected, ReaderOwns, Connected
  <2>5. QED
    BY <2>3, <2>4
<1>8. QED
  BY <1>1, <1>2, <1>3, <1>4, <1>5, <1>6, <1>7 DEF IInv, TypeOK

LEMMA ByeKept ==
  ASSUME IInv, NEW h \in Handler, Bye(h)
  PROVE  IInv'
<1>1. Places'
  BY DEF IInv, TypeOK, Places, HandlerPlaces, ReaderPlaces, ClosePlaces,
     RegisterPlaces, HandlersOwn, Bye
<1>2. HandlersOwn'
  BY DEF IInv, TypeOK, Pool, Locals, Places, HandlersOwn, Bye
<1>3. Targets'
  BY DEF IInv, TypeOK, Pool, Locals, Places, Targets, Connected,
     RegisterPlaces, HandlersOwn, Bye
<1>4. OutputKept'
  BY DEF IInv, TypeOK, Pool, Queues, Locals, Places, OutputKept, HandlersOwn,
     Alone, Bye
<1>5. DiesOfSharing'
  BY DEF IInv, TypeOK, Pool, Queues, Locals, Places, DiesOfSharing, OutputKept,
     HandlersOwn, Alone, Bye
<1>6. /\ Pool' /\ Queues' /\ Locals' /\ SessionsConnected'
       /\ EntriesOwned' /\ MonitorConnected' /\ ReaderOwns'
  BY DEF IInv, TypeOK, Pool, Locals, Places, Queues, SessionsConnected,
     Connected, EntriesOwned, MonitorConnected, ReaderOwns, Bye
<1>7. QED
  BY <1>1, <1>2, <1>3, <1>4, <1>5, <1>6 DEF IInv, TypeOK

LEMMA EndReadKept ==
  ASSUME IInv, NEW h \in Handler, EndRead(h)
  PROVE  IInv'
<1>1. Places'
  BY DEF IInv, TypeOK, Places, HandlerPlaces, ReaderPlaces, ClosePlaces,
     RegisterPlaces, HandlersOwn, EndRead
<1>2. HandlersOwn'
  BY DEF IInv, TypeOK, Pool, Locals, Places, HandlersOwn, EndRead
<1>3. Targets'
  BY DEF IInv, TypeOK, Pool, Locals, Places, Targets, Connected,
     RegisterPlaces, HandlersOwn, EndRead
<1>4. OutputKept'
  BY DEF IInv, TypeOK, Pool, Queues, Locals, Places, OutputKept, HandlersOwn,
     Alone, EndRead
<1>5. DiesOfSharing'
  BY DEF IInv, TypeOK, Pool, Queues, Locals, Places, DiesOfSharing, OutputKept,
     HandlersOwn, Alone, EndRead
<1>6. /\ Pool' /\ Queues' /\ Locals' /\ SessionsConnected'
       /\ EntriesOwned' /\ MonitorConnected' /\ ReaderOwns'
  BY DEF IInv, TypeOK, Pool, Locals, Places, Queues, SessionsConnected,
     Connected, EntriesOwned, MonitorConnected, ReaderOwns, EndRead
<1>7. QED
  BY <1>1, <1>2, <1>3, <1>4, <1>5, <1>6 DEF IInv, TypeOK

LEMMA isWritableKept ==
  ASSUME IInv, NEW h \in Handler, isWritable(h)
  PROVE  IInv'
<1>1. Places'
  BY DEF IInv, TypeOK, Places, HandlerPlaces, ReaderPlaces, ClosePlaces,
     RegisterPlaces, HandlersOwn, isWritable
<1>2. HandlersOwn'
  BY DEF IInv, TypeOK, Pool, Locals, Places, HandlersOwn, isWritable
<1>3. Targets'
  BY DEF IInv, TypeOK, Pool, Locals, Places, Targets, Connected,
     RegisterPlaces, HandlersOwn, isWritable
<1>4. OutputKept'
  BY DEF IInv, TypeOK, Pool, Queues, Locals, Places, OutputKept, HandlersOwn,
     Alone, isWritable
<1>5. DiesOfSharing'
  BY DEF IInv, TypeOK, Pool, Queues, Locals, Places, DiesOfSharing, OutputKept,
     HandlersOwn, Alone, isWritable
<1>6. /\ Pool' /\ Queues' /\ Locals' /\ SessionsConnected'
       /\ EntriesOwned' /\ MonitorConnected' /\ ReaderOwns'
  BY DEF IInv, TypeOK, Pool, Locals, Places, Queues, SessionsConnected,
     Connected, EntriesOwned, MonitorConnected, ReaderOwns, isWritable
<1>7. QED
  BY <1>1, <1>2, <1>3, <1>4, <1>5, <1>6 DEF IInv, TypeOK

LEMMA getOutputMessageKept ==
  ASSUME IInv, NEW h \in Handler, getOutputMessage(h)
  PROVE  IInv'
<1>1. Queues'
  <2>1. CASE outputMessageQueue[session[h]] = << >>
    BY <2>1 DEF IInv, TypeOK, Queues, getOutputMessage
  <2>2. CASE outputMessageQueue[session[h]] # << >>
    <3>1. session[h] \in Session
      BY DEF IInv, HandlersOwn, getOutputMessage
    <3>2. Tail(outputMessageQueue[session[h]]) \in Seq(Nat)
      BY <2>2, <3>1 DEF IInv, TypeOK, Queues
    <3>3. QED
      BY <2>2, <3>2 DEF IInv, TypeOK, Queues, getOutputMessage
  <2>3. QED
    BY <2>1, <2>2
<1>2. Locals'
  <2>1. CASE outputMessageQueue[session[h]] = << >>
    BY <2>1 DEF IInv, TypeOK, Locals, getOutputMessage
  <2>2. CASE outputMessageQueue[session[h]] # << >>
    <3>1. session[h] \in Session
      BY DEF IInv, HandlersOwn, getOutputMessage
    <3>2. Head(outputMessageQueue[session[h]]) \in Nat
      BY <2>2, <3>1 DEF IInv, TypeOK, Queues
    <3>3. QED
      BY <2>2, <3>2 DEF IInv, TypeOK, Locals, getOutputMessage
  <2>3. QED
    BY <2>1, <2>2
<1>3. Places'
  BY DEF IInv, TypeOK, Places, HandlerPlaces, ReaderPlaces, ClosePlaces,
     RegisterPlaces, HandlersOwn, getOutputMessage
<1>4. HandlersOwn'
  BY DEF IInv, TypeOK, Pool, Locals, Places, HandlersOwn, getOutputMessage
<1>5. Targets'
  BY DEF IInv, TypeOK, Pool, Locals, Places, Targets, Connected,
     RegisterPlaces, HandlersOwn, getOutputMessage
<1>6. OutputKept'
  BY DEF IInv, TypeOK, Pool, Queues, Locals, Places, OutputKept, HandlersOwn,
     Alone, getOutputMessage
<1>7. DiesOfSharing'
  BY DEF IInv, TypeOK, Pool, Queues, Locals, Places, DiesOfSharing, OutputKept,
     HandlersOwn, Alone, getOutputMessage
<1>8. /\ Pool' /\ SessionsConnected' /\ EntriesOwned' /\ MonitorConnected'
       /\ ReaderOwns'
  BY DEF IInv, TypeOK, Pool, Locals, Places, SessionsConnected, Connected,
     EntriesOwned, MonitorConnected, ReaderOwns, getOutputMessage
<1>9. QED
  BY <1>1, <1>2, <1>3, <1>4, <1>5, <1>6, <1>7, <1>8 DEF IInv, TypeOK

LEMMA writeKept ==
  ASSUME IInv, NEW h \in Handler, write(h)
  PROVE  IInv'
<1>1. Pool'
  BY DEF IInv, TypeOK, Pool, Locals, Places, HandlersOwn, write
<1>2. Queues'
  <2>1. session[h] \in Session /\ socketChannel[session[h]] \in Channel
    BY DEF IInv, HandlersOwn, SessionsConnected, Connected, write
  <2>2. Append(written[socketChannel[session[h]]], message[h]) \in Seq(Nat)
    <3>1. written[socketChannel[session[h]]] \in Seq(Nat) /\ message[h] \in Nat
      BY <2>1 DEF IInv, TypeOK, Queues, Locals
    <3>2. QED
      BY <3>1
  <2>3. QED
    BY <2>2 DEF IInv, TypeOK, Queues, write
<1>3. Places'
  BY DEF IInv, TypeOK, Places, HandlerPlaces, ReaderPlaces, ClosePlaces,
     RegisterPlaces, HandlersOwn, write
<1>4. SessionsConnected'
  BY DEF IInv, TypeOK, Pool, SessionsConnected, Connected, HandlersOwn, write
<1>5. HandlersOwn'
  BY DEF IInv, TypeOK, Pool, Locals, Places, HandlersOwn, write
<1>6. Targets'
  BY DEF IInv, TypeOK, Pool, Locals, Places, Targets, Connected,
     RegisterPlaces, HandlersOwn, write
<1>7. OutputKept'
  BY DEF IInv, TypeOK, Pool, Queues, Locals, Places, OutputKept, HandlersOwn,
     Alone, write
<1>8. DiesOfSharing'
  BY DEF IInv, TypeOK, Pool, Queues, Locals, Places, DiesOfSharing, OutputKept,
     HandlersOwn, Alone, write
<1>9. Locals' /\ EntriesOwned' /\ MonitorConnected' /\ ReaderOwns'
  BY DEF IInv, TypeOK, Pool, Locals, Places, EntriesOwned, MonitorConnected,
     Connected, ReaderOwns, write
<1>10. QED
  BY <1>1, <1>2, <1>3, <1>4, <1>5, <1>6, <1>7, <1>8, <1>9 DEF IInv, TypeOK

LEMMA StutterKept == ASSUME IInv, UNCHANGED vars PROVE IInv'
<1>1. Pool' /\ Queues' /\ Locals' /\ Places'
  BY DEF IInv, TypeOK, Pool, Queues, Locals, Places, vars
<1>2. SessionsConnected' /\ EntriesOwned' /\ HandlersOwn' /\ MonitorConnected'
  BY DEF IInv, SessionsConnected, EntriesOwned, HandlersOwn, MonitorConnected,
     Connected, vars
<1>3. Targets' /\ ReaderOwns' /\ OutputKept' /\ DiesOfSharing'
  BY DEF IInv, Targets, ReaderOwns, OutputKept, DiesOfSharing, Connected, Alone, vars
<1>4. QED
  BY <1>1, <1>2, <1>3 DEF IInv, TypeOK

-----------------------------------------------------------------------------
LEMMA InitOwned == Init => IInv
<1> SUFFICES ASSUME Init PROVE IInv
  OBVIOUS
<1>1. Pool
  BY DEF Init, Pool
<1>2. Queues
  BY DEF Init, Queues
<1>3. Locals
  BY DEF Init, Locals
<1>4. Places
  BY DEF Init, Places, HandlerPlaces, ReaderPlaces
<1>5. /\ SessionsConnected /\ EntriesOwned /\ HandlersOwn
      /\ MonitorConnected /\ Targets /\ ReaderOwns /\ OutputKept /\ DiesOfSharing
  BY DEF Init, SessionsConnected, EntriesOwned, HandlersOwn, MonitorConnected,
     Targets, ReaderOwns, RegisterPlaces, OutputKept, DiesOfSharing
<1>6. QED
  BY <1>1, <1>2, <1>3, <1>4, <1>5 DEF IInv, TypeOK

LEMMA NextOwned == IInv /\ [Next]_vars => IInv'
<1> SUFFICES ASSUME IInv, [Next]_vars PROVE IInv'
  OBVIOUS
<1>1. ASSUME NEW c \in Channel, Accept(c) \/ ReadChannel(c) PROVE IInv'
  BY <1>1, AcceptKept, ReadChannelKept
<1>2. CASE Reads
  BY <1>2, GetHandlerKept, putInputBufferKept, QueueReadKept, closeKept,
     InitSessionKept, MapChannelKept, MapHandlerKept DEF Reads
<1>3. ASSUME NEW r \in Registrar, Registers(r) PROVE IInv'
  BY <1>3, registerOutputMessageKept, QueueMessageKept DEF Registers
<1>4. ASSUME NEW r \in Registrar, closeSession(r) PROVE IInv'
  BY <1>4, OnCloseKept, DisconnectKept, UnmapHandlerKept, UnmapChannelKept,
     DeallocateKept DEF closeSession
<1>5. ASSUME NEW s \in Session, QueueInvalid(s) \/ DeleteInvalid(s) PROVE IInv'
  BY <1>5, QueueInvalidKept, DeleteInvalidKept
<1>6. ASSUME NEW h \in Handler, Takes(h) PROVE IInv'
  BY <1>6, PollKept, isReadableKept, getInputBufferKept, EndReadKept,
     isWritableKept, getOutputMessageKept, writeKept DEF Takes
<1>7. ASSUME NEW h \in Handler, Answer(h) \/ Bye(h) PROVE IInv'
  BY <1>7, AnswerKept, ByeKept
<1>8. CASE UNCHANGED vars
  BY <1>8, StutterKept
<1>9. QED
  BY <1>1, <1>2, <1>3, <1>4, <1>5, <1>6, <1>7, <1>8 DEF Next

\* Whatever is accepted, read, registered and closed in whatever order, the pool,
\* the maps and the queues keep their types (Session, SessionManager,
\* SessionHandler).
THEOREM QueueTypesCorrect == Spec => []TypeOK
<1>1. IInv => TypeOK
  BY DEF IInv
<1>2. QED
  BY <1>1, InitOwned, NextOwned, PTL DEF Spec

\* However many sessions and handlers there are, SessionHandler.write meets a null
\* message only at a session that was given to a second handler.
THEOREM HandlerDiesOfSharing == Spec => []DiesOfSharing
<1>1. IInv => DiesOfSharing
  BY DEF IInv
<1>2. QED
  BY <1>1, InitOwned, NextOwned, PTL DEF Spec

\* Session's operations and its PacketTokenizer, which take no lock, are run by
\* one handler at a time for as long as the session had one handler.
THEOREM OneHandlerWorks == Spec => []SessionConfined
<1>1. IInv => SessionConfined
  <2> SUFFICES ASSUME IInv, NEW h \in Handler, NEW g \in Handler, h # g,
                      at[h] \in Using, at[g] \in Using, session[h] = session[g]
               PROVE  ~Alone(session[h], h)
    BY DEF SessionConfined
  <2>1. at[h] # "loop" /\ at[g] # "loop"
    BY DEF Using, HandlerPlaces, RegisterPlaces, ClosePlaces
  <2>2. g \in handlersOf[session[h]]
    BY <2>1 DEF IInv, HandlersOwn
  <2>3. QED
    BY <2>2 DEF Alone
<1>2. QED
  BY <1>1, InitOwned, NextOwned, PTL DEF Spec
-----------------------------------------------------------------------------
(***************************************************************************)
(* Messages are written in the order of registration.  A queue is always   *)
(* in that order; what remains is that a channel belongs to one session,   *)
(* and that the one thread that takes from its queue writes what it took   *)
(* before it takes again.                                                  *)
(***************************************************************************)
Counted ==
  /\ \A s \in Session :
       /\ Ascending(outputMessageQueue[s])
       /\ \A j \in DOMAIN outputMessageQueue[s] : outputMessageQueue[s][j] <= registered
  /\ \A h \in Handler : message[h] <= registered
  /\ \A c \in Channel : \A j \in DOMAIN written[c] : written[c][j] <= registered

\* A channel is given to one session, and nothing was written to it before.
ChannelsFresh ==
  /\ \A c \in Channel : c \notin open => written[c] = << >>
  /\ \A s \in Session : socketChannel[s] # None => socketChannel[s] \in open
  /\ \A s, u \in Session :
       s # u /\ socketChannel[s] # None => socketChannel[s] # socketChannel[u]
  /\ at[Reader] = "init" => /\ channel \in open /\ written[channel] = << >>
                            /\ \A s \in Session : socketChannel[s] # channel

Writing(h, s) == at[h] = "write" /\ session[h] = s

\* What was written to the session's channel, the message its handler is about to
\* write, and what is queued, follow each other.
InLine(s, h) ==
  /\ Writing(h, s) =>
       \A j \in DOMAIN outputMessageQueue[s] : message[h] < outputMessageQueue[s][j]
  /\ socketChannel[s] # None =>
       /\ Ascending(written[socketChannel[s]])
       /\ \A k \in DOMAIN written[socketChannel[s]] :
            /\ \A j \in DOMAIN outputMessageQueue[s] :
                 written[socketChannel[s]][k] < outputMessageQueue[s][j]
            /\ Writing(h, s) => written[socketChannel[s]][k] < message[h]

Lines == \A s \in Session, h \in Handler : Alone(s, h) => InLine(s, h)

MInv == IInv /\ Counted /\ ChannelsFresh /\ Lines

\* A step that registers, takes and writes nothing and gives no channel to a session.
Silent ==
  /\ UNCHANGED <<outputMessageQueue, registered, written, message, socketChannel,
                 open, handlersOf>>
  /\ \A h \in Handler : at'[h] = "write" => at[h] = "write" /\ session'[h] = session[h]
  /\ at'[Reader] = "init" => at[Reader] = "init" /\ channel' = channel

LEMMA SilentInOrder ==
  ASSUME MInv, Silent
  PROVE  Counted' /\ ChannelsFresh' /\ Lines'
<1>1. Counted'
  BY DEF MInv, Counted, Silent
<1>2. ChannelsFresh'
  BY DEF MInv, ChannelsFresh, Silent
<1>3. Lines'
  <2> SUFFICES ASSUME NEW s \in Session, NEW h \in Handler, Alone(s, h)'
               PROVE  InLine(s, h)'
    BY DEF Lines
  <2>1. InLine(s, h)
    BY DEF MInv, Lines, Alone, Silent
  <2>2. Writing(h, s)' => Writing(h, s)
    BY DEF Writing, Silent
  <2>3. QED
    BY <2>1, <2>2 DEF InLine, Silent
<1>4. QED
  BY <1>1, <1>2, <1>3

LEMMA AcceptInOrder ==
  ASSUME MInv, NEW c \in Channel, Accept(c)
  PROVE  Counted' /\ ChannelsFresh' /\ Lines'
<1>1. /\ UNCHANGED <<outputMessageQueue, registered, written, message, socketChannel,
                     handlersOf>>
      /\ open' = open \cup {c} /\ c \notin open
      /\ at'[Reader] = "init" => channel' = c
  BY DEF Accept, MInv, IInv, TypeOK, Places
<1>2. \A h \in Handler : at'[h] = at[h] /\ session'[h] = session[h]
  BY DEF MInv, IInv, TypeOK, Locals, Places, Accept
<1>3. Counted'
  BY <1>1 DEF MInv, Counted
<1>4. ChannelsFresh'
  BY <1>1 DEF MInv, ChannelsFresh
<1>5. Lines'
  BY <1>1, <1>2 DEF MInv, Lines, Alone, InLine, Writing
<1>6. QED
  BY <1>3, <1>4, <1>5

LEMMA InitSessionInOrder ==
  ASSUME MInv, NEW g \in Handler, InitSession(g)
  PROVE  Counted' /\ ChannelsFresh' /\ Lines'
<1>1. PICK u \in Session : u = session[Reader]
  BY DEF MInv, IInv, ReaderOwns, InitSession
<1>2. /\ UNCHANGED <<outputMessageQueue, registered, written, message, open, session>>
      /\ channel \in open /\ written[channel] = << >>
      /\ \A s \in Session : socketChannel[s] # channel
  BY DEF MInv, ChannelsFresh, InitSession
<1>3. /\ socketChannel'[u] = channel
      /\ \A s \in Session : s # u => socketChannel'[s] = socketChannel[s]
  BY <1>1 DEF MInv, IInv, TypeOK, Pool, InitSession
<1>4. /\ handlersOf'[u] = handlersOf[u] \cup {g}
      /\ \A s \in Session : s # u => handlersOf'[s] = handlersOf[s]
  BY <1>1 DEF MInv, IInv, TypeOK, Pool, InitSession
<1>5. /\ \A h \in Handler : at'[h] = at[h]
      /\ at'[Reader] = "mapChannel"
  BY DEF MInv, IInv, TypeOK, Places, InitSession
<1>6. Counted'
  BY <1>2 DEF MInv, Counted
<1>7. ChannelsFresh'
  BY <1>2, <1>3, <1>5 DEF MInv, ChannelsFresh
<1>8. Lines'
  <2> SUFFICES ASSUME NEW s \in Session, NEW h \in Handler, Alone(s, h)'
               PROVE  InLine(s, h)'
    BY DEF Lines
  <2>1. CASE s # u
    <3>1. Alone(s, h)
      BY <1>4, <2>1 DEF Alone
    <3>2. InLine(s, h)
      BY <3>1 DEF MInv, Lines
    <3>3. QED
      BY <1>2, <1>3, <1>5, <2>1, <3>2 DEF InLine, Writing
  <2>2. CASE s = u
    <3>1. Writing(h, s) => Alone(s, h)
      BY <1>4, <2>2 DEF Alone, Writing, MInv, IInv, HandlersOwn
    <3>2. Writing(h, s) =>
            \A j \in DOMAIN outputMessageQueue[s] : message[h] < outputMessageQueue[s][j]
      BY <3>1 DEF MInv, Lines, InLine
    <3>3. written'[socketChannel'[s]] = << >>
      BY <1>2, <1>3, <2>2
    <3>4. Ascending(<< >>) /\ DOMAIN << >> = {}
      BY DEF Ascending
    <3>5. QED
      BY <1>2, <1>5, <3>2, <3>3, <3>4 DEF InLine, Writing
  <2>3. QED
    BY <2>1, <2>2
<1>9. QED
  BY <1>6, <1>7, <1>8

LEMMA AppendAscends ==
  ASSUME NEW ns \in Seq(Nat), NEW n \in Nat, Ascending(ns), \A j \in DOMAIN ns : ns[j] < n
  PROVE  Ascending(Append(ns, n))
<1>1. /\ Len(ns) \in Nat /\ DOMAIN ns = 1..Len(ns)
      /\ DOMAIN Append(ns, n) = 1..(Len(ns) + 1)
      /\ Append(ns, n)[Len(ns) + 1] = n
      /\ \A j \in 1..Len(ns) : Append(ns, n)[j] = ns[j]
  OBVIOUS
<1> SUFFICES ASSUME NEW j \in 1..(Len(ns) + 1), NEW k \in 1..(Len(ns) + 1), j < k
             PROVE  Append(ns, n)[j] < Append(ns, n)[k]
  BY <1>1 DEF Ascending
<1>2. j \in 1..Len(ns)
  BY <1>1
<1>3. CASE k = Len(ns) + 1
  BY <1>1, <1>2, <1>3
<1>4. CASE k \in 1..Len(ns)
  BY <1>1, <1>2, <1>4 DEF Ascending
<1>5. QED
  BY <1>1, <1>3, <1>4

LEMMA TailAscends ==
  ASSUME NEW ns \in Seq(Nat), ns # << >>, Ascending(ns)
  PROVE  /\ Tail(ns) \in Seq(Nat) /\ Ascending(Tail(ns)) /\ Head(ns) \in Nat
         /\ \A j \in DOMAIN Tail(ns) :
              /\ Head(ns) < Tail(ns)[j]
              /\ \E k \in DOMAIN ns : Tail(ns)[j] = ns[k]
<1>1. /\ Len(ns) \in Nat /\ Len(ns) >= 1 /\ DOMAIN ns = 1..Len(ns)
      /\ Tail(ns) \in Seq(Nat) /\ Head(ns) = ns[1] /\ ns[1] \in Nat
  OBVIOUS
<1>2. /\ DOMAIN Tail(ns) = 1..(Len(ns) - 1)
      /\ \A j \in 1..(Len(ns) - 1) : Tail(ns)[j] = ns[j + 1]
  OBVIOUS
<1>3. \A j \in 1..(Len(ns) - 1) : j + 1 \in 1..Len(ns)
  BY <1>1
<1>4. Ascending(Tail(ns))
  BY <1>1, <1>2, <1>3 DEF Ascending
<1>5. \A j \in DOMAIN Tail(ns) : Head(ns) < Tail(ns)[j]
  BY <1>1, <1>2, <1>3 DEF Ascending
<1>6. QED
  BY <1>1, <1>2, <1>3, <1>4, <1>5

LEMMA registerInOrder ==
  ASSUME MInv, NEW r \in Registrar, registerOutputMessage(r)
  PROVE  Counted' /\ ChannelsFresh' /\ Lines'
<1>1. PICK u \in Session : u = target[r]
  BY DEF MInv, IInv, Targets, RegisterPlaces, registerOutputMessage
<1>2. /\ UNCHANGED <<written, message, socketChannel, open, handlersOf, session, channel>>
      /\ registered \in Nat /\ registered' = registered + 1
  BY DEF MInv, IInv, TypeOK, Queues, registerOutputMessage
<1>3. PICK q \in Seq(Nat) : q = outputMessageQueue[u]
  BY DEF MInv, IInv, TypeOK, Queues
<1>4. /\ outputMessageQueue'[u] = Append(q, registered + 1)
      /\ \A s \in Session : s # u => outputMessageQueue'[s] = outputMessageQueue[s]
  BY <1>1, <1>2, <1>3 DEF MInv, IInv, TypeOK, Queues, registerOutputMessage
<1>5. Ascending(q) /\ \A j \in DOMAIN q : q[j] <= registered /\ q[j] < registered + 1
  BY <1>2, <1>3 DEF MInv, Counted
<1>6. \A j \in DOMAIN Append(q, registered + 1) :
        \/ Append(q, registered + 1)[j] = registered + 1
        \/ (j \in DOMAIN q /\ Append(q, registered + 1)[j] = q[j])
  BY <1>2
<1>7. /\ \A h \in Handler : at'[h] = "write" => at[h] = "write"
      /\ at'[Reader] = at[Reader]
  BY DEF MInv, IInv, TypeOK, Places, registerOutputMessage
<1>8. /\ \A h \in Handler : message[h] \in Nat /\ message[h] <= registered
      /\ \A c \in Channel : \A j \in DOMAIN written[c] :
           written[c][j] \in Nat /\ written[c][j] <= registered
  BY DEF MInv, IInv, TypeOK, Locals, Queues, Counted
<1>9. Counted'
  <2>1. ASSUME NEW s \in Session
        PROVE  /\ Ascending(outputMessageQueue'[s])
               /\ \A j \in DOMAIN outputMessageQueue'[s] :
                    outputMessageQueue'[s][j] <= registered'
    <3>1. CASE s = u
      <4>1. Ascending(Append(q, registered + 1))
        BY <1>2, <1>5, AppendAscends
      <4>2. \A j \in DOMAIN Append(q, registered + 1) :
              Append(q, registered + 1)[j] <= registered + 1
        BY <1>2, <1>5, <1>6
      <4>3. QED
        BY <1>2, <1>4, <3>1, <4>1, <4>2
    <3>2. CASE s # u
      <4>1. outputMessageQueue[s] \in Seq(Nat)
        BY DEF MInv, IInv, TypeOK, Queues
      <4>2. \A j \in DOMAIN outputMessageQueue[s] : outputMessageQueue[s][j] <= registered'
        BY <1>2, <4>1 DEF MInv, Counted
      <4>3. QED
        BY <1>4, <3>2, <4>2 DEF MInv, Counted
    <3>3. QED
      BY <3>1, <3>2
  <2>2. \A h \in Handler : message'[h] <= registered'
    BY <1>2, <1>8
  <2>3. \A c \in Channel : \A j \in DOMAIN written'[c] : written'[c][j] <= registered'
    BY <1>2, <1>8
  <2>4. QED
    BY <2>1, <2>2, <2>3 DEF Counted
<1>10. ChannelsFresh'
  BY <1>2, <1>7 DEF MInv, ChannelsFresh
<1>11. Lines'
  <2> SUFFICES ASSUME NEW s \in Session, NEW h \in Handler, Alone(s, h)'
               PROVE  InLine(s, h)'
    BY DEF Lines
  <2>1. InLine(s, h)
    BY <1>2 DEF MInv, Lines, Alone
  <2>2. Writing(h, s)' => Writing(h, s)
    BY <1>2, <1>7 DEF Writing
  <2>3. CASE s # u
    BY <1>2, <1>4, <2>1, <2>2, <2>3 DEF InLine
  <2>4. CASE s = u
    <3>1. Writing(h, s) => \A j \in DOMAIN Append(q, registered + 1) :
                             message[h] < Append(q, registered + 1)[j]
      BY <1>2, <1>3, <1>6, <1>8, <2>1, <2>4 DEF InLine
    <3>2. ASSUME socketChannel[s] # None, NEW k \in DOMAIN written[socketChannel[s]]
          PROVE  \A j \in DOMAIN Append(q, registered + 1) :
                   written[socketChannel[s]][k] < Append(q, registered + 1)[j]
      <4>1. socketChannel[s] \in Channel
        BY <3>2 DEF MInv, IInv, TypeOK, Pool
      <4>2. written[socketChannel[s]][k] < registered + 1
        BY <1>2, <1>8, <3>2, <4>1
      <4>3. \A j \in DOMAIN q : written[socketChannel[s]][k] < q[j]
        BY <1>3, <2>1, <2>4, <3>2 DEF InLine
      <4>4. QED
        BY <1>6, <4>2, <4>3
    <3>3. QED
      BY <1>2, <1>4, <2>1, <2>2, <2>4, <3>1, <3>2 DEF InLine
  <2>5. QED
    BY <2>3, <2>4
<1>12. QED
  BY <1>9, <1>10, <1>11

LEMMA getOutputMessageInOrder ==
  ASSUME MInv, NEW g \in Handler, getOutputMessage(g)
  PROVE  Counted' /\ ChannelsFresh' /\ Lines'
<1>1. PICK u \in Session : u = session[g]
  BY DEF MInv, IInv, HandlersOwn, getOutputMessage
<1>2. UNCHANGED <<written, registered, socketChannel, open, handlersOf, session, channel>>
  BY DEF getOutputMessage
<1>3. PICK q \in Seq(Nat) : q = outputMessageQueue[u]
  BY DEF MInv, IInv, TypeOK, Queues
<1>4. CASE q = << >>
  <2>1. UNCHANGED <<outputMessageQueue, message>> /\ at' = [at EXCEPT ![g] = "dead"]
    BY <1>1, <1>3, <1>4 DEF getOutputMessage
  <2>2. Silent
    BY <1>2, <2>1 DEF Silent, MInv, IInv, TypeOK, Places
  <2>3. QED
    BY <2>2, SilentInOrder
<1>5. CASE q # << >>
  <2>1. /\ message'[g] = Head(q) /\ \A h \in Handler : h # g => message'[h] = message[h]
        /\ at'[g] = "write" /\ \A t \in Thread : t # g => at'[t] = at[t]
    BY <1>1, <1>3, <1>5 DEF getOutputMessage, MInv, IInv, TypeOK, Locals, Places
  <2>2. /\ outputMessageQueue'[u] = Tail(q)
        /\ \A s \in Session : s # u => outputMessageQueue'[s] = outputMessageQueue[s]
    BY <1>1, <1>3, <1>5 DEF getOutputMessage, MInv, IInv, TypeOK, Queues
  <2>3. Ascending(q) /\ \A j \in DOMAIN q : q[j] <= registered
    BY <1>3 DEF MInv, Counted
  <2>4. /\ Tail(q) \in Seq(Nat) /\ Ascending(Tail(q)) /\ Head(q) \in Nat
        /\ \A j \in DOMAIN Tail(q) : /\ Head(q) < Tail(q)[j]
                                     /\ \E k \in DOMAIN q : Tail(q)[j] = q[k]
    BY <1>5, <2>3, TailAscends
  <2>5. Head(q) = q[1] /\ 1 \in DOMAIN q
    BY <1>5
  <2>6. Counted'
    <3>1. ASSUME NEW s \in Session
          PROVE  /\ Ascending(outputMessageQueue'[s])
                 /\ \A j \in DOMAIN outputMessageQueue'[s] :
                      outputMessageQueue'[s][j] <= registered
      <4>1. CASE s = u
        BY <2>2, <2>3, <2>4, <4>1
      <4>2. CASE s # u
        BY <2>2, <4>2 DEF MInv, Counted
      <4>3. QED
        BY <4>1, <4>2
    <3>2. \A h \in Handler : message'[h] <= registered
      BY <2>1, <2>3, <2>5 DEF MInv, Counted
    <3>3. QED
      BY <1>2, <3>1, <3>2 DEF MInv, Counted
  <2>7. ChannelsFresh'
    BY <1>2, <2>1 DEF MInv, ChannelsFresh
  <2>8. Lines'
    <3> SUFFICES ASSUME NEW s \in Session, NEW h \in Handler, Alone(s, h)'
                 PROVE  InLine(s, h)'
      BY DEF Lines
    <3>1. InLine(s, h)
      BY <1>2 DEF MInv, Lines, Alone
    <3>2. CASE s # u
      <4>1. Writing(h, s)' => h # g
        BY <1>1, <1>2, <3>2 DEF Writing
      <4>2. Writing(h, s)' => Writing(h, s) /\ message'[h] = message[h]
        BY <1>2, <2>1, <4>1 DEF Writing
      <4>3. QED
        BY <1>2, <2>2, <3>1, <3>2, <4>2 DEF InLine
    <3>3. CASE s = u
      <4>1. g = h
        BY <1>1, <1>2, <3>3 DEF Alone, MInv, IInv, HandlersOwn, getOutputMessage
      <4>2. \A j \in DOMAIN Tail(q) : message'[g] < Tail(q)[j]
        BY <2>1, <2>4
      <4>3. socketChannel[u] # None =>
              /\ Ascending(written[socketChannel[u]])
              /\ \A k \in DOMAIN written[socketChannel[u]] :
                   \A j \in DOMAIN q : written[socketChannel[u]][k] < q[j]
        BY <1>3, <3>1, <3>3 DEF InLine
      <4>4. socketChannel[u] # None =>
              \A k \in DOMAIN written[socketChannel[u]] :
                /\ \A j \in DOMAIN Tail(q) : written[socketChannel[u]][k] < Tail(q)[j]
                /\ written[socketChannel[u]][k] < message'[g]
        BY <2>1, <2>4, <2>5, <4>3
      <4>5. QED
        BY <1>2, <2>2, <3>3, <4>1, <4>2, <4>3, <4>4 DEF InLine
    <3>4. QED
      BY <3>2, <3>3
  <2>9. QED
    BY <2>6, <2>7, <2>8
<1>6. QED
  BY <1>4, <1>5

LEMMA writeInOrder ==
  ASSUME MInv, NEW g \in Handler, write(g)
  PROVE  Counted' /\ ChannelsFresh' /\ Lines'
<1>1. PICK u \in Session : u = session[g]
  BY DEF MInv, IInv, HandlersOwn, write
<1>2. PICK c \in Channel : c = socketChannel[u]
  BY <1>1 DEF MInv, IInv, HandlersOwn, SessionsConnected, Connected, write
<1>3. /\ UNCHANGED <<outputMessageQueue, registered, message, socketChannel, open,
                     handlersOf, session, channel>>
      /\ at[g] = "write"
  BY DEF write
<1>4. at'[g] = "loop" /\ \A t \in Thread : t # g => at'[t] = at[t]
  BY DEF write, MInv, IInv, TypeOK, Places
<1>5. CASE UNCHANGED written
  <2>1. Silent
    BY <1>3, <1>4, <1>5 DEF Silent
  <2>2. QED
    BY <2>1, SilentInOrder
<1>6. CASE ~UNCHANGED written
  <2>1. PICK w \in Seq(Nat) : w = written[c]
    BY DEF MInv, IInv, TypeOK, Queues
  <2>2. /\ written'[c] = Append(w, message[g])
        /\ \A d \in Channel : d # c => written'[d] = written[d]
    BY <1>1, <1>2, <1>6, <2>1 DEF write, MInv, IInv, TypeOK, Queues
  <2>3. message[g] \in Nat /\ message[g] <= registered
    BY DEF MInv, IInv, TypeOK, Locals, Counted
  <2>4. \A j \in DOMAIN Append(w, message[g]) :
          \/ Append(w, message[g])[j] = message[g]
          \/ (j \in DOMAIN w /\ Append(w, message[g])[j] = w[j])
    BY <2>3
  <2>5. Counted'
    <3>1. ASSUME NEW d \in Channel
          PROVE  \A j \in DOMAIN written'[d] : written'[d][j] <= registered
      <4>1. CASE d = c
        <5>1. \A j \in DOMAIN w : w[j] <= registered
          BY <2>1 DEF MInv, Counted
        <5>2. QED
          BY <2>2, <2>3, <2>4, <4>1, <5>1
      <4>2. CASE d # c
        BY <2>2, <4>2 DEF MInv, Counted
      <4>3. QED
        BY <4>1, <4>2
    <3>2. QED
      BY <1>3, <3>1 DEF MInv, Counted
  <2>6. c \in open /\ \A s \in Session : s # u => socketChannel[s] # c
    BY <1>2 DEF MInv, ChannelsFresh
  <2>7. ChannelsFresh'
    <3>1. at[Reader] = "init" => channel \in Channel /\ channel # c
      BY <1>2 DEF MInv, ChannelsFresh, IInv, ReaderOwns
    <3>2. \A d \in Channel : d \notin open => written'[d] = << >>
      BY <2>2, <2>6 DEF MInv, ChannelsFresh
    <3>3. at'[Reader] = at[Reader]
      BY <1>4
    <3>4. QED
      BY <1>3, <2>2, <3>1, <3>2, <3>3 DEF MInv, ChannelsFresh
  <2>8. Lines'
    <3> SUFFICES ASSUME NEW s \in Session, NEW h \in Handler, Alone(s, h)'
                 PROVE  InLine(s, h)'
      BY DEF Lines
    <3>1. InLine(s, h)
      BY <1>3 DEF MInv, Lines, Alone
    <3>2. Writing(h, s)' => Writing(h, s)
      BY <1>3, <1>4 DEF Writing
    <3>3. CASE s # u
      <4>1. socketChannel[s] # None =>
              socketChannel[s] \in Channel /\ written'[socketChannel[s]] = written[socketChannel[s]]
        BY <2>2, <2>6, <3>3 DEF MInv, IInv, TypeOK, Pool
      <4>2. QED
        BY <1>3, <3>1, <3>2, <4>1 DEF InLine
    <3>4. CASE s = u
      <4>1. g = h
        BY <1>1, <1>3, <3>4 DEF Alone, MInv, IInv, HandlersOwn
      <4>2. ~Writing(h, s)' /\ Writing(g, u)
        BY <1>1, <1>3, <1>4, <4>1 DEF Writing
      <4>3. /\ \A j \in DOMAIN outputMessageQueue[u] : message[g] < outputMessageQueue[u][j]
            /\ Ascending(w)
            /\ \A k \in DOMAIN w :
                 /\ \A j \in DOMAIN outputMessageQueue[u] : w[k] < outputMessageQueue[u][j]
                 /\ w[k] < message[g]
        BY <1>2, <2>1, <3>1, <3>4, <4>1, <4>2 DEF InLine
      <4>4. Ascending(Append(w, message[g]))
        BY <2>3, <4>3, AppendAscends
      <4>5. \A k \in DOMAIN Append(w, message[g]) :
              \A j \in DOMAIN outputMessageQueue[u] :
                Append(w, message[g])[k] < outputMessageQueue[u][j]
        BY <2>4, <4>3
      <4>6. QED
        BY <1>2, <1>3, <2>2, <3>4, <4>2, <4>4, <4>5 DEF InLine
    <3>5. QED
      BY <3>3, <3>4
  <2>9. QED
    BY <2>5, <2>7, <2>8
<1>7. QED
  BY <1>5, <1>6

LEMMA InitInOrder == Init => MInv
<1> SUFFICES ASSUME Init  PROVE Counted /\ ChannelsFresh /\ Lines
  BY InitOwned DEF MInv
<1>1. Ascending(<< >>) /\ DOMAIN << >> = {}
  BY DEF Ascending
<1>2. Counted
  BY <1>1 DEF Init, Counted
<1>3. ChannelsFresh
  BY DEF Init, ChannelsFresh
<1>4. Lines
  BY DEF Init, Lines, Alone
<1>5. QED
  BY <1>2, <1>3, <1>4

LEMMA NextInOrder == MInv /\ [Next]_vars => MInv'
<1> SUFFICES ASSUME MInv, [Next]_vars  PROVE Counted' /\ ChannelsFresh' /\ Lines'
  BY NextOwned DEF MInv
<1> USE DEF MInv, IInv, TypeOK, Places, Locals
<1>1. ASSUME NEW c \in Channel, Accept(c) \/ ReadChannel(c)
      PROVE  Accept(c) \/ Silent
  BY <1>1 DEF ReadChannel, Silent
<1>2. CASE Reads
  <2>1. (\E h \in Handler : InitSession(h)) \/ Silent
    BY <1>2 DEF Reads, GetHandler, putInputBuffer, QueueRead, close, MapChannel,
       MapHandler, Silent
  <2>2. QED
    BY <2>1, SilentInOrder, InitSessionInOrder
<1>3. ASSUME NEW r \in Registrar, QueueMessage(r)
      PROVE  Silent
  BY <1>3 DEF QueueMessage, Silent
<1>4. ASSUME NEW r \in Registrar, closeSession(r)
      PROVE  Silent
  BY <1>4 DEF closeSession, OnClose, Call, Disconnect, UnmapHandler, UnmapChannel,
     Deallocate, Silent
<1>5. ASSUME NEW s \in Session, QueueInvalid(s) \/ DeleteInvalid(s)
      PROVE  Silent
  BY <1>5 DEF QueueInvalid, DeleteInvalid, Silent
<1>6. ASSUME NEW h \in Handler, Takes(h)
      PROVE  getOutputMessage(h) \/ write(h) \/ Silent
  BY <1>6 DEF Takes, Poll, isReadable, getInputBuffer, EndRead, isWritable, Silent
<1>7. ASSUME NEW h \in Handler, Answer(h) \/ Bye(h)
      PROVE  Silent
  BY <1>7 DEF Answer, Bye, Call, Silent
<1>8. UNCHANGED vars => Silent
  BY DEF vars, Silent
<1> USE DEF MInv
<1>9. QED
  BY <1>1, <1>2, <1>3, <1>4, <1>5, <1>6, <1>7, <1>8, SilentInOrder, AcceptInOrder,
     registerInOrder, getOutputMessageInOrder, writeInOrder DEF Next, Registers

\* Whichever threads register messages at a session, and however often it is closed
\* and given to another connection, each client gets the messages in the order in
\* which they were registered, for as long as the session had one handler.
THEOREM OneHandlerWritesInOrder == Spec => []WrittenInOrder
<1>1. MInv => WrittenInOrder
  BY DEF MInv, Lines, InLine, WrittenInOrder
<1>2. QED
  BY <1>1, InitInOrder, NextInOrder, PTL DEF Spec
-----------------------------------------------------------------------------
(***************************************************************************)
(* The entries of a session cover its work.  Each message and each buffer  *)
(* is queued before its entry, an entry in the hand of a handler stays in  *)
(* it until the handler has looked, and a look that finds nothing leaves   *)
(* nothing behind.                                                         *)
(***************************************************************************)
\* n pieces of work are covered by e entries, q threads that are about to add one, and
\* w that are about to look.
Covers(n, e, q, w) == n <= e + q + w

OutputsCovered(s) ==
  Covers(Len(outputMessageQueue[s]),
         Cardinality(Entries(s)), Cardinality(Queueing(s)), Cardinality(WillWrite(s)))

InputsCovered(s) ==
  Covers(Len(inputBufferQueue[s]),
         Cardinality(Entries(s)), Cardinality(Queueing(s)), Cardinality(WillRead(s)))

Numbers(n, e, q, w) == n \in Nat /\ e \in Nat /\ q \in Nat /\ w \in Nat

\* More work comes with a thread about to queue; that thread becomes an entry, and
\* the entry a thread about to look, which takes a piece of work.
LEMMA CoversKept ==
  ASSUME NEW n, NEW e, NEW q, NEW w, NEW m, NEW f, NEW p, NEW v,
         Numbers(n, e, q, w), Numbers(m, f, p, v), Covers(n, e, q, w),
         \/ m <= n /\ f = e /\ q <= p /\ w <= v
         \/ m <= n + 1 /\ f = e /\ p = q + 1 /\ w <= v
         \/ m <= n /\ f = e + 1 /\ p = q - 1 /\ w <= v
         \/ m <= n /\ f = e - 1 /\ p = q /\ v = w + 1
         \/ m = n - 1 /\ f = e /\ p = q /\ v = w - 1
  PROVE  Covers(m, f, p, v)
<1>1. CASE m <= n /\ f = e /\ q <= p /\ w <= v
  BY <1>1 DEF Numbers, Covers
<1>2. CASE m <= n + 1 /\ f = e /\ p = q + 1 /\ w <= v
  BY <1>2 DEF Numbers, Covers
<1>3. CASE m <= n /\ f = e + 1 /\ p = q - 1 /\ w <= v
  BY <1>3 DEF Numbers, Covers
<1>4. CASE m <= n /\ f = e - 1 /\ p = q /\ v = w + 1
  BY <1>4 DEF Numbers, Covers
<1>5. CASE m = n - 1 /\ f = e /\ p = q /\ v = w - 1
  BY <1>5 DEF Numbers, Covers
<1>6. QED
  BY <1>1, <1>2, <1>3, <1>4, <1>5

LEMMA NothingToCover ==
  ASSUME NEW e, NEW q, NEW w, Numbers(0, e, q, w)
  PROVE  Covers(0, e, q, w)
BY DEF Numbers, Covers

\* A handler that registers a message comes back to the buffer it works on.
Backs == \A h \in Handler : at[h] \in RegisterPlaces => back[h] # "loop"

WInv ==
  /\ IInv /\ Backs
  /\ \A s \in Session : IsFiniteSet(Entries(s)) /\ OutputsCovered(s) /\ InputsCovered(s)

LEMMA ThreadsFinite == IsFiniteSet(Thread) /\ IsFiniteSet(Handler)
BY HandlerAssumption, FS_AddElement, FS_EmptySet

LEMMA Counts ==
  ASSUME NEW s \in Session
  PROVE  /\ Queueing(s) \in SUBSET Thread /\ IsFiniteSet(Queueing(s))
         /\ Cardinality(Queueing(s)) \in Nat
         /\ WillWrite(s) \in SUBSET Handler /\ IsFiniteSet(WillWrite(s))
         /\ Cardinality(WillWrite(s)) \in Nat
         /\ WillRead(s) \in SUBSET Handler /\ IsFiniteSet(WillRead(s))
         /\ Cardinality(WillRead(s)) \in Nat
<1>1. Queueing(s) \in SUBSET Thread /\ WillWrite(s) \in SUBSET Handler
      /\ WillRead(s) \in SUBSET Handler
  BY DEF Queueing, WillWrite, WillRead
<1>2. IsFiniteSet(Queueing(s)) /\ IsFiniteSet(WillWrite(s)) /\ IsFiniteSet(WillRead(s))
  BY <1>1, ThreadsFinite, FS_Subset
<1>3. QED
  BY <1>1, <1>2, FS_CardinalityType

LEMMA CountsNext ==
  ASSUME NEW s \in Session
  PROVE  /\ IsFiniteSet(Queueing(s)') /\ Cardinality(Queueing(s)') \in Nat
         /\ IsFiniteSet(WillWrite(s)') /\ Cardinality(WillWrite(s)') \in Nat
         /\ IsFiniteSet(WillRead(s)') /\ Cardinality(WillRead(s)') \in Nat
<1>1. Queueing(s)' \in SUBSET Thread /\ WillWrite(s)' \in SUBSET Handler
      /\ WillRead(s)' \in SUBSET Handler
  BY DEF Queueing, WillWrite, WillRead
<1>2. IsFiniteSet(Queueing(s)') /\ IsFiniteSet(WillWrite(s)') /\ IsFiniteSet(WillRead(s)')
  BY <1>1, ThreadsFinite, FS_Subset
<1>3. QED
  BY <1>1, <1>2, FS_CardinalityType

(***************************************************************************)
(* The entries in queues q, as Entries finds them.                         *)
(***************************************************************************)
EntriesIn(q, s) == {e \in UNION {{h} \X DOMAIN q[h] : h \in Handler} : q[e[1]][e[2]] = s}

QueueMap(q) == q \in [Handler -> Seq(Session)]

\* Queues r are queues q but for an entry more, or an entry less, at h.
Longer(q, r, h, u) ==
  r[h] = Append(q[h], u) /\ \A g \in Handler : g # h => r[g] = q[g]
Shorter(q, r, h) ==
  q[h] # << >> /\ r[h] = Tail(q[h]) /\ \A g \in Handler : g # h => r[g] = q[g]

LEMMA EntriesInIs ==
  ASSUME NEW q, QueueMap(q), NEW s
  PROVE  \A e : e \in EntriesIn(q, s)
                  <=> e \in Handler \X Nat /\ e[2] \in 1..Len(q[e[1]]) /\ q[e[1]][e[2]] = s
<1>1. \A h \in Handler : DOMAIN q[h] = 1..Len(q[h]) /\ Len(q[h]) \in Nat
  BY DEF QueueMap
<1>2. \A e : e \in UNION {{h} \X DOMAIN q[h] : h \in Handler}
               <=> e \in Handler \X Nat /\ e[2] \in 1..Len(q[e[1]])
  <2>1. ASSUME NEW e, e \in UNION {{h} \X DOMAIN q[h] : h \in Handler}
        PROVE  e \in Handler \X Nat /\ e[2] \in 1..Len(q[e[1]])
    BY <1>1, <2>1
  <2>2. ASSUME NEW e \in Handler \X Nat, e[2] \in 1..Len(q[e[1]])
        PROVE  e \in UNION {{h} \X DOMAIN q[h] : h \in Handler}
    <3>1. e[1] \in Handler /\ e \in {e[1]} \X DOMAIN q[e[1]]
      BY <1>1, <2>2
    <3>2. QED
      BY <3>1
  <2>3. QED
    BY <2>1, <2>2
<1>3. QED
  BY <1>2 DEF EntriesIn

LEMMA AppendEntry ==
  ASSUME NEW q, NEW r, QueueMap(q), QueueMap(r), NEW h \in Handler, NEW u \in Session,
         Longer(q, r, h, u), NEW s \in Session,
         IsFiniteSet(EntriesIn(q, s))
  PROVE  /\ IsFiniteSet(EntriesIn(r, s))
         /\ Cardinality(EntriesIn(r, s)) =
              Cardinality(EntriesIn(q, s)) + (IF s = u THEN 1 ELSE 0)
<1>1. /\ Len(q[h]) \in Nat
      /\ Len(r[h]) = Len(q[h]) + 1 /\ r[h][Len(q[h]) + 1] = u
      /\ \A j \in 1..Len(q[h]) : r[h][j] = q[h][j]
      /\ \A g \in Handler : g # h => r[g] = q[g]
  BY DEF QueueMap, Longer
<1> DEFINE e0 == <<h, Len(q[h]) + 1>>
<1>2. e0 \in Handler \X Nat /\ e0[1] = h /\ e0[2] = Len(q[h]) + 1
  BY <1>1
<1>3. \A e \in Handler \X Nat :
        /\ e[1] \in Handler /\ e[2] \in Nat
        /\ e[1] = h /\ e[2] = Len(q[h]) + 1 => e = e0
  OBVIOUS
<1>4. \A e \in Handler \X Nat :
        (e[2] \in 1..Len(r[e[1]]) /\ r[e[1]][e[2]] = s)
          <=> \/ e[2] \in 1..Len(q[e[1]]) /\ q[e[1]][e[2]] = s
              \/ e = e0 /\ s = u
  <2> HIDE DEF e0
  <2>1. ASSUME NEW e \in Handler \X Nat, e[1] = h
        PROVE  (e[2] \in 1..Len(r[e[1]]) /\ r[e[1]][e[2]] = s)
                 <=> \/ e[2] \in 1..Len(q[e[1]]) /\ q[e[1]][e[2]] = s
                     \/ e = e0 /\ s = u
    <3>1. e[2] \in 1..Len(r[h]) <=> e[2] \in 1..Len(q[h]) \/ e[2] = Len(q[h]) + 1
      BY <1>1, <1>3
    <3>2. QED
      BY <1>1, <1>2, <1>3, <2>1, <3>1
  <2>2. ASSUME NEW e \in Handler \X Nat, e[1] # h
        PROVE  (e[2] \in 1..Len(r[e[1]]) /\ r[e[1]][e[2]] = s)
                 <=> \/ e[2] \in 1..Len(q[e[1]]) /\ q[e[1]][e[2]] = s
                     \/ e = e0 /\ s = u
    BY <1>1, <1>2, <1>3, <2>2
  <2>3. QED
    BY <2>1, <2>2
<1>5. e0 \notin EntriesIn(q, s)
  BY <1>1, <1>2, EntriesInIs
<1> HIDE DEF e0
<1>a. \A e : e \in EntriesIn(q, s)
               <=> e \in Handler \X Nat /\ e[2] \in 1..Len(q[e[1]]) /\ q[e[1]][e[2]] = s
  BY EntriesInIs
<1>b. \A e : e \in EntriesIn(r, s)
               <=> e \in Handler \X Nat /\ e[2] \in 1..Len(r[e[1]]) /\ r[e[1]][e[2]] = s
  BY EntriesInIs
<1>6. CASE s = u
  <2>1. EntriesIn(r, s) = EntriesIn(q, s) \cup {e0}
    BY <1>2, <1>4, <1>6, <1>a, <1>b
  <2>2. /\ IsFiniteSet(EntriesIn(q, s) \cup {e0})
        /\ Cardinality(EntriesIn(q, s) \cup {e0}) = Cardinality(EntriesIn(q, s)) + 1
    BY <1>5, FS_AddElement
  <2>3. QED
    BY <1>6, <2>1, <2>2
<1>7. CASE s # u
  <2>1. EntriesIn(r, s) = EntriesIn(q, s)
    BY <1>4, <1>7, <1>a, <1>b
  <2>2. Cardinality(EntriesIn(q, s)) \in Nat
    BY FS_CardinalityType
  <2>3. QED
    BY <1>7, <2>1, <2>2
<1>8. QED
  BY <1>6, <1>7

LEMMA TailEntry ==
  ASSUME NEW q, NEW r, QueueMap(q), QueueMap(r), NEW h \in Handler,
         Shorter(q, r, h), NEW s \in Session,
         IsFiniteSet(EntriesIn(q, s))
  PROVE  /\ IsFiniteSet(EntriesIn(r, s))
         /\ Cardinality(EntriesIn(r, s)) =
              Cardinality(EntriesIn(q, s)) - (IF s = Head(q[h]) THEN 1 ELSE 0)
<1>1. /\ Len(q[h]) \in Nat /\ Len(q[h]) >= 1
      /\ Len(r[h]) = Len(q[h]) - 1 /\ q[h][1] = Head(q[h])
      /\ \A j \in 1..(Len(q[h]) - 1) : r[h][j] = q[h][j + 1]
      /\ \A g \in Handler : g # h => r[g] = q[g]
  BY DEF QueueMap, Shorter
<1> DEFINE first == <<h, 1>>
           Rest == EntriesIn(q, s) \ {first}
           Moved(e) == IF e[1] = h THEN <<h, e[2] - 1>> ELSE e
           f == [e \in Rest |-> Moved(e)]
<1>2. \A e : e \in Rest <=>
        /\ e \in Handler \X Nat /\ e[2] \in 1..Len(q[e[1]]) /\ q[e[1]][e[2]] = s
        /\ e # first
  BY EntriesInIs
<1>3. \A e : e \in EntriesIn(r, s) <=>
        e \in Handler \X Nat /\ e[2] \in 1..Len(r[e[1]]) /\ r[e[1]][e[2]] = s
  BY EntriesInIs
<1>4. \A e \in Handler \X Nat : /\ e[1] \in Handler /\ e[2] \in Nat /\ e = <<e[1], e[2]>>
  OBVIOUS
<1>5. ASSUME NEW e \in Rest
      PROVE  /\ Moved(e) \in EntriesIn(r, s) /\ Moved(e)[1] = e[1]
             /\ e[1] = h => Moved(e)[2] = e[2] - 1 /\ e[2] > 1
             /\ e[1] # h => Moved(e) = e
  <2>1. e \in Handler \X Nat /\ e[2] \in 1..Len(q[e[1]]) /\ q[e[1]][e[2]] = s /\ e # first
    BY <1>2
  <2>2. CASE e[1] = h
    <3>1. e[2] # 1
      BY <1>4, <2>1, <2>2
    <3>2. e[2] - 1 \in 1..Len(r[h]) /\ r[h][e[2] - 1] = q[h][e[2]] /\ e[2] > 1
      BY <1>1, <1>4, <2>1, <2>2, <3>1
    <3>3. Moved(e) = <<h, e[2] - 1>> /\ <<h, e[2] - 1>> \in Handler \X Nat
      BY <2>2, <3>2
    <3>4. QED
      BY <1>3, <2>1, <2>2, <3>2, <3>3
  <2>3. CASE e[1] # h
    BY <1>1, <1>3, <1>4, <2>1, <2>3
  <2>4. QED
    BY <2>2, <2>3
<1>6. \A a, b \in Rest : Moved(a) = Moved(b) => a = b
  <2> SUFFICES ASSUME NEW a \in Rest, NEW b \in Rest, Moved(a) = Moved(b)
               PROVE  a = b
    OBVIOUS
  <2>1. a \in Handler \X Nat /\ b \in Handler \X Nat
    BY <1>2
  <2> HIDE DEF Moved, Rest
  <2>2. a[1] = b[1]
    BY <1>5
  <2>3. a[1] = h => a[2] = b[2]
    BY <1>4, <1>5, <2>1, <2>2
  <2>4. QED
    BY <1>4, <1>5, <2>1, <2>2, <2>3
<1>7. ASSUME NEW d \in EntriesIn(r, s)  PROVE \E e \in Rest : Moved(e) = d
  <2>1. d \in Handler \X Nat /\ d[2] \in 1..Len(r[d[1]]) /\ r[d[1]][d[2]] = s
    BY <1>3
  <2>2. CASE d[1] = h
    <3>1. d[2] + 1 \in 1..Len(q[h]) /\ q[h][d[2] + 1] = s /\ d[2] + 1 # 1
      BY <1>1, <1>4, <2>1, <2>2
    <3>2. PICK e \in Handler \X Nat : e = <<h, d[2] + 1>>
      <4>1. d[2] + 1 \in Nat
        BY <1>4, <2>1
      <4>2. <<h, d[2] + 1>> \in Handler \X Nat
        BY <4>1
      <4>3. QED
        BY <4>2
    <3>3. e[1] = h /\ e[2] = d[2] + 1 /\ e # first
      BY <3>1, <3>2
    <3>4. e \in Rest
      BY <1>2, <3>1, <3>3
    <3>5. e[2] - 1 = d[2]
      BY <1>4, <2>1, <3>3
    <3>6. Moved(e) = d
      BY <1>4, <2>1, <2>2, <3>3, <3>5
    <3>7. QED
      BY <3>4, <3>6
  <2>3. CASE d[1] # h
    <3>1. d # first /\ r[d[1]] = q[d[1]]
      BY <1>1, <1>4, <2>1, <2>3
    <3>2. d \in Rest
      BY <1>2, <2>1, <3>1
    <3>3. QED
      BY <2>3, <3>2
  <2>4. QED
    BY <2>2, <2>3
<1> HIDE DEF Moved
<1>8. /\ IsFiniteSet(Rest)
      /\ Cardinality(Rest) = IF first \in EntriesIn(q, s)
                               THEN Cardinality(EntriesIn(q, s)) - 1
                               ELSE Cardinality(EntriesIn(q, s))
  BY FS_RemoveElement
<1>9. first \in EntriesIn(q, s) <=> s = Head(q[h])
  <2>1. first \in Handler \X Nat /\ first[1] = h /\ first[2] = 1
    OBVIOUS
  <2>2. QED
    BY <1>1, <2>1, EntriesInIs
<1> HIDE DEF Rest, first
<1>10. f \in [Rest -> EntriesIn(r, s)]
  BY <1>5
<1>11. \A a, b \in Rest : f[a] = f[b] => a = b
  BY <1>6
<1>12. \A d \in EntriesIn(r, s) : \E e \in Rest : f[e] = d
  BY <1>7
<1> HIDE DEF f
<1>13. f \in Bijection(Rest, EntriesIn(r, s))
  BY <1>10, <1>11, <1>12, Fun_IsBij
<1>14. ExistsBijection(Rest, EntriesIn(r, s))
  BY <1>13 DEF ExistsBijection
<1>15. IsFiniteSet(EntriesIn(r, s)) /\ Cardinality(EntriesIn(r, s)) = Cardinality(Rest)
  BY <1>8, <1>14, FS_Bijection
<1>16. Cardinality(EntriesIn(q, s)) \in Nat
  BY FS_CardinalityType
<1>17. QED
  BY <1>8, <1>9, <1>15, <1>16

(***************************************************************************)
(* Each step keeps the work covered.                                       *)
(***************************************************************************)
LEMMA EntriesNamed ==
  /\ \A s : Entries(s) = EntriesIn(sessionQueue, s)
  /\ \A s : Entries(s)' = EntriesIn(sessionQueue', s)
BY DEF Entries, EntriesIn

\* A step that leaves the entries alone, takes no thread out of the sets and brings
\* no work.
LEMMA IdleCovered ==
  ASSUME WInv, NEW s \in Session, UNCHANGED sessionQueue,
         Queueing(s) \subseteq Queueing(s)'
  PROVE  /\ IsFiniteSet(Entries(s)')
         /\ WillWrite(s) \subseteq WillWrite(s)' /\ outputMessageQueue'[s] = outputMessageQueue[s]
              => OutputsCovered(s)'
         /\ WillRead(s) \subseteq WillRead(s)' /\ inputBufferQueue'[s] = inputBufferQueue[s]
              => InputsCovered(s)'
<1>1. /\ IsFiniteSet(Entries(s)) /\ OutputsCovered(s) /\ InputsCovered(s)
      /\ outputMessageQueue[s] \in Seq(Nat) /\ inputBufferQueue[s] \in Seq(Channel)
  BY DEF WInv, IInv, TypeOK, Queues
<1>2. Entries(s)' = Entries(s) /\ Cardinality(Entries(s)) \in Nat
  BY <1>1, FS_CardinalityType DEF Entries
<1>3. Cardinality(Queueing(s)) <= Cardinality(Queueing(s)')
  BY CountsNext, FS_Subset
<1>4. ASSUME WillWrite(s) \subseteq WillWrite(s)',
             outputMessageQueue'[s] = outputMessageQueue[s]
      PROVE  OutputsCovered(s)'
  <2>1. Cardinality(WillWrite(s)) <= Cardinality(WillWrite(s)')
    BY <1>4, CountsNext, FS_Subset
  <2>2. Len(outputMessageQueue[s]) \in Nat
    BY <1>1
  <2>3. /\ Numbers(Len(outputMessageQueue[s]), Cardinality(Entries(s)),
                   Cardinality(Queueing(s)), Cardinality(WillWrite(s)))
        /\ Numbers(Len(outputMessageQueue'[s]), Cardinality(Entries(s)'),
                   Cardinality(Queueing(s)'), Cardinality(WillWrite(s)'))
    BY <1>2, <1>4, <2>2, Counts, CountsNext DEF Numbers
  <2>4. Covers(Len(outputMessageQueue[s]),
               Cardinality(Entries(s)), Cardinality(Queueing(s)), Cardinality(WillWrite(s)))
    BY <1>1 DEF OutputsCovered
  <2>5. Len(outputMessageQueue'[s]) <= Len(outputMessageQueue[s])
    BY <1>4, <2>2
  <2>6. Covers(Len(outputMessageQueue'[s]),
               Cardinality(Entries(s)'), Cardinality(Queueing(s)'), Cardinality(WillWrite(s)'))
    BY <1>2, <1>3, <2>1, <2>3, <2>4, <2>5, CoversKept
  <2>7. QED
    BY <2>6 DEF OutputsCovered
<1>5. ASSUME WillRead(s) \subseteq WillRead(s)', inputBufferQueue'[s] = inputBufferQueue[s]
      PROVE  InputsCovered(s)'
  <2>1. Cardinality(WillRead(s)) <= Cardinality(WillRead(s)')
    BY <1>5, CountsNext, FS_Subset
  <2>2. Len(inputBufferQueue[s]) \in Nat
    BY <1>1
  <2>3. /\ Numbers(Len(inputBufferQueue[s]), Cardinality(Entries(s)),
                   Cardinality(Queueing(s)), Cardinality(WillRead(s)))
        /\ Numbers(Len(inputBufferQueue'[s]), Cardinality(Entries(s)'),
                   Cardinality(Queueing(s)'), Cardinality(WillRead(s)'))
    BY <1>2, <1>5, <2>2, Counts, CountsNext DEF Numbers
  <2>4. Covers(Len(inputBufferQueue[s]),
               Cardinality(Entries(s)), Cardinality(Queueing(s)), Cardinality(WillRead(s)))
    BY <1>1 DEF InputsCovered
  <2>5. Len(inputBufferQueue'[s]) <= Len(inputBufferQueue[s])
    BY <1>5, <2>2
  <2>6. Covers(Len(inputBufferQueue'[s]),
               Cardinality(Entries(s)'), Cardinality(Queueing(s)'), Cardinality(WillRead(s)'))
    BY <1>2, <1>3, <2>1, <2>3, <2>4, <2>5, CoversKept
  <2>7. QED
    BY <2>6 DEF InputsCovered
<1>6. QED
  BY <1>1, <1>2, <1>4, <1>5

\* A queue that is empty needs no entry.
LEMMA EmptyCovered ==
  ASSUME NEW s \in Session, IsFiniteSet(Entries(s)')
  PROVE  /\ outputMessageQueue'[s] = << >> => OutputsCovered(s)'
         /\ inputBufferQueue'[s] = << >> => InputsCovered(s)'
<1>1. Cardinality(Entries(s)') \in Nat
  BY FS_CardinalityType
<1>2. Len(<< >>) = 0
  OBVIOUS
<1>3. QED
  BY <1>1, <1>2, CountsNext, NothingToCover DEF OutputsCovered, InputsCovered, Numbers

\* A thread queues new work at u and is about to add the entry for it.
LEMMA OfferCovered ==
  ASSUME WInv, NEW u \in Session, NEW s \in Session, NEW t \in Thread,
         UNCHANGED sessionQueue,
         t \notin Queueing(u),
         Queueing(s)' = IF s = u THEN Queueing(s) \cup {t} ELSE Queueing(s),
         WillWrite(s) \subseteq WillWrite(s)', WillRead(s) \subseteq WillRead(s)',
         Len(outputMessageQueue'[s])
           <= IF s = u THEN Len(outputMessageQueue[s]) + 1 ELSE Len(outputMessageQueue[s]),
         Len(inputBufferQueue'[s])
           <= IF s = u THEN Len(inputBufferQueue[s]) + 1 ELSE Len(inputBufferQueue[s]),
         outputMessageQueue'[s] \in Seq(Nat), inputBufferQueue'[s] \in Seq(Channel)
  PROVE  IsFiniteSet(Entries(s)') /\ OutputsCovered(s)' /\ InputsCovered(s)'
<1>1. /\ IsFiniteSet(Entries(s)) /\ OutputsCovered(s) /\ InputsCovered(s)
      /\ outputMessageQueue[s] \in Seq(Nat) /\ inputBufferQueue[s] \in Seq(Channel)
  BY DEF WInv, IInv, TypeOK, Queues
<1>2. Entries(s)' = Entries(s) /\ Cardinality(Entries(s)) \in Nat
  BY <1>1, FS_CardinalityType DEF Entries
<1>3. Cardinality(Queueing(s)') = Cardinality(Queueing(s)) + (IF s = u THEN 1 ELSE 0)
  <2>1. CASE s = u
    BY <2>1, Counts, FS_AddElement
  <2>2. CASE s # u
    BY <2>2, Counts
  <2>3. QED
    BY <2>1, <2>2
<1>4. Cardinality(WillWrite(s)) <= Cardinality(WillWrite(s)')
  BY CountsNext, FS_Subset
<1>5. Cardinality(WillRead(s)) <= Cardinality(WillRead(s)')
  BY CountsNext, FS_Subset
<1>6. /\ Len(outputMessageQueue[s]) \in Nat /\ Len(inputBufferQueue[s]) \in Nat
      /\ Len(outputMessageQueue'[s]) \in Nat /\ Len(inputBufferQueue'[s]) \in Nat
  BY <1>1
<1>7. OutputsCovered(s)'
  <2>1. /\ Numbers(Len(outputMessageQueue[s]), Cardinality(Entries(s)),
                   Cardinality(Queueing(s)), Cardinality(WillWrite(s)))
        /\ Numbers(Len(outputMessageQueue'[s]), Cardinality(Entries(s)'),
                   Cardinality(Queueing(s)'), Cardinality(WillWrite(s)'))
    BY <1>1, <1>2, <1>6, Counts, CountsNext, FS_CardinalityType DEF Numbers
  <2>2. \/ /\ Len(outputMessageQueue'[s]) <= Len(outputMessageQueue[s])
           /\ Cardinality(Queueing(s)) <= Cardinality(Queueing(s)')
        \/ /\ Len(outputMessageQueue'[s]) <= Len(outputMessageQueue[s]) + 1
           /\ Cardinality(Queueing(s)') = Cardinality(Queueing(s)) + 1
    BY <1>3, Counts
  <2>4. Covers(Len(outputMessageQueue[s]),
               Cardinality(Entries(s)), Cardinality(Queueing(s)), Cardinality(WillWrite(s)))
    BY <1>1 DEF OutputsCovered
  <2>5. Covers(Len(outputMessageQueue'[s]),
               Cardinality(Entries(s)'), Cardinality(Queueing(s)'), Cardinality(WillWrite(s)'))
    BY <1>2, <1>4, <2>1, <2>2, <2>4, CoversKept
  <2>6. QED
    BY <2>5 DEF OutputsCovered
<1>8. InputsCovered(s)'
  <2>1. /\ Numbers(Len(inputBufferQueue[s]), Cardinality(Entries(s)),
                   Cardinality(Queueing(s)), Cardinality(WillRead(s)))
        /\ Numbers(Len(inputBufferQueue'[s]), Cardinality(Entries(s)'),
                   Cardinality(Queueing(s)'), Cardinality(WillRead(s)'))
    BY <1>1, <1>2, <1>6, Counts, CountsNext, FS_CardinalityType DEF Numbers
  <2>2. \/ /\ Len(inputBufferQueue'[s]) <= Len(inputBufferQueue[s])
           /\ Cardinality(Queueing(s)) <= Cardinality(Queueing(s)')
        \/ /\ Len(inputBufferQueue'[s]) <= Len(inputBufferQueue[s]) + 1
           /\ Cardinality(Queueing(s)') = Cardinality(Queueing(s)) + 1
    BY <1>3, Counts
  <2>4. Covers(Len(inputBufferQueue[s]),
               Cardinality(Entries(s)), Cardinality(Queueing(s)), Cardinality(WillRead(s)))
    BY <1>1 DEF InputsCovered
  <2>5. Covers(Len(inputBufferQueue'[s]),
               Cardinality(Entries(s)'), Cardinality(Queueing(s)'), Cardinality(WillRead(s)'))
    BY <1>2, <1>5, <2>1, <2>2, <2>4, CoversKept
  <2>6. QED
    BY <2>5 DEF InputsCovered
<1>9. QED
  BY <1>1, <1>2, <1>7, <1>8

\* The thread adds the entry.
LEMMA QueueCovered ==
  ASSUME WInv, NEW u \in Session, NEW s \in Session, NEW t \in Thread, NEW h \in Handler,
         sessionQueue' = [sessionQueue EXCEPT ![h] = Append(@, u)],
         t \in Queueing(u),
         Queueing(s)' = IF s = u THEN Queueing(s) \ {t} ELSE Queueing(s),
         WillWrite(s) \subseteq WillWrite(s)', WillRead(s) \subseteq WillRead(s)',
         UNCHANGED <<outputMessageQueue, inputBufferQueue>>
  PROVE  IsFiniteSet(Entries(s)') /\ OutputsCovered(s)' /\ InputsCovered(s)'
<1>1. /\ IsFiniteSet(Entries(s)) /\ OutputsCovered(s) /\ InputsCovered(s)
      /\ outputMessageQueue[s] \in Seq(Nat) /\ inputBufferQueue[s] \in Seq(Channel)
      /\ sessionQueue \in [Handler -> Seq(Session)]
  BY DEF WInv, IInv, TypeOK, Queues
<1>2. /\ IsFiniteSet(Entries(s)') /\ Cardinality(Entries(s)) \in Nat
      /\ Cardinality(Entries(s)') = Cardinality(Entries(s)) + (IF s = u THEN 1 ELSE 0)
  <2>1. IsFiniteSet(EntriesIn(sessionQueue, s))
    BY <1>1, EntriesNamed
  <2>2. /\ IsFiniteSet(EntriesIn(sessionQueue', s))
        /\ Cardinality(EntriesIn(sessionQueue', s)) =
             Cardinality(EntriesIn(sessionQueue, s)) + (IF s = u THEN 1 ELSE 0)
    <3>1. /\ QueueMap(sessionQueue) /\ QueueMap(sessionQueue')
          /\ Longer(sessionQueue, sessionQueue', h, u)
      BY <1>1 DEF QueueMap, Longer
    <3>2. QED
      BY <2>1, <3>1, AppendEntry
  <2>3. Cardinality(Entries(s)) \in Nat
    BY <1>1, FS_CardinalityType
  <2>4. QED
    BY <2>2, <2>3, EntriesNamed
<1>3. Cardinality(Queueing(s)') = Cardinality(Queueing(s)) - (IF s = u THEN 1 ELSE 0)
  <2>1. CASE s = u
    <3>1. Cardinality(Queueing(s) \ {t}) = Cardinality(Queueing(s)) - 1
      BY <2>1, Counts, FS_RemoveElement
    <3>2. QED
      BY <2>1, <3>1
  <2>2. CASE s # u
    BY <2>2, Counts
  <2>3. QED
    BY <2>1, <2>2
<1>4. Cardinality(WillWrite(s)) <= Cardinality(WillWrite(s)')
  BY CountsNext, FS_Subset
<1>5. Cardinality(WillRead(s)) <= Cardinality(WillRead(s)')
  BY CountsNext, FS_Subset
<1>6. Len(outputMessageQueue[s]) \in Nat /\ Len(inputBufferQueue[s]) \in Nat
  BY <1>1
<1>7. OutputsCovered(s)'
  <2>1. /\ Numbers(Len(outputMessageQueue[s]), Cardinality(Entries(s)),
                   Cardinality(Queueing(s)), Cardinality(WillWrite(s)))
        /\ Numbers(Len(outputMessageQueue'[s]), Cardinality(Entries(s)'),
                   Cardinality(Queueing(s)'), Cardinality(WillWrite(s)'))
    BY <1>1, <1>2, <1>6, Counts, CountsNext, FS_CardinalityType DEF Numbers
  <2>2. \/ /\ Cardinality(Entries(s)') = Cardinality(Entries(s))
           /\ Cardinality(Queueing(s)) <= Cardinality(Queueing(s)')
        \/ /\ Cardinality(Entries(s)') = Cardinality(Entries(s)) + 1
           /\ Cardinality(Queueing(s)') = Cardinality(Queueing(s)) - 1
    BY <1>2, <1>3, Counts
  <2>3. Len(outputMessageQueue'[s]) <= Len(outputMessageQueue[s])
    BY <1>6
  <2>4. Covers(Len(outputMessageQueue[s]),
               Cardinality(Entries(s)), Cardinality(Queueing(s)), Cardinality(WillWrite(s)))
    BY <1>1 DEF OutputsCovered
  <2>5. Covers(Len(outputMessageQueue'[s]),
               Cardinality(Entries(s)'), Cardinality(Queueing(s)'), Cardinality(WillWrite(s)'))
    BY <1>2, <1>4, <2>1, <2>2, <2>3, <2>4, CoversKept
  <2>6. QED
    BY <2>5 DEF OutputsCovered
<1>8. InputsCovered(s)'
  <2>1. /\ Numbers(Len(inputBufferQueue[s]), Cardinality(Entries(s)),
                   Cardinality(Queueing(s)), Cardinality(WillRead(s)))
        /\ Numbers(Len(inputBufferQueue'[s]), Cardinality(Entries(s)'),
                   Cardinality(Queueing(s)'), Cardinality(WillRead(s)'))
    BY <1>1, <1>2, <1>6, Counts, CountsNext, FS_CardinalityType DEF Numbers
  <2>2. \/ /\ Cardinality(Entries(s)') = Cardinality(Entries(s))
           /\ Cardinality(Queueing(s)) <= Cardinality(Queueing(s)')
        \/ /\ Cardinality(Entries(s)') = Cardinality(Entries(s)) + 1
           /\ Cardinality(Queueing(s)') = Cardinality(Queueing(s)) - 1
    BY <1>2, <1>3, Counts
  <2>3. Len(inputBufferQueue'[s]) <= Len(inputBufferQueue[s])
    BY <1>6
  <2>4. Covers(Len(inputBufferQueue[s]),
               Cardinality(Entries(s)), Cardinality(Queueing(s)), Cardinality(WillRead(s)))
    BY <1>1 DEF InputsCovered
  <2>5. Covers(Len(inputBufferQueue'[s]),
               Cardinality(Entries(s)'), Cardinality(Queueing(s)'), Cardinality(WillRead(s)'))
    BY <1>2, <1>5, <2>1, <2>2, <2>3, <2>4, CoversKept
  <2>6. QED
    BY <2>5 DEF InputsCovered
<1>9. QED
  BY <1>2, <1>7, <1>8

LEMMA putInputBufferCovered ==
  ASSUME WInv, NEW s \in Session, putInputBuffer
  PROVE  IsFiniteSet(Entries(s)') /\ OutputsCovered(s)' /\ InputsCovered(s)'
<1> USE DEF WInv, IInv
<1>1. PICK u \in Session : u = session[Reader]
  BY DEF ReaderOwns, putInputBuffer
<1>2. /\ UNCHANGED <<sessionQueue, outputMessageQueue, session, target>>
      /\ at[Reader] = "putInputBuffer" /\ at'[Reader] = "queue"
      /\ \A r \in Registrar : at'[r] = at[r]
  BY DEF putInputBuffer, TypeOK, Places
<1>3. Queueing(s)' = IF s = u THEN Queueing(s) \cup {Reader} ELSE Queueing(s)
  BY <1>1, <1>2 DEF Queueing
<1>4. Reader \notin Queueing(u)
  BY <1>2 DEF Queueing
<1>5. WillWrite(s) \subseteq WillWrite(s)' /\ WillRead(s) \subseteq WillRead(s)'
  BY <1>2 DEF WillWrite, WillRead
<1>6. channel \in Channel
  BY <1>2 DEF ReaderOwns
<1>7. /\ inputBufferQueue[s] \in Seq(Channel) /\ outputMessageQueue[s] \in Seq(Nat)
      /\ inputBufferQueue'[s] = IF s = u THEN Append(inputBufferQueue[s], channel)
                                         ELSE inputBufferQueue[s]
  BY <1>1 DEF putInputBuffer, TypeOK, Queues
<1>8. /\ inputBufferQueue'[s] \in Seq(Channel)
      /\ Len(inputBufferQueue'[s])
           <= IF s = u THEN Len(inputBufferQueue[s]) + 1 ELSE Len(inputBufferQueue[s])
  BY <1>6, <1>7
<1>9. /\ outputMessageQueue'[s] \in Seq(Nat)
      /\ Len(outputMessageQueue'[s])
           <= IF s = u THEN Len(outputMessageQueue[s]) + 1 ELSE Len(outputMessageQueue[s])
  BY <1>2, <1>7
<1> QED
  BY <1>2, <1>3, <1>4, <1>5, <1>8, <1>9, OfferCovered

LEMMA QueueReadCovered ==
  ASSUME WInv, NEW s \in Session, QueueRead
  PROVE  IsFiniteSet(Entries(s)') /\ OutputsCovered(s)' /\ InputsCovered(s)'
<1> USE DEF WInv, IInv
<1>1. PICK u \in Session : u = session[Reader]
  BY DEF ReaderOwns, QueueRead
<1>2. /\ UNCHANGED <<inputBufferQueue, outputMessageQueue, session, target>>
      /\ at[Reader] = "queue" /\ at'[Reader] = "loop"
      /\ \A r \in Registrar : at'[r] = at[r]
  BY DEF QueueRead, TypeOK, Places
<1>3. PICK h \in Handler : h = readHandler
  BY <1>1, <1>2 DEF ReaderOwns, TypeOK, Pool
<1>4. sessionQueue' = [sessionQueue EXCEPT ![h] = Append(@, u)]
  BY <1>1, <1>3 DEF QueueRead
<1>5. Queueing(s)' = IF s = u THEN Queueing(s) \ {Reader} ELSE Queueing(s)
  BY <1>1, <1>2 DEF Queueing
<1>6. Reader \in Queueing(u)
  BY <1>1, <1>2 DEF Queueing
<1>7. WillWrite(s) \subseteq WillWrite(s)' /\ WillRead(s) \subseteq WillRead(s)'
  BY <1>2 DEF WillWrite, WillRead
<1> QED
  BY <1>2, <1>4, <1>5, <1>6, <1>7, QueueCovered

LEMMA registerCovered ==
  ASSUME WInv, NEW s \in Session, NEW r \in Registrar, registerOutputMessage(r)
  PROVE  IsFiniteSet(Entries(s)') /\ OutputsCovered(s)' /\ InputsCovered(s)'
<1> USE DEF WInv, IInv
<1>1. PICK u \in Session : u = target[r]
  BY DEF Targets, RegisterPlaces, registerOutputMessage
<1>2. /\ UNCHANGED <<sessionQueue, inputBufferQueue, session, target>>
      /\ at[r] = "offer" /\ at'[r] = "queue"
      /\ \A t \in Thread : t # r => at'[t] = at[t]
  BY DEF registerOutputMessage, TypeOK, Places
<1>3. Queueing(s)' = IF s = u THEN Queueing(s) \cup {r} ELSE Queueing(s)
  BY <1>1, <1>2 DEF Queueing
<1>4. r \notin Queueing(u)
  BY <1>2 DEF Queueing
<1>5. WillWrite(s) \subseteq WillWrite(s)' /\ WillRead(s) \subseteq WillRead(s)'
  BY <1>2 DEF WillWrite, WillRead
<1>6. registered' \in Nat
  BY DEF TypeOK, Queues, registerOutputMessage
<1>7. /\ inputBufferQueue[s] \in Seq(Channel) /\ outputMessageQueue[s] \in Seq(Nat)
      /\ outputMessageQueue'[s] = IF s = u THEN Append(outputMessageQueue[s], registered')
                                           ELSE outputMessageQueue[s]
  BY <1>1 DEF registerOutputMessage, TypeOK, Queues
<1>8. /\ outputMessageQueue'[s] \in Seq(Nat)
      /\ Len(outputMessageQueue'[s])
           <= IF s = u THEN Len(outputMessageQueue[s]) + 1 ELSE Len(outputMessageQueue[s])
  BY <1>6, <1>7
<1>9. /\ inputBufferQueue'[s] \in Seq(Channel)
      /\ Len(inputBufferQueue'[s])
           <= IF s = u THEN Len(inputBufferQueue[s]) + 1 ELSE Len(inputBufferQueue[s])
  BY <1>2, <1>7
<1> QED
  BY <1>2, <1>3, <1>4, <1>5, <1>8, <1>9, OfferCovered

LEMMA QueueMessageCovered ==
  ASSUME WInv, NEW s \in Session, NEW r \in Registrar, QueueMessage(r)
  PROVE  IsFiniteSet(Entries(s)') /\ OutputsCovered(s)' /\ InputsCovered(s)'
<1> USE DEF WInv, IInv
<1>1. PICK u \in Session : u = target[r] /\ Connected(u)
  BY DEF Targets, RegisterPlaces, QueueMessage
<1>2. /\ UNCHANGED <<inputBufferQueue, outputMessageQueue, session, target>>
      /\ at[r] = "queue" /\ at'[r] = back[r]
      /\ \A t \in Thread : t # r => at'[t] = at[t]
  BY DEF QueueMessage, TypeOK, Places
<1>3. back[r] \in {"loop", "operations", "disconnect"}
      /\ (r \in Handler => back[r] # "loop")
  BY <1>2 DEF TypeOK, Locals, Backs, RegisterPlaces
<1>4. PICK h \in Handler : h = sessionHandler[u]
  BY <1>1 DEF Connected, TypeOK, Pool
<1>5. sessionQueue' = [sessionQueue EXCEPT ![h] = Append(@, u)]
  BY <1>1, <1>4 DEF QueueMessage
<1>6. Queueing(s)' = IF s = u THEN Queueing(s) \ {r} ELSE Queueing(s)
  BY <1>1, <1>2, <1>3 DEF Queueing
<1>7. r \in Queueing(u)
  BY <1>1, <1>2 DEF Queueing
<1>8. WillWrite(s) \subseteq WillWrite(s)' /\ WillRead(s) \subseteq WillRead(s)'
  BY <1>2, <1>3 DEF WillWrite, WillRead
<1> QED
  BY <1>2, <1>5, <1>6, <1>7, <1>8, QueueCovered

LEMMA PollCovered ==
  ASSUME WInv, NEW s \in Session, NEW h \in Handler, Poll(h)
  PROVE  IsFiniteSet(Entries(s)') /\ OutputsCovered(s)' /\ InputsCovered(s)'
<1> USE DEF WInv, IInv
<1>1. /\ UNCHANGED <<inputBufferQueue, outputMessageQueue, target>>
      /\ at[h] = "loop" /\ at'[h] = "isReadable" /\ session'[h] = Head(sessionQueue[h])
      /\ \A t \in Thread : t # h => at'[t] = at[t] /\ session'[t] = session[t]
      /\ sessionQueue[h] # << >> /\ sessionQueue' = [sessionQueue EXCEPT ![h] = Tail(@)]
  BY DEF Poll, TypeOK, Places, Locals
<1>2. /\ sessionQueue \in [Handler -> Seq(Session)] /\ IsFiniteSet(Entries(s))
      /\ outputMessageQueue[s] \in Seq(Nat) /\ inputBufferQueue[s] \in Seq(Channel)
  BY DEF TypeOK, Queues
<1>3. /\ IsFiniteSet(Entries(s)') /\ Cardinality(Entries(s)) \in Nat
      /\ Cardinality(Entries(s)') =
           Cardinality(Entries(s)) - (IF s = Head(sessionQueue[h]) THEN 1 ELSE 0)
  <2>1. IsFiniteSet(EntriesIn(sessionQueue, s))
    BY <1>2, EntriesNamed
  <2>2. /\ IsFiniteSet(EntriesIn(sessionQueue', s))
        /\ Cardinality(EntriesIn(sessionQueue', s)) =
             Cardinality(EntriesIn(sessionQueue, s)) - (IF s = Head(sessionQueue[h]) THEN 1 ELSE 0)
    <3>1. /\ QueueMap(sessionQueue) /\ QueueMap(sessionQueue')
          /\ Shorter(sessionQueue, sessionQueue', h)
      BY <1>1, <1>2 DEF QueueMap, Shorter
    <3>2. QED
      BY <2>1, <3>1, TailEntry
  <2>3. Cardinality(Entries(s)) \in Nat
    BY <1>2, FS_CardinalityType
  <2>4. QED
    BY <2>2, <2>3, EntriesNamed
<1>4. Queueing(s)' = Queueing(s)
  BY <1>1 DEF Queueing
<1>5. /\ h \notin WillWrite(s) /\ h \notin WillRead(s)
      /\ WillWrite(s)' = IF s = Head(sessionQueue[h]) THEN WillWrite(s) \cup {h} ELSE WillWrite(s)
      /\ WillRead(s)' = IF s = Head(sessionQueue[h]) THEN WillRead(s) \cup {h} ELSE WillRead(s)
  BY <1>1 DEF WillWrite, WillRead
<1>6. /\ Cardinality(WillWrite(s)') =
           Cardinality(WillWrite(s)) + (IF s = Head(sessionQueue[h]) THEN 1 ELSE 0)
      /\ Cardinality(WillRead(s)') =
           Cardinality(WillRead(s)) + (IF s = Head(sessionQueue[h]) THEN 1 ELSE 0)
  <2>1. CASE s = Head(sessionQueue[h])
    <3>1. IsFiniteSet(WillWrite(s)) /\ IsFiniteSet(WillRead(s))
      BY Counts
    <3>2. Cardinality(WillWrite(s) \cup {h}) = Cardinality(WillWrite(s)) + 1
      BY <1>5, <3>1, FS_AddElement
    <3>3. Cardinality(WillRead(s) \cup {h}) = Cardinality(WillRead(s)) + 1
      BY <1>5, <3>1, FS_AddElement
    <3>4. QED
      BY <1>5, <2>1, <3>2, <3>3
  <2>2. CASE s # Head(sessionQueue[h])
    BY <1>5, <2>2, Counts
  <2>3. QED
    BY <2>1, <2>2
<1>7. Len(outputMessageQueue[s]) \in Nat /\ Len(inputBufferQueue[s]) \in Nat
  BY <1>2
<1>8. OutputsCovered(s)'
  <2>1. CASE s = Head(sessionQueue[h])
    <3>1. Len(outputMessageQueue'[s]) <= Len(outputMessageQueue[s])
      BY <1>1, <1>7
    <3>2. /\ Numbers(Len(outputMessageQueue[s]), Cardinality(Entries(s)),
                     Cardinality(Queueing(s)), Cardinality(WillWrite(s)))
          /\ Numbers(Len(outputMessageQueue'[s]), Cardinality(Entries(s)'),
                     Cardinality(Queueing(s)'), Cardinality(WillWrite(s)'))
      BY <1>1, <1>3, <1>7, Counts, CountsNext, FS_CardinalityType DEF Numbers
    <3>3. /\ Cardinality(Entries(s)') = Cardinality(Entries(s)) - 1
          /\ Cardinality(Queueing(s)') = Cardinality(Queueing(s))
          /\ Cardinality(WillWrite(s)') = Cardinality(WillWrite(s)) + 1
      BY <1>3, <1>4, <1>6, <2>1
    <3>4. Covers(Len(outputMessageQueue[s]),
                 Cardinality(Entries(s)), Cardinality(Queueing(s)), Cardinality(WillWrite(s)))
      BY DEF OutputsCovered
    <3>5. Covers(Len(outputMessageQueue'[s]),
                 Cardinality(Entries(s)'), Cardinality(Queueing(s)'), Cardinality(WillWrite(s)'))
      BY <3>1, <3>2, <3>3, <3>4, CoversKept
    <3>6. QED
      BY <3>5 DEF OutputsCovered
  <2>2. CASE s # Head(sessionQueue[h])
    <3>1. Cardinality(Entries(s)') = Cardinality(Entries(s)) /\ WillWrite(s)' = WillWrite(s)
      BY <1>3, <1>5, <2>2
    <3>2. QED
      BY <1>1, <1>4, <3>1 DEF OutputsCovered
  <2>3. QED
    BY <2>1, <2>2
<1>9. InputsCovered(s)'
  <2>1. CASE s = Head(sessionQueue[h])
    <3>1. Len(inputBufferQueue'[s]) <= Len(inputBufferQueue[s])
      BY <1>1, <1>7
    <3>2. /\ Numbers(Len(inputBufferQueue[s]), Cardinality(Entries(s)),
                     Cardinality(Queueing(s)), Cardinality(WillRead(s)))
          /\ Numbers(Len(inputBufferQueue'[s]), Cardinality(Entries(s)'),
                     Cardinality(Queueing(s)'), Cardinality(WillRead(s)'))
      BY <1>1, <1>3, <1>7, Counts, CountsNext, FS_CardinalityType DEF Numbers
    <3>3. /\ Cardinality(Entries(s)') = Cardinality(Entries(s)) - 1
          /\ Cardinality(Queueing(s)') = Cardinality(Queueing(s))
          /\ Cardinality(WillRead(s)') = Cardinality(WillRead(s)) + 1
      BY <1>3, <1>4, <1>6, <2>1
    <3>4. Covers(Len(inputBufferQueue[s]),
                 Cardinality(Entries(s)), Cardinality(Queueing(s)), Cardinality(WillRead(s)))
      BY DEF InputsCovered
    <3>5. Covers(Len(inputBufferQueue'[s]),
                 Cardinality(Entries(s)'), Cardinality(Queueing(s)'), Cardinality(WillRead(s)'))
      BY <3>1, <3>2, <3>3, <3>4, CoversKept
    <3>6. QED
      BY <3>5 DEF InputsCovered
  <2>2. CASE s # Head(sessionQueue[h])
    <3>1. Cardinality(Entries(s)') = Cardinality(Entries(s)) /\ WillRead(s)' = WillRead(s)
      BY <1>3, <1>5, <2>2
    <3>2. QED
      BY <1>1, <1>4, <3>1 DEF InputsCovered
  <2>3. QED
    BY <2>1, <2>2
<1> QED
  BY <1>3, <1>8, <1>9

LEMMA isReadableCovered ==
  ASSUME WInv, NEW s \in Session, NEW h \in Handler, isReadable(h)
  PROVE  IsFiniteSet(Entries(s)') /\ OutputsCovered(s)' /\ InputsCovered(s)'
<1> USE DEF WInv, IInv
<1>1. /\ UNCHANGED <<sessionQueue, inputBufferQueue, outputMessageQueue, target, session>>
      /\ at[h] = "isReadable"
      /\ at'[h] = IF inputBufferQueue[session[h]] = << >> THEN "isWritable" ELSE "getInputBuffer"
      /\ \A t \in Thread : t # h => at'[t] = at[t]
  BY DEF isReadable, TypeOK, Places
<1>2. Queueing(s)' = Queueing(s) /\ WillWrite(s) \subseteq WillWrite(s)'
  BY <1>1 DEF Queueing, WillWrite
<1>3. CASE inputBufferQueue[s] = << >>
  BY <1>1, <1>2, <1>3, IdleCovered, EmptyCovered
<1>4. CASE inputBufferQueue[s] # << >>
  <2>1. WillRead(s) \subseteq WillRead(s)'
    BY <1>1, <1>4 DEF WillRead
  <2>2. QED
    BY <1>1, <1>2, <2>1, IdleCovered
<1> QED
  BY <1>3, <1>4

LEMMA getInputBufferCovered ==
  ASSUME WInv, NEW s \in Session, NEW h \in Handler, getInputBuffer(h)
  PROVE  IsFiniteSet(Entries(s)') /\ OutputsCovered(s)' /\ InputsCovered(s)'
<1> USE DEF WInv, IInv
<1>1. PICK u \in Session : u = session[h]
  BY DEF HandlersOwn, getInputBuffer
<1>2. /\ UNCHANGED <<sessionQueue, outputMessageQueue, target, session>>
      /\ at[h] = "getInputBuffer" /\ at'[h] \in {"isWritable", "operations"}
      /\ \A t \in Thread : t # h => at'[t] = at[t]
  BY DEF getInputBuffer, TypeOK, Places
<1>3. Queueing(s)' = Queueing(s) /\ WillWrite(s) \subseteq WillWrite(s)'
  BY <1>2 DEF Queueing, WillWrite
<1>4. IsFiniteSet(Entries(s)') /\ OutputsCovered(s)'
  BY <1>2, <1>3, IdleCovered
<1>5. CASE s # u
  <2>1. inputBufferQueue'[s] = inputBufferQueue[s]
    BY <1>1, <1>5 DEF getInputBuffer, TypeOK, Queues
  <2>2. WillRead(s) \subseteq WillRead(s)'
    BY <1>1, <1>2, <1>5 DEF WillRead
  <2>3. QED
    BY <1>2, <1>3, <1>4, <2>1, <2>2, IdleCovered
<1>6. CASE s = u /\ inputBufferQueue[s] = << >>
  <2>1. inputBufferQueue'[s] = << >>
    BY <1>1, <1>6 DEF getInputBuffer
  <2>2. QED
    BY <1>4, <2>1, EmptyCovered
<1>7. CASE s = u /\ inputBufferQueue[s] # << >>
  <2>1. inputBufferQueue[s] \in Seq(Channel) /\ inputBufferQueue'[s] = Tail(inputBufferQueue[s])
    BY <1>1, <1>7 DEF getInputBuffer, TypeOK, Queues
  <2>2. Len(inputBufferQueue[s]) \in Nat /\ Len(inputBufferQueue'[s]) = Len(inputBufferQueue[s]) - 1
    BY <1>7, <2>1
  <2>a. Len(inputBufferQueue'[s]) \in Nat
    BY <1>7, <2>1
  <2>3. h \in WillRead(s) /\ WillRead(s)' = WillRead(s) \ {h}
    BY <1>1, <1>2, <1>7 DEF WillRead
  <2>4. Cardinality(WillRead(s)') = Cardinality(WillRead(s)) - 1
    <3>1. IsFiniteSet(WillRead(s))
      BY Counts
    <3>2. Cardinality(WillRead(s) \ {h}) = Cardinality(WillRead(s)) - 1
      BY <2>3, <3>1, FS_RemoveElement
    <3>3. QED
      BY <2>3, <3>2
  <2>5. Entries(s)' = Entries(s) /\ Cardinality(Entries(s)) \in Nat
    BY <1>2, FS_CardinalityType DEF Entries
  <2>6. InputsCovered(s)'
    <3>1. /\ Numbers(Len(inputBufferQueue[s]), Cardinality(Entries(s)),
                     Cardinality(Queueing(s)), Cardinality(WillRead(s)))
          /\ Numbers(Len(inputBufferQueue'[s]), Cardinality(Entries(s)'),
                     Cardinality(Queueing(s)'), Cardinality(WillRead(s)'))
      BY <2>2, <2>5, Counts, CountsNext, <2>a DEF Numbers
    <3>2. Cardinality(Entries(s)') = Cardinality(Entries(s))
          /\ Cardinality(Queueing(s)') = Cardinality(Queueing(s))
      BY <1>3, <2>5
    <3>3. Covers(Len(inputBufferQueue[s]),
                 Cardinality(Entries(s)), Cardinality(Queueing(s)), Cardinality(WillRead(s)))
      BY DEF InputsCovered
    <3>4. Covers(Len(inputBufferQueue'[s]),
                 Cardinality(Entries(s)'), Cardinality(Queueing(s)'), Cardinality(WillRead(s)'))
      BY <2>2, <2>4, <3>1, <3>2, <3>3, CoversKept
    <3>5. QED
      BY <3>4 DEF InputsCovered
  <2>7. QED
    BY <1>4, <2>6
<1> QED
  BY <1>5, <1>6, <1>7

LEMMA isWritableCovered ==
  ASSUME WInv, NEW s \in Session, NEW h \in Handler, isWritable(h)
  PROVE  IsFiniteSet(Entries(s)') /\ OutputsCovered(s)' /\ InputsCovered(s)'
<1> USE DEF WInv, IInv
<1>1. /\ UNCHANGED <<sessionQueue, inputBufferQueue, outputMessageQueue, target, session>>
      /\ at[h] = "isWritable"
      /\ at'[h] = IF outputMessageQueue[session[h]] = << >> THEN "loop" ELSE "getOutputMessage"
      /\ \A t \in Thread : t # h => at'[t] = at[t]
  BY DEF isWritable, TypeOK, Places
<1>2. Queueing(s)' = Queueing(s) /\ WillRead(s) \subseteq WillRead(s)'
  BY <1>1 DEF Queueing, WillRead
<1>3. CASE outputMessageQueue[s] = << >>
  BY <1>1, <1>2, <1>3, IdleCovered, EmptyCovered
<1>4. CASE outputMessageQueue[s] # << >>
  <2>1. WillWrite(s) \subseteq WillWrite(s)'
    BY <1>1, <1>4 DEF WillWrite
  <2>2. QED
    BY <1>1, <1>2, <2>1, IdleCovered
<1> QED
  BY <1>3, <1>4

LEMMA getOutputMessageCovered ==
  ASSUME WInv, NEW s \in Session, NEW h \in Handler, getOutputMessage(h)
  PROVE  IsFiniteSet(Entries(s)') /\ OutputsCovered(s)' /\ InputsCovered(s)'
<1> USE DEF WInv, IInv
<1>1. PICK u \in Session : u = session[h]
  BY DEF HandlersOwn, getOutputMessage
<1>2. /\ UNCHANGED <<sessionQueue, inputBufferQueue, target, session>>
      /\ at[h] = "getOutputMessage" /\ at'[h] \in {"dead", "write"}
      /\ \A t \in Thread : t # h => at'[t] = at[t]
  BY DEF getOutputMessage, TypeOK, Places
<1>3. Queueing(s)' = Queueing(s) /\ WillRead(s) \subseteq WillRead(s)'
  BY <1>2 DEF Queueing, WillRead
<1>4. IsFiniteSet(Entries(s)') /\ InputsCovered(s)'
  BY <1>2, <1>3, IdleCovered
<1>5. CASE s # u
  <2>1. outputMessageQueue'[s] = outputMessageQueue[s]
    BY <1>1, <1>5 DEF getOutputMessage, TypeOK, Queues
  <2>2. WillWrite(s) \subseteq WillWrite(s)'
    BY <1>1, <1>2, <1>5 DEF WillWrite
  <2>3. QED
    BY <1>2, <1>3, <1>4, <2>1, <2>2, IdleCovered
<1>6. CASE s = u /\ outputMessageQueue[s] = << >>
  <2>1. outputMessageQueue'[s] = << >>
    BY <1>1, <1>6 DEF getOutputMessage
  <2>2. QED
    BY <1>4, <2>1, EmptyCovered
<1>7. CASE s = u /\ outputMessageQueue[s] # << >>
  <2>1. /\ outputMessageQueue[s] \in Seq(Nat)
        /\ outputMessageQueue'[s] = Tail(outputMessageQueue[s])
    BY <1>1, <1>7 DEF getOutputMessage, TypeOK, Queues
  <2>2. /\ Len(outputMessageQueue[s]) \in Nat
        /\ Len(outputMessageQueue'[s]) = Len(outputMessageQueue[s]) - 1
    BY <1>7, <2>1
  <2>a. Len(outputMessageQueue'[s]) \in Nat
    BY <1>7, <2>1
  <2>3. h \in WillWrite(s) /\ WillWrite(s)' = WillWrite(s) \ {h}
    BY <1>1, <1>2, <1>7 DEF WillWrite
  <2>4. Cardinality(WillWrite(s)') = Cardinality(WillWrite(s)) - 1
    <3>1. IsFiniteSet(WillWrite(s))
      BY Counts
    <3>2. Cardinality(WillWrite(s) \ {h}) = Cardinality(WillWrite(s)) - 1
      BY <2>3, <3>1, FS_RemoveElement
    <3>3. QED
      BY <2>3, <3>2
  <2>5. Entries(s)' = Entries(s) /\ Cardinality(Entries(s)) \in Nat
    BY <1>2, FS_CardinalityType DEF Entries
  <2>6. OutputsCovered(s)'
    <3>1. /\ Numbers(Len(outputMessageQueue[s]), Cardinality(Entries(s)),
                     Cardinality(Queueing(s)), Cardinality(WillWrite(s)))
          /\ Numbers(Len(outputMessageQueue'[s]), Cardinality(Entries(s)'),
                     Cardinality(Queueing(s)'), Cardinality(WillWrite(s)'))
      BY <2>2, <2>5, Counts, CountsNext, <2>a DEF Numbers
    <3>2. Cardinality(Entries(s)') = Cardinality(Entries(s))
          /\ Cardinality(Queueing(s)') = Cardinality(Queueing(s))
      BY <1>3, <2>5
    <3>3. Covers(Len(outputMessageQueue[s]),
                 Cardinality(Entries(s)), Cardinality(Queueing(s)), Cardinality(WillWrite(s)))
      BY DEF OutputsCovered
    <3>4. Covers(Len(outputMessageQueue'[s]),
                 Cardinality(Entries(s)'), Cardinality(Queueing(s)'), Cardinality(WillWrite(s)'))
      BY <2>2, <2>4, <3>1, <3>2, <3>3, CoversKept
    <3>5. QED
      BY <3>4 DEF OutputsCovered
  <2>7. QED
    BY <1>4, <2>6
<1> QED
  BY <1>5, <1>6, <1>7

LEMMA OnCloseCovered ==
  ASSUME WInv, NEW s \in Session, NEW r \in Registrar, OnClose(r)
  PROVE  IsFiniteSet(Entries(s)') /\ OutputsCovered(s)' /\ InputsCovered(s)'
<1> USE DEF WInv, IInv
<1>1. /\ UNCHANGED <<sessionQueue, outputMessageQueue, session>>
      /\ at[r] = "OnClose" /\ at'[r] \in {"offer", "disconnect"}
      /\ \A t \in Thread : t # r => at'[t] = at[t]
      /\ \A t \in Registrar : t # r => target'[t] = target[t]
  BY DEF OnClose, Call, TypeOK, Places, Locals
<1>2. Queueing(s)' = Queueing(s)
  BY <1>1 DEF Queueing
<1>3. WillWrite(s) \subseteq WillWrite(s)' /\ WillRead(s) \subseteq WillRead(s)'
  BY <1>1 DEF WillWrite, WillRead
<1>4. IsFiniteSet(Entries(s)') /\ OutputsCovered(s)'
  BY <1>1, <1>2, <1>3, IdleCovered
<1>5. inputBufferQueue'[s] = inputBufferQueue[s] \/ inputBufferQueue'[s] = << >>
  BY DEF OnClose, TypeOK, Queues
<1>6. InputsCovered(s)'
  BY <1>1, <1>2, <1>3, <1>4, <1>5, IdleCovered, EmptyCovered
<1> QED
  BY <1>4, <1>6

\* A step that adds and takes neither work nor entries.
Aside ==
  /\ UNCHANGED <<sessionQueue, inputBufferQueue, outputMessageQueue>>
  /\ \A r \in Registrar : at[r] = "queue" => at'[r] = "queue" /\ target'[r] = target[r]
  /\ at[Reader] = "queue" => at'[Reader] = "queue" /\ session'[Reader] = session[Reader]
  /\ \A h \in Handler :
       \/ at'[h] = at[h] /\ session'[h] = session[h]
       \/ at[h] \in {"loop", "write", "dead"}
       \/ /\ at[h] \notin {"isReadable", "getInputBuffer"}
          /\ at'[h] \notin {"loop", "write", "dead"} /\ session'[h] = session[h]

LEMMA AsideCovered ==
  ASSUME WInv, NEW s \in Session, Aside
  PROVE  IsFiniteSet(Entries(s)') /\ OutputsCovered(s)' /\ InputsCovered(s)'
<1>1. Queueing(s) \subseteq Queueing(s)'
  BY DEF Queueing, Aside
<1>2. WillWrite(s) \subseteq WillWrite(s)'
  BY DEF WillWrite, Aside
<1>3. WillRead(s) \subseteq WillRead(s)'
  BY DEF WillRead, Aside
<1>4. QED
  BY <1>1, <1>2, <1>3, IdleCovered DEF Aside

LEMMA NextBacks ==
  ASSUME IInv, Backs, [Next]_vars
  PROVE  Backs'
<1> USE DEF IInv, TypeOK, Places, Locals, RegisterPlaces, ClosePlaces, HandlerPlaces
<1> SUFFICES ASSUME NEW g \in Handler, at'[g] \in RegisterPlaces
             PROVE  back'[g] # "loop"
  BY DEF Backs
<1>1. CASE at[g] \in RegisterPlaces /\ back'[g] = back[g]
  BY <1>1 DEF Backs
<1>2. ASSUME NEW c \in Channel, Accept(c) \/ ReadChannel(c)  PROVE back'[g] # "loop"
  BY <1>1, <1>2 DEF Accept, ReadChannel
<1>3. CASE Reads
  BY <1>1, <1>3 DEF Reads, GetHandler, putInputBuffer, QueueRead, close, InitSession,
     MapChannel, MapHandler
<1>4. ASSUME NEW r \in Registrar, Registers(r)  PROVE back'[g] # "loop"
  BY <1>1, <1>4 DEF Registers, registerOutputMessage, QueueMessage
<1>5. ASSUME NEW r \in Registrar, closeSession(r)  PROVE back'[g] # "loop"
  BY <1>1, <1>5 DEF closeSession, OnClose, Call, Disconnect, UnmapHandler, UnmapChannel,
     Deallocate
<1>6. ASSUME NEW s \in Session, QueueInvalid(s) \/ DeleteInvalid(s)  PROVE back'[g] # "loop"
  BY <1>1, <1>6 DEF QueueInvalid, DeleteInvalid
<1>7. ASSUME NEW h \in Handler, Takes(h)  PROVE back'[g] # "loop"
  BY <1>1, <1>7 DEF Takes, Poll, isReadable, getInputBuffer, EndRead, isWritable,
     getOutputMessage, write
<1>8. ASSUME NEW h \in Handler, Answer(h) \/ Bye(h)  PROVE back'[g] # "loop"
  BY <1>1, <1>8 DEF Answer, Bye, Call
<1>9. CASE UNCHANGED vars
  BY <1>1, <1>9 DEF vars
<1>10. QED
  BY <1>2, <1>3, <1>4, <1>5, <1>6, <1>7, <1>8, <1>9 DEF Next

LEMMA NextCovered == WInv /\ [Next]_vars => WInv'
<1> SUFFICES ASSUME WInv, [Next]_vars, NEW s \in Session
             PROVE  IsFiniteSet(Entries(s)') /\ OutputsCovered(s)' /\ InputsCovered(s)'
  BY NextOwned, NextBacks DEF WInv
<1> USE DEF WInv, IInv, TypeOK, Places, Locals
<1>1. ASSUME NEW c \in Channel, Accept(c) \/ ReadChannel(c)  PROVE Aside
  BY <1>1 DEF Accept, ReadChannel, Aside
<1>2. CASE Reads
  <2>1. putInputBuffer \/ QueueRead \/ Aside
    BY <1>2 DEF Reads, GetHandler, close, InitSession, MapChannel, MapHandler, Aside
  <2>2. QED
    BY <2>1, putInputBufferCovered, QueueReadCovered, AsideCovered
<1>3. ASSUME NEW r \in Registrar, closeSession(r)  PROVE OnClose(r) \/ Aside
  BY <1>3 DEF closeSession, Disconnect, UnmapHandler, UnmapChannel, Deallocate, Aside
<1>4. ASSUME NEW u \in Session, QueueInvalid(u) \/ DeleteInvalid(u)  PROVE Aside
  BY <1>4 DEF QueueInvalid, DeleteInvalid, Aside
<1>5. ASSUME NEW h \in Handler, EndRead(h) \/ write(h) \/ Answer(h) \/ Bye(h)  PROVE Aside
  BY <1>5 DEF EndRead, write, Answer, Bye, Call, Aside
<1>6. UNCHANGED vars => Aside
  BY DEF vars, Aside
<1>7. QED
  BY <1>1, <1>2, <1>3, <1>4, <1>5, <1>6, AsideCovered, OnCloseCovered, registerCovered,
     QueueMessageCovered, PollCovered, isReadableCovered, getInputBufferCovered,
     isWritableCovered, getOutputMessageCovered DEF Next, Registers, Takes

LEMMA InitCovered == Init => WInv
<1> SUFFICES ASSUME Init, NEW s \in Session
             PROVE  IsFiniteSet(Entries(s)) /\ OutputsCovered(s) /\ InputsCovered(s)
  BY InitOwned DEF WInv, Backs, Init, RegisterPlaces
<1>1. Entries(s) = {}
  BY DEF Init, Entries
<1>2. outputMessageQueue[s] = << >> /\ inputBufferQueue[s] = << >> /\ Len(<< >>) = 0
  BY DEF Init
<1>3. QED
  BY <1>1, <1>2, Counts, FS_EmptySet, NothingToCover DEF OutputsCovered, InputsCovered, Numbers

\* No message and no buffer is ever left in a session without an entry in a queue, or
\* a thread about to add or to use one, whoever registers and whenever the session is
\* closed and given to another connection (registerOutputMessage, SessionHandler.run).
THEOREM NoWorkForgotten == Spec => []WorkCovered
<1>1. WInv => WorkCovered
  <2> SUFFICES ASSUME WInv, NEW s \in Session
               PROVE  /\ Len(outputMessageQueue[s])
                           <= Cardinality(Entries(s)) + Cardinality(Queueing(s))
                                + Cardinality(WillWrite(s))
                      /\ Len(inputBufferQueue[s])
                           <= Cardinality(Entries(s)) + Cardinality(Queueing(s))
                                + Cardinality(WillRead(s))
    BY DEF WorkCovered
  <2>1. QED
    BY DEF WInv, OutputsCovered, InputsCovered, Covers
<1>2. QED
  BY <1>1, InitCovered, NextCovered, PTL DEF Spec
=============================================================================
