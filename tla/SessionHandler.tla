--------------------------- MODULE SessionHandler ---------------------------
(***************************************************************************)
(* How packets and messages pass through the server.  The SessionManager   *)
(* thread reads a channel and queues the buffer at the session and the     *)
(* session at its SessionHandler; the handler takes a session from its     *)
(* queue, runs the operations in one buffer and writes one message.  An    *)
(* operation registers messages at its own session or at another one,      *)
(* whose handler may be another thread.  Sessions are closed by the        *)
(* ConnectionMonitor, or by their handler (BYE), and given to the next     *)
(* connection with what is left in their queues and in the handlers'.      *)
(*                                                                         *)
(* A step is one access to an object that threads share.  What a message   *)
(* says is left out: it is a number, in the order of registration.         *)
(***************************************************************************)
EXTENDS Naturals, Sequences, FiniteSets

CONSTANTS Session,   \* the Session objects of the SessionPool
          Handler,   \* the SessionHandler threads
          Monitor,   \* the ConnectionMonitor thread
          Reader,    \* the SessionManager thread, which accepts and reads
          Channel,   \* the SocketChannels that clients open
          None       \* Java's null

ASSUME ThreadAssumption ==
  Monitor \notin Handler /\ Reader \notin Handler \cup {Monitor}

\* The SessionManager starts a fixed number of handlers.
ASSUME HandlerAssumption == IsFiniteSet(Handler)

ASSUME NoneAssumption == None \notin Session \cup Handler \cup Channel

VARIABLES
  free,                       \* the sessions in SessionPool.sessionQueue
  open, closed,               \* the channels accepted so far; those closed
  socketChannel,              \* Session.socketChannel
  sessionHandler,             \* Session.sessionHandler
  sessionMapBySocketChannel,  \* SessionManager's maps
  sessionHandlerMapBySession,
  inputBufferQueue,           \* Session.inputBufferQueue: where each was read
  outputMessageQueue,         \* Session.outputMessageQueue
  sessionQueue,               \* SessionHandler.sessionQueue
  invalid,                    \* the sessions in invalidSessionQueue
  at,                         \* the place each thread is at
  session,                    \* the session each thread works on
  target,                     \* the session a message is registered at
  back,                       \* where the thread goes on after that
  message,                    \* the message a handler has taken
  channel,                    \* the reader's socketChannel
  readHandler,                \* the reader's sessionHandler
  registered,                 \* how many messages were registered
  written,                    \* the messages written to each channel
  handlersOf                  \* the handlers a session has ever had

poolVars == <<free, open, closed, socketChannel, sessionHandler,
              sessionMapBySocketChannel, sessionHandlerMapBySession, handlersOf>>
workVars == <<inputBufferQueue, outputMessageQueue, sessionQueue, registered>>
readVars == <<channel, readHandler>>
goVars   == <<target, back>>
outVars  == <<message, written>>
vars == <<poolVars, workVars, readVars, goVars, outVars, invalid, at, session>>

Registrar == Handler \cup {Monitor}     \* the threads that run operations
Thread    == Registrar \cup {Reader}

Goto(t, place) == at' = [at EXCEPT ![t] = place]

Init ==
  /\ free = Session
  /\ open = {} /\ closed = {}
  /\ socketChannel = [s \in Session |-> None]
  /\ sessionHandler = [s \in Session |-> None]
  /\ sessionMapBySocketChannel = [c \in Channel |-> None]
  /\ sessionHandlerMapBySession = [s \in Session |-> None]
  /\ inputBufferQueue = [s \in Session |-> << >>]
  /\ outputMessageQueue = [s \in Session |-> << >>]
  /\ sessionQueue = [h \in Handler |-> << >>]
  /\ invalid = {}
  /\ at = [t \in Thread |-> "loop"]
  /\ session = [t \in Thread |-> None]
  /\ target = [r \in Registrar |-> None]
  /\ back = [r \in Registrar |-> "loop"]
  /\ message = [h \in Handler |-> 0]
  /\ channel = None /\ readHandler = None
  /\ registered = 0
  /\ written = [c \in Channel |-> << >>]
  /\ handlersOf = [s \in Session |-> {}]

(***************************************************************************)
(* The SessionManager thread accepts.                                      *)
(***************************************************************************)
\* allocate takes a session from the pool, or the channel is closed.
Accept(c) ==
  /\ at[Reader] = "loop"
  /\ c \notin open
  /\ open' = open \cup {c}
  /\ \/ /\ free = {}
        /\ closed' = closed \cup {c}
        /\ UNCHANGED <<free, at, session, channel>>
     \/ \E s \in free :
          /\ free' = free \ {s}
          /\ session' = [session EXCEPT ![Reader] = s]
          /\ channel' = c
          /\ Goto(Reader, "init")
          /\ UNCHANGED closed
  /\ UNCHANGED <<socketChannel, sessionHandler, sessionMapBySocketChannel,
                 sessionHandlerMapBySession, handlersOf, workVars,
                 readHandler, goVars, outVars, invalid>>

\* A random handler; Session.init touches neither of the session's queues.
InitSession(h) ==
  /\ at[Reader] = "init"
  /\ LET s == session[Reader] IN
       /\ socketChannel' = [socketChannel EXCEPT ![s] = channel]
       /\ sessionHandler' = [sessionHandler EXCEPT ![s] = h]
       /\ handlersOf' = [handlersOf EXCEPT ![s] = @ \cup {h}]
  /\ Goto(Reader, "mapChannel")
  /\ UNCHANGED <<free, open, closed, sessionMapBySocketChannel,
                 sessionHandlerMapBySession, workVars, readVars, goVars,
                 outVars, invalid, session>>

MapChannel ==
  /\ at[Reader] = "mapChannel"
  /\ sessionMapBySocketChannel' =
       [sessionMapBySocketChannel EXCEPT ![channel] = session[Reader]]
  /\ Goto(Reader, "mapHandler")
  /\ UNCHANGED <<free, open, closed, socketChannel, sessionHandler, handlersOf,
                 sessionHandlerMapBySession, workVars, readVars, goVars,
                 outVars, invalid, session>>

\* accept puts its own sessionHandler, the one init has just stored: only this
\* thread ever stores one.
MapHandler ==
  /\ at[Reader] = "mapHandler"
  /\ LET s == session[Reader] IN
       sessionHandlerMapBySession' =
         [sessionHandlerMapBySession EXCEPT ![s] = sessionHandler[s]]
  /\ Goto(Reader, "loop")
  /\ UNCHANGED <<free, open, closed, socketChannel, sessionHandler, handlersOf,
                 sessionMapBySocketChannel, workVars, readVars, goVars,
                 outVars, invalid, session>>

(***************************************************************************)
(* The SessionManager thread reads.  A read that brings nothing only adds  *)
(* to the error count, for which the monitor closes a session in its list. *)
(***************************************************************************)
ReadChannel(c) ==
  /\ at[Reader] = "loop"
  /\ c \in open \ closed
  /\ channel' = c
  /\ session' = [session EXCEPT ![Reader] = sessionMapBySocketChannel[c]]
  /\ Goto(Reader, IF sessionMapBySocketChannel[c] = None
                    THEN "close" ELSE "getHandler")
  /\ UNCHANGED <<poolVars, workVars, readHandler, goVars, outVars, invalid>>

GetHandler ==
  /\ at[Reader] = "getHandler"
  /\ readHandler' = sessionHandlerMapBySession[session[Reader]]
  /\ Goto(Reader, IF readHandler' = None THEN "close" ELSE "putInputBuffer")
  /\ UNCHANGED <<poolVars, workVars, channel, goVars, outVars, invalid, session>>

\* A mistaken form: the session is queued for the first buffer only.
PutOnce ==
  /\ at[Reader] = "putInputBuffer"
  /\ inputBufferQueue' =
       [inputBufferQueue EXCEPT ![session[Reader]] = Append(@, channel)]
  /\ Goto(Reader, IF inputBufferQueue[session[Reader]] = << >> THEN "queue" ELSE "loop")
  /\ UNCHANGED <<poolVars, outputMessageQueue, sessionQueue, registered,
                 readVars, goVars, outVars, invalid, session>>

putInputBuffer ==
  /\ at[Reader] = "putInputBuffer"
  /\ inputBufferQueue' =
       [inputBufferQueue EXCEPT ![session[Reader]] = Append(@, channel)]
  /\ Goto(Reader, "queue")
  /\ UNCHANGED <<poolVars, outputMessageQueue, sessionQueue, registered,
                 readVars, goVars, outVars, invalid, session>>

QueueRead ==
  /\ at[Reader] = "queue"
  /\ sessionQueue' =
       [sessionQueue EXCEPT ![readHandler] = Append(@, session[Reader])]
  /\ Goto(Reader, "loop")
  /\ UNCHANGED <<poolVars, inputBufferQueue, outputMessageQueue, registered,
                 readVars, goVars, outVars, invalid, session>>

\* close looks the session up again: the monitor is to close it, or else the
\* channel is closed here.
close ==
  /\ at[Reader] = "close"
  /\ LET s == sessionMapBySocketChannel[channel] IN
       IF s = None THEN closed' = closed \cup {channel} /\ UNCHANGED invalid
                   ELSE invalid' = invalid \cup {s} /\ UNCHANGED closed
  /\ Goto(Reader, "loop")
  /\ UNCHANGED <<free, open, socketChannel, sessionHandler, handlersOf,
                 sessionMapBySocketChannel, sessionHandlerMapBySession,
                 workVars, readVars, goVars, outVars, session>>

(***************************************************************************)
(* registerOutputMessage: offer the message, then queue the session at the *)
(* handler it has now.                                                     *)
(***************************************************************************)
registerOutputMessage(r) ==
  /\ at[r] = "offer"
  /\ registered' = registered + 1
  /\ outputMessageQueue' =
       [outputMessageQueue EXCEPT ![target[r]] = Append(@, registered')]
  /\ Goto(r, "queue")
  /\ UNCHANGED <<poolVars, inputBufferQueue, sessionQueue, readVars, goVars,
                 outVars, invalid, session>>

\* A mistaken form: an entry that waits already is taken to be enough.
QueueOnce(r) ==
  /\ at[r] = "queue"
  /\ LET h == sessionHandler[target[r]] IN
       sessionQueue' =
         [sessionQueue EXCEPT ![h] =
            IF \E i \in DOMAIN @ : @[i] = target[r] THEN @ ELSE Append(@, target[r])]
  /\ Goto(r, back[r])
  /\ UNCHANGED <<poolVars, inputBufferQueue, outputMessageQueue, registered,
                 readVars, goVars, outVars, invalid, session>>

\* A mistaken form: any handler may be given the session.
QueueAnywhere(r) ==
  /\ at[r] = "queue"
  /\ \E h \in Handler :
       sessionQueue' = [sessionQueue EXCEPT ![h] = Append(@, target[r])]
  /\ Goto(r, back[r])
  /\ UNCHANGED <<poolVars, inputBufferQueue, outputMessageQueue, registered,
                 readVars, goVars, outVars, invalid, session>>

QueueMessage(r) ==
  /\ at[r] = "queue"
  /\ sessionQueue' =
       [sessionQueue EXCEPT ![sessionHandler[target[r]]] = Append(@, target[r])]
  /\ Goto(r, back[r])
  /\ UNCHANGED <<poolVars, inputBufferQueue, outputMessageQueue, registered,
                 readVars, goVars, outVars, invalid, session>>

\* Any session that ever had a connection may be the target: it is looked up by
\* phone number, or it is a callingSession, which init never resets.
Call(r, s, place) ==
  /\ sessionHandler[s] # None
  /\ target' = [target EXCEPT ![r] = s]
  /\ back' = [back EXCEPT ![r] = place]
  /\ Goto(r, "offer")

(***************************************************************************)
(* closeSession, by the monitor or by a handler.                           *)
(***************************************************************************)
\* A mistaken form: the queue is given up instead of emptied.
OnCloseNulls(r) ==
  /\ at[r] = "OnClose"
  /\ inputBufferQueue' = [inputBufferQueue EXCEPT ![session[r]] = None]
  /\ Goto(r, "disconnect")
  /\ UNCHANGED <<poolVars, outputMessageQueue, sessionQueue, registered,
                 readVars, goVars, outVars, invalid, session>>

\* OnClose empties the queue of inputs only, and calls off the peer of a call.
OnClose(r) ==
  /\ at[r] = "OnClose"
  /\ inputBufferQueue' = [inputBufferQueue EXCEPT ![session[r]] = << >>]
  /\ \/ \E s \in Session \ {session[r]} : Call(r, s, "disconnect")
     \/ Goto(r, "disconnect") /\ UNCHANGED goVars
  /\ UNCHANGED <<poolVars, outputMessageQueue, sessionQueue, registered,
                 readVars, outVars, invalid, session>>

Disconnect(r) ==
  /\ at[r] = "disconnect"
  /\ closed' = closed \cup {socketChannel[session[r]]}
  /\ Goto(r, "unmapHandler")
  /\ UNCHANGED <<free, open, socketChannel, sessionHandler, handlersOf,
                 sessionMapBySocketChannel, sessionHandlerMapBySession,
                 workVars, readVars, goVars, outVars, invalid, session>>

UnmapHandler(r) ==
  /\ at[r] = "unmapHandler"
  /\ sessionHandlerMapBySession' =
       [sessionHandlerMapBySession EXCEPT ![session[r]] = None]
  /\ Goto(r, "unmapChannel")
  /\ UNCHANGED <<free, open, closed, socketChannel, sessionHandler, handlersOf,
                 sessionMapBySocketChannel, workVars, readVars, goVars,
                 outVars, invalid, session>>

UnmapChannel(r) ==
  /\ at[r] = "unmapChannel"
  /\ sessionMapBySocketChannel' =
       [sessionMapBySocketChannel EXCEPT ![socketChannel[session[r]]] = None]
  /\ Goto(r, "deallocate")
  /\ UNCHANGED <<free, open, closed, socketChannel, sessionHandler, handlersOf,
                 sessionHandlerMapBySession, workVars, readVars, goVars,
                 outVars, invalid, session>>

\* SessionPool.deallocate refuses a session that is in the pool already.
Deallocate(r) ==
  /\ at[r] = "deallocate"
  /\ free' = free \cup {session[r]}
  /\ Goto(r, IF r = Monitor THEN "loop" ELSE "operations")
  /\ UNCHANGED <<open, closed, socketChannel, sessionHandler, handlersOf,
                 sessionMapBySocketChannel, sessionHandlerMapBySession,
                 workVars, readVars, goVars, outVars, invalid, session>>

closeSession(r) == OnClose(r) \/ Disconnect(r) \/ UnmapHandler(r)
                     \/ UnmapChannel(r) \/ Deallocate(r)

(***************************************************************************)
(* The monitor queues sessions whose time is up, or that made errors, and  *)
(* closes those in the queue.                                              *)
(***************************************************************************)
QueueInvalid(s) ==
  /\ at[Monitor] = "loop"
  /\ sessionHandlerMapBySession[s] # None
  /\ invalid' = invalid \cup {s}
  /\ UNCHANGED <<poolVars, workVars, readVars, goVars, outVars, at, session>>

DeleteInvalid(s) ==
  /\ at[Monitor] = "loop"
  /\ s \in invalid
  /\ invalid' = invalid \ {s}
  /\ session' = [session EXCEPT ![Monitor] = s]
  /\ Goto(Monitor, "OnClose")
  /\ UNCHANGED <<poolVars, workVars, readVars, goVars, outVars>>

(***************************************************************************)
(* A handler's loop.  It waits at most a second when its queue is empty,   *)
(* and polls whether it was notified or not.                               *)
(***************************************************************************)
Poll(h) ==
  /\ at[h] = "loop"
  /\ sessionQueue[h] # << >>
  /\ session' = [session EXCEPT ![h] = Head(sessionQueue[h])]
  /\ sessionQueue' = [sessionQueue EXCEPT ![h] = Tail(@)]
  /\ Goto(h, "isReadable")
  /\ UNCHANGED <<poolVars, inputBufferQueue, outputMessageQueue, registered,
                 readVars, goVars, outVars, invalid>>

isReadable(h) ==
  /\ at[h] = "isReadable"
  /\ Goto(h, IF inputBufferQueue[session[h]] = << >>
               THEN "isWritable" ELSE "getInputBuffer")
  /\ UNCHANGED <<poolVars, workVars, readVars, goVars, outVars, invalid, session>>

\* The buffer is gone if the session was closed meanwhile.
getInputBuffer(h) ==
  /\ at[h] = "getInputBuffer"
  /\ LET inputs == inputBufferQueue[session[h]] IN
       IF inputs = << >>
         THEN Goto(h, "isWritable") /\ UNCHANGED inputBufferQueue
         ELSE /\ inputBufferQueue' =
                   [inputBufferQueue EXCEPT ![session[h]] = Tail(@)]
              /\ Goto(h, "operations")
  /\ UNCHANGED <<poolVars, outputMessageQueue, sessionQueue, registered,
                 readVars, goVars, outVars, invalid, session>>

\* One operation of the buffer registers a message, at this session or another.
Answer(h) ==
  /\ at[h] = "operations"
  /\ \E s \in Session : Call(h, s, "operations")
  /\ UNCHANGED <<poolVars, workVars, readVars, outVars, invalid, session>>

\* BYE closes the session; the handler then goes on with it.
Bye(h) ==
  /\ at[h] = "operations"
  /\ Goto(h, "OnClose")
  /\ UNCHANGED <<poolVars, workVars, readVars, goVars, outVars, invalid, session>>

\* No packet is left in the buffer, or one cannot be decoded.
EndRead(h) ==
  /\ at[h] = "operations"
  /\ Goto(h, "isWritable")
  /\ UNCHANGED <<poolVars, workVars, readVars, goVars, outVars, invalid, session>>

\* A mistaken form: the output is taken without looking whether there is one.
NoIsWritable(h) ==
  /\ at[h] = "isWritable"
  /\ Goto(h, "getOutputMessage")
  /\ UNCHANGED <<poolVars, workVars, readVars, goVars, outVars, invalid, session>>

isWritable(h) ==
  /\ at[h] = "isWritable"
  /\ Goto(h, IF outputMessageQueue[session[h]] = << >>
               THEN "loop" ELSE "getOutputMessage")
  /\ UNCHANGED <<poolVars, workVars, readVars, goVars, outVars, invalid, session>>

\* A mistaken form: the message registered last is taken first.
TakesLast(h) ==
  /\ at[h] = "getOutputMessage"
  /\ LET outputs == outputMessageQueue[session[h]]
         n == Len(outputs) IN
       IF outputs = << >>
         THEN Goto(h, "dead") /\ UNCHANGED <<outputMessageQueue, message>>
         ELSE /\ message' = [message EXCEPT ![h] = outputs[n]]
              /\ outputMessageQueue' =
                   [outputMessageQueue EXCEPT ![session[h]] = SubSeq(@, 1, n - 1)]
              /\ Goto(h, "write")
  /\ UNCHANGED <<poolVars, inputBufferQueue, sessionQueue, registered,
                 readVars, goVars, written, invalid, session>>

\* On a null, startsWith throws and the thread is over.
getOutputMessage(h) ==
  /\ at[h] = "getOutputMessage"
  /\ LET outputs == outputMessageQueue[session[h]] IN
       IF outputs = << >>
         THEN Goto(h, "dead") /\ UNCHANGED <<outputMessageQueue, message>>
         ELSE /\ message' = [message EXCEPT ![h] = Head(outputs)]
              /\ outputMessageQueue' =
                   [outputMessageQueue EXCEPT ![session[h]] = Tail(@)]
              /\ Goto(h, "write")
  /\ UNCHANGED <<poolVars, inputBufferQueue, sessionQueue, registered,
                 readVars, goVars, written, invalid, session>>

\* The message goes to the channel the session has now.  It is dropped without
\* the client's key or when it cannot be encrypted; a failing write makes the
\* session invalid.
write(h) ==
  /\ at[h] = "write"
  /\ LET c == socketChannel[session[h]] IN
       \/ /\ c \notin closed
          /\ written' = [written EXCEPT ![c] = Append(@, message[h])]
          /\ UNCHANGED invalid
       \/ /\ invalid' = invalid \cup {session[h]}
          /\ UNCHANGED written
       \/ UNCHANGED <<written, invalid>>
  /\ Goto(h, "loop")
  /\ UNCHANGED <<poolVars, workVars, readVars, goVars, message, session>>

Takes(h) == Poll(h) \/ isReadable(h) \/ getInputBuffer(h) \/ EndRead(h)
              \/ isWritable(h) \/ getOutputMessage(h) \/ write(h)

Reads == GetHandler \/ putInputBuffer \/ QueueRead \/ close
           \/ (\E h \in Handler : InitSession(h)) \/ MapChannel \/ MapHandler

Registers(r) == registerOutputMessage(r) \/ QueueMessage(r)

Next ==
  \/ \E c \in Channel : Accept(c) \/ ReadChannel(c)
  \/ Reads
  \/ \E r \in Registrar : Registers(r) \/ closeSession(r)
  \/ \E s \in Session : QueueInvalid(s) \/ DeleteInvalid(s)
  \/ \E h \in Handler : Takes(h) \/ Answer(h) \/ Bye(h)

Spec == Init /\ [][Next]_vars

(***************************************************************************)
(* Properties.                                                             *)
(***************************************************************************)
HandlerPlaces == {"loop", "isReadable", "getInputBuffer", "operations",
                  "isWritable", "getOutputMessage", "write", "dead"}
RegisterPlaces == {"offer", "queue"}
ClosePlaces == {"OnClose", "disconnect", "unmapHandler", "unmapChannel", "deallocate"}
ReaderPlaces == {"loop", "init", "mapChannel", "mapHandler", "getHandler",
                 "putInputBuffer", "queue", "close"}

\* Each thread is at a place of its own code.
Places ==
  /\ at \in [Thread -> HandlerPlaces \cup RegisterPlaces \cup ClosePlaces \cup ReaderPlaces]
  /\ \A h \in Handler : at[h] \in HandlerPlaces \cup RegisterPlaces \cup ClosePlaces
  /\ at[Monitor] \in {"loop"} \cup RegisterPlaces \cup ClosePlaces
  /\ at[Reader] \in ReaderPlaces

Locals ==
  /\ session \in [Thread -> Session \cup {None}]
  /\ target \in [Registrar -> Session \cup {None}]
  /\ back \in [Registrar -> {"loop", "operations", "disconnect"}]
  /\ message \in [Handler -> Nat]
  /\ channel \in Channel \cup {None}
  /\ readHandler \in Handler \cup {None}

Queues ==
  /\ inputBufferQueue \in [Session -> Seq(Channel)]
  /\ outputMessageQueue \in [Session -> Seq(Nat)]
  /\ sessionQueue \in [Handler -> Seq(Session)]
  /\ registered \in Nat
  /\ written \in [Channel -> Seq(Nat)]

Pool ==
  /\ free \subseteq Session /\ invalid \subseteq Session
  /\ open \subseteq Channel /\ closed \subseteq Channel
  /\ socketChannel \in [Session -> Channel \cup {None}]
  /\ sessionHandler \in [Session -> Handler \cup {None}]
  /\ sessionMapBySocketChannel \in [Channel -> Session \cup {None}]
  /\ sessionHandlerMapBySession \in [Session -> Handler \cup {None}]
  /\ handlersOf \in [Session -> SUBSET Handler]

\* The type invariant: the session pool, the maps and the queues hold what they
\* are declared to hold, and no thread strays into another's code.
TypeOK == Pool /\ Queues /\ Locals /\ Places

\* The entries that name the session in the handlers' queues.
Entries(s) ==
  {e \in UNION {{h} \X DOMAIN sessionQueue[h] : h \in Handler} :
     sessionQueue[e[1]][e[2]] = s}

\* The threads that are about to add an entry for the session.
Queueing(s) ==
  {r \in Registrar : at[r] = "queue" /\ target[r] = s}
    \cup {t \in {Reader} : at[t] = "queue" /\ session[t] = s}

\* The handlers that have taken an entry and not yet looked for an output, or
\* for an input.
WillWrite(s) ==
  {h \in Handler : session[h] = s /\ at[h] \notin {"loop", "write", "dead"}}
WillRead(s) ==
  {h \in Handler : session[h] = s /\ at[h] \in {"isReadable", "getInputBuffer"}}

\* The entries of a session, with those in hand, are at least as many as its
\* messages and as its buffers, whoever registers and whenever it is closed and
\* reused: one entry serves one of each (SessionHandler.run), and nothing else
\* would ever look at the session again.
WorkCovered ==
  \A s \in Session :
    LET queued == Cardinality(Entries(s)) + Cardinality(Queueing(s)) IN
      /\ Len(outputMessageQueue[s]) <= queued + Cardinality(WillWrite(s))
      /\ Len(inputBufferQueue[s]) <= queued + Cardinality(WillRead(s))

\* The session has had no other handler than h.
Alone(s, h) == handlersOf[s] = {h}

\* write does not test the message it takes: the handler dies of a null only if
\* the session was reused with another handler (isWritable, getOutputMessage).
DiesOfSharing ==
  \A h \in Handler : at[h] = "dead" => ~Alone(session[h], h)

Using == (HandlerPlaces \ {"loop", "dead"}) \cup RegisterPlaces \cup ClosePlaces

\* Session's operations and its PacketTokenizer are written for one thread: two
\* handlers work on the same session only if it was reused with another handler.
SessionConfined ==
  \A h, g \in Handler :
    (h # g /\ at[h] \in Using /\ at[g] \in Using /\ session[h] = session[g])
      => ~Alone(session[h], h)

Ascending(ns) == \A i, j \in DOMAIN ns : i < j => ns[i] < ns[j]

\* The channel's client gets messages in the order in which they were
\* registered, by whatever threads, as long as the session had one handler.
WrittenInOrder ==
  \A s \in Session : (\E h \in Handler : Alone(s, h)) =>
    (socketChannel[s] # None => Ascending(written[socketChannel[s]]))
=============================================================================
