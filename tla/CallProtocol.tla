---------------------------- MODULE CallProtocol ----------------------------
(* The clients and the server in one protocol: how a call is set up and ended  *)
(* by messages over each client's connection, while users dial, accept and     *)
(* hang up, connections break and come back, and applications are left, return *)
(* or crash.  A client is two threads, the one of the user interface and the   *)
(* network thread, that share the fields of Session.java without a lock.  An   *)
(* operation of the server is one step here; CallServer has its steps.         *)
EXTENDS Naturals, Sequences

CONSTANTS Client, None,
          MaxActs,        \* bound: what users do, altogether
          MaxLosses       \* bound: connections lost, left or closed, altogether

ASSUME BoundAssumption == MaxActs \in Nat /\ MaxLosses \in Nat

VARIABLES
  state,                  \* client: Session.state
  resumed,                \* client: between onResume and onPause of the activity
  thread,                 \* client: what the network thread is doing
  received,               \* client: the message it is in the middle of
  connections,            \* client: how many connections it has made before
  keys,                   \* client: the keys it has of the server
  outputMessageQueue,     \* client: to be written by the network thread
  handler,                \* client: MainActivity.handler, messages for the UI thread
  screen,                 \* client: what the CallingFragment offers
  at,                     \* client: where the UI thread is
  otherRSACrypto,         \* client: the session whose public key it has
  otherAESCrypto,         \* client: the voice key it encodes with, the other's
  myAESVoiceCrypto,       \* client: the voice key it decodes with, its own
  voiceKeys,              \* client: how many voice keys it has made
  sState,                 \* server: Session.state
  callingSession,         \* server
  sessionList,            \* server: the sessions it serves
  sessionMapByPhoneNumber,\* server: the session that has the number of a client
  up, down,               \* the connection, and the queues before it
  call, sCall,            \* history: the call that a client, a session is in
  overtaken,              \* history: somebody has acted on what was no longer so
  renumbered,             \* history: clients a former session of which got a number
  acts, losses            \* counters for the bounds

cryptos == <<otherRSACrypto, otherAESCrypto, myAESVoiceCrypto, voiceKeys>>
uiVars == <<resumed, handler, screen, at>>
netVars == <<thread, received, connections, keys>>
serverVars == <<sState, callingSession, sessionList, sessionMapByPhoneNumber, sCall,
                renumbered>>
channels == <<up, down>>
vars == <<state, outputMessageQueue, cryptos, uiVars, netVars, serverVars, channels,
          call, overtaken, acts, losses>>

(* Each connection of a client is a session of the server, and the client      *)
(* makes an RSA key for it, so the session stands for the key.  A client keeps *)
(* its number, or gets another one that nobody else has: its name stands for   *)
(* the number that it has now.  After a loss it connects once, or once more if *)
(* the user is leaving the application at that moment.                         *)
MaxConnections == 2 * MaxLosses
Session == Client \X (0..MaxConnections)
Now(c) == <<c, connections[c]>>
Connected(s) == s = Now(s[1]) /\ thread[s[1]] = "connected"

(* A voice key is the client that made it and how many it had made before; a   *)
(* secret is a voice key encoded with the public key of the session "to".      *)
Key == Client \X Nat
Secret == [key : Key, to : Session]

(* The argument is the number that is dialled, or the session whose key it is. *)
(* Messages do not say which call they belong to: the field "call" is history, *)
(* calls are numbered, and 0 is none.                                          *)
Message ==
  [op : {"PUT_PUBLIC_KEY", "PUT_SECRET_KEY", "PUT_CURRENT_VERSION", "VERSION_OK",
         "PUT_PRANKKEY", "GET_NEWPHONENUMBER", "PUT_PHONENUMBER",
         "CALL_TO", "CALL_RESPONSE", "CALL_TO2", "CALLED_FROM", "CALL_ACCEPT",
         "CALL_OFF", "WRONG_NUMBER_ERROR", "DEST_CALLING_ERROR",
         "CALL_ACCEPT_ERROR", "BYE"},
   arg : Client \cup Session \cup {None},
   secret : Secret \cup {None},
   call : Nat]

ASSUME NoneAssumption ==
  None \notin Client /\ None \notin Session /\ None \notin Message /\ None \notin Key

buildOperation(op, arg, secret, id) ==
  [op |-> op, arg |-> arg, secret |-> secret, call |-> id]
Plain(op, id) == buildOperation(op, None, None, id)

(* Everybody is logged in and has read everything.                             *)
Settled ==
  /\ \A c \in Client :
       /\ thread[c] = "connected" /\ received[c] = None /\ at[c] = "idle"
       /\ outputMessageQueue[c] = <<>> /\ handler[c] = <<>>
       /\ up[Now(c)] = <<>> /\ down[Now(c)] = <<>>
  /\ sessionList = {Now(c) : c \in Client}
  /\ sessionMapByPhoneNumber = [c \in Client |-> Now(c)]

Rest ==
  /\ Settled
  /\ \A c \in Client : state[c] = "STARTED" /\ sState[Now(c)] = "STARTED"

(* History: since the last call that was begun at rest, a message of one call  *)
(* was taken for one of another, or a thread assigned the state of a client    *)
(* that was no longer the one it had tested or left behind.                    *)
Overtaken(b) == overtaken' = (overtaken \/ b)

(* Everybody is logged in and at rest.                                         *)
Start ==
  /\ state = [c \in Client |-> "STARTED"]
  /\ resumed = [c \in Client |-> TRUE]
  /\ thread = [c \in Client |-> "connected"]
  /\ received = [c \in Client |-> None]
  /\ connections = [c \in Client |-> 0]
  /\ keys = [c \in Client |-> "AES"]
  /\ outputMessageQueue = [c \in Client |-> <<>>]
  /\ handler = [c \in Client |-> <<>>]
  /\ screen = [c \in Client |-> "list"]
  /\ at = [c \in Client |-> "idle"]
  /\ otherRSACrypto = [c \in Client |-> None]
  /\ otherAESCrypto = [c \in Client |-> None]
  /\ myAESVoiceCrypto = [c \in Client |-> None]
  /\ voiceKeys = [c \in Client |-> 0]
  /\ sState = [s \in Session |-> IF s[2] = 0 THEN "STARTED" ELSE "ENDED"]
  /\ callingSession = [s \in Session |-> None]
  /\ sessionList = {s \in Session : s[2] = 0}
  /\ sessionMapByPhoneNumber = [c \in Client |-> <<c, 0>>]
  /\ up = [s \in Session |-> <<>>]
  /\ down = [s \in Session |-> <<>>]
  /\ call = [c \in Client |-> 0]
  /\ sCall = [s \in Session |-> 0]
  /\ overtaken = FALSE
  /\ renumbered = {}

Init == Start /\ acts = 0 /\ losses = 0

-----------------------------------------------------------------------------
(* Server: what one operation of a session does.                               *)

(* Session.registerOutputMessage: queues of messages, with m added to s's.     *)
registerOutputMessage(queues, s, m) == [queues EXCEPT ![s] = Append(@, m)]
Reject(s, m, error) == down' = registerOutputMessage(down, s, Plain(error, m.call))

Answer == [PUT_PUBLIC_KEY |-> "PUT_PUBLIC_KEY", PUT_SECRET_KEY |-> "PUT_SECRET_KEY",
           PUT_CURRENT_VERSION |-> "VERSION_OK"]

LogIn(s, m) ==
  /\ m.op \in DOMAIN Answer
  /\ down' = registerOutputMessage(down, s, Plain(Answer[m.op], 0))
  /\ UNCHANGED serverVars
  /\ UNCHANGED overtaken

(* Both give the session a number, and make it free for calls, which it may not *)
(* be: getNewPhoneNumber of the client does not test its state.                *)
PutNumber(s, m) ==
  /\ m.op \in {"PUT_PRANKKEY", "GET_NEWPHONENUMBER"}
  /\ down' = registerOutputMessage(down, s, Plain("PUT_PHONENUMBER", 0))
  /\ sessionMapByPhoneNumber' = [sessionMapByPhoneNumber EXCEPT ![s[1]] = s]
  /\ sState' = [sState EXCEPT ![s] = "STARTED"]
  /\ Overtaken(sState[s] = "CALLING")
  /\ renumbered' = IF s = Now(s[1]) THEN renumbered ELSE renumbered \cup {s[1]}
  /\ UNCHANGED <<callingSession, sessionList, sCall>>

CallTo(s, m) ==
  LET dst == IF m.arg = None THEN None ELSE sessionMapByPhoneNumber[m.arg]
      found == dst \notin {None, s}
  IN
  /\ m.op = "CALL_TO"
  /\ \/ /\ ~ found
        /\ Reject(s, m, "WRONG_NUMBER_ERROR")
        /\ UNCHANGED <<callingSession, sCall>>
     \/ /\ found /\ sState[dst] # "STARTED"
        /\ Reject(s, m, "DEST_CALLING_ERROR")
        /\ UNCHANGED <<callingSession, sCall>>
     \/ /\ found /\ sState[dst] = "STARTED"
        /\ down' = registerOutputMessage(down, s,
                     buildOperation("CALL_RESPONSE", dst, None, m.call))
        /\ callingSession' = [callingSession EXCEPT ![s] = dst]
        /\ sCall' = [sCall EXCEPT ![s] = m.call]
  /\ Overtaken(sState[s] = "CALLING")
  /\ UNCHANGED <<sState, sessionList, sessionMapByPhoneNumber, renumbered>>

(* CALL_TO2, with Session.calledFrom of the session that is called.            *)
CallTo2(s, m) ==
  LET dst == callingSession[s] IN
  /\ m.op = "CALL_TO2"
  /\ \/ /\ dst = None
        /\ Reject(s, m, "WRONG_NUMBER_ERROR")
        /\ UNCHANGED <<sState, callingSession, sCall>>
     \/ /\ dst # None /\ sState[dst] # "STARTED"
        /\ Reject(s, m, "DEST_CALLING_ERROR")
        /\ callingSession' = [callingSession EXCEPT ![s] = None]
        /\ UNCHANGED <<sState, sCall>>
     \/ /\ dst # None /\ sState[dst] = "STARTED"
        /\ callingSession' = [callingSession EXCEPT ![dst] = s]
        /\ down' = registerOutputMessage(down, dst,
                     buildOperation("CALLED_FROM", s, m.secret, m.call))
        /\ sState' = [sState EXCEPT ![dst] = "CALLING", ![s] = "CALLING"]
        /\ sCall' = [sCall EXCEPT ![dst] = m.call, ![s] = m.call]
  /\ Overtaken(sState[s] = "CALLING" \/ sCall[s] # m.call)
  /\ UNCHANGED <<sessionList, sessionMapByPhoneNumber, renumbered>>

CallAccept(s, m) ==
  LET dst == callingSession[s] IN
  /\ m.op = "CALL_ACCEPT"
  /\ \/ /\ sState[s] # "CALLING"
        /\ UNCHANGED down
     \/ /\ sState[s] = "CALLING" /\ dst = None
        /\ Reject(s, m, "CALL_ACCEPT_ERROR")
     \/ /\ sState[s] = "CALLING" /\ dst # None
        /\ down' = registerOutputMessage(down, dst,
                     buildOperation("CALL_ACCEPT", None, m.secret, m.call))
  /\ Overtaken(sState[s] = "CALLING" /\ sCall[s] # m.call)
  /\ UNCHANGED serverVars

(* The other party's callOff tells its client.                                 *)
TellNobody(s, queues) == down' = queues

TellOther(s, queues) ==
  down' = IF callingSession[s] = None THEN queues
          ELSE registerOutputMessage(queues, callingSession[s], Plain("CALL_OFF", sCall[s]))

(* The session s leaves its call in the state "after", and the method          *)
(* Session.callOff of the other party, if any, makes it leave too, whatever    *)
(* that one is doing.                                                          *)
Leave(s, after, queues, mistaken) ==
  LET dst == callingSession[s] IN
  /\ sState' = [t \in Session |-> IF t = s THEN after
                                  ELSE IF t = dst THEN "STARTED" ELSE sState[t]]
  /\ callingSession' = [t \in Session |->
                          IF t \in {s, dst} THEN None ELSE callingSession[t]]
  /\ TellOther(s, queues)
  /\ sCall' = [t \in Session |-> IF t \in {s, dst} THEN 0 ELSE sCall[t]]
  /\ Overtaken(mistaken \/ \E t \in Session : t = dst /\ callingSession[t] # s)

CallOff(s, m) ==
  /\ m.op = "CALL_OFF"
  /\ \/ /\ sState[s] # "CALLING"
        /\ UNCHANGED <<sState, callingSession, down, sCall, overtaken>>
     \/ /\ sState[s] = "CALLING"
        /\ Leave(s, "STARTED", down, m.call # sCall[s])
  /\ UNCHANGED <<sessionList, sessionMapByPhoneNumber, renumbered>>

(* The number is removed from the map if the map still has s for it.           *)
KeepNumber(s) == UNCHANGED sessionMapByPhoneNumber

RemoveNumberUntested(s) ==
  sessionMapByPhoneNumber' = [sessionMapByPhoneNumber EXCEPT ![s[1]] = None]

RemoveNumber(s) ==
  sessionMapByPhoneNumber' =
    [c \in Client |-> IF sessionMapByPhoneNumber[c] = s THEN None
                      ELSE sessionMapByPhoneNumber[c]]

(* SessionManager.closeSession and Session.OnClose.  What has not been written *)
(* yet, from some message on, the client will never get.                       *)
closeSession(s) ==
  /\ \E n \in 0..Len(down[s]) :
       Leave(s, "ENDED", [down EXCEPT ![s] = SubSeq(@, 1, n)], FALSE)
  /\ sessionList' = sessionList \ {s}
  /\ RemoveNumber(s)
  /\ UNCHANGED renumbered

Bye(s, m) == m.op = "BYE" /\ closeSession(s)

(* The handler of s runs the next operation that has arrived.                  *)
putOperation(s) ==
  /\ s \in sessionList
  /\ up[s] # <<>>
  /\ LET m == Head(up[s]) IN
     \/ LogIn(s, m)
     \/ PutNumber(s, m)
     \/ CallTo(s, m)
     \/ CallTo2(s, m)
     \/ CallAccept(s, m)
     \/ CallOff(s, m)
     \/ Bye(s, m)
  /\ up' = [up EXCEPT ![s] = Tail(@)]
  /\ UNCHANGED <<state, outputMessageQueue, cryptos, uiVars, netVars, call, acts, losses>>

(* The bound: a connection that is lost can be made again.                     *)
Loss(c) ==
  /\ losses < MaxLosses /\ connections[c] < MaxLosses
  /\ losses' = losses + 1

(* The monitor closes a session whose heart beats do not arrive in time: that   *)
(* of a client that has gone, or of a slow one, which is a loss.               *)
Monitor(s, slow) ==
  /\ s \in sessionList
  /\ slow = Connected(s)
  /\ IF slow THEN Loss(s[1]) ELSE UNCHANGED losses
  /\ closeSession(s)
  /\ UNCHANGED <<state, outputMessageQueue, cryptos, uiVars, netVars, up, call, acts>>

-----------------------------------------------------------------------------
(* Client: the thread of the user interface.                                   *)

Queue(c, m) == outputMessageQueue' = [outputMessageQueue EXCEPT ![c] = Append(@, m)]
Act == acts < MaxActs /\ acts' = acts + 1
Idle(c) == resumed[c] /\ at[c] = "idle"

(* Session.callTo up to its last statement.  Nobody has the number None.  That  *)
(* it refuses for 300 ms after the last message is a user who does not dial.   *)
Dial(c, number) ==
  /\ Idle(c)
  /\ screen[c] = "list"
  /\ state[c] = "STARTED"
  /\ Act
  /\ Queue(c, buildOperation("CALL_TO", number, None, acts + 1))
  /\ at' = [at EXCEPT ![c] = "callTo"]
  /\ call' = [call EXCEPT ![c] = acts + 1]
  /\ overtaken' = (overtaken /\ ~ Rest)
  /\ UNCHANGED <<state, resumed, handler, screen, cryptos, netVars, serverVars, channels,
                 losses>>

getNewPhoneNumber(c) ==
  /\ Idle(c)
  /\ screen[c] = "list"
  /\ Act
  /\ Queue(c, Plain("GET_NEWPHONENUMBER", 0))
  /\ UNCHANGED <<state, cryptos, uiVars, netVars, serverVars, channels, call, overtaken,
                 losses>>

(* The last statement of callTo and of callAccept: a write that nothing        *)
(* protects from what the network thread has done since the first one.         *)
Assign(c) ==
  /\ at[c] \in {"callTo", "callAccept"}
  /\ Overtaken(\/ state[c] # IF at[c] = "callTo" THEN "STARTED" ELSE "RECEIVEDCALL"
               \/ call[c] = 0)
  /\ state' = [state EXCEPT ![c] = IF at[c] = "callTo" THEN "WAITCALL" ELSE "CALLING"]
  /\ at' = [at EXCEPT ![c] = "idle"]
  /\ UNCHANGED <<resumed, handler, screen, outputMessageQueue, cryptos, netVars,
                 serverVars, channels, call, acts, losses>>

NextKey(c) == <<c, voiceKeys[c] + 1>>
NewVoiceKey(c) ==
  /\ myAESVoiceCrypto' = [myAESVoiceCrypto EXCEPT ![c] = NextKey(c)]
  /\ voiceKeys' = [voiceKeys EXCEPT ![c] = @ + 1]
FormerKey(c) == [key |-> <<c, voiceKeys[c]>>, to |-> otherRSACrypto[c]]
EncodedKey(c) == [key |-> NextKey(c), to |-> otherRSACrypto[c]]

(* Session.callAccept up to its last statement, when the CallingFragment is    *)
(* open for an incoming call.                                                  *)
Accept(c) ==
  /\ Idle(c)
  /\ screen[c] = "incoming"
  /\ otherRSACrypto[c] # None
  /\ Act
  /\ NewVoiceKey(c)
  /\ Queue(c, buildOperation("CALL_ACCEPT", None, EncodedKey(c), call[c]))
  /\ screen' = [screen EXCEPT ![c] = "call"]
  /\ at' = [at EXCEPT ![c] = "callAccept"]
  /\ Overtaken(state[c] # "RECEIVEDCALL")
  /\ UNCHANGED <<state, resumed, handler, otherRSACrypto, otherAESCrypto, netVars,
                 serverVars, channels, call, losses>>

(* CallingFragment.destroy, with Session.callOff.                              *)
destroy(c) ==
  /\ screen' = [screen EXCEPT ![c] = "list"]
  /\ Queue(c, Plain("CALL_OFF", call[c]))
  /\ otherAESCrypto' = [otherAESCrypto EXCEPT ![c] = None]
  /\ otherRSACrypto' = [otherRSACrypto EXCEPT ![c] = None]
  /\ state' = [state EXCEPT ![c] = "STARTED"]
  /\ call' = [call EXCEPT ![c] = 0]

HangUp(c) ==
  /\ Idle(c)
  /\ screen[c] # "list"
  /\ Act
  /\ destroy(c)
  /\ UNCHANGED <<resumed, handler, at, myAESVoiceCrypto, voiceKeys, netVars, serverVars,
                 channels, overtaken, losses>>

(* MainActivity.handler.handleMessage.  A call ended by the other party ends   *)
(* here once more: destroy calls callOff.                                      *)
handleMessage(c) ==
  /\ at[c] = "idle"
  /\ handler[c] # <<>>
  /\ handler' = [handler EXCEPT ![c] = Tail(@)]
  /\ \/ /\ Head(handler[c]) = "MSG_CALLOFFED"
        /\ destroy(c)
     \/ /\ Head(handler[c]) # "MSG_CALLOFFED"
        /\ screen' = [screen EXCEPT ![c] =
                        IF Head(handler[c]) = "MSG_CALLEDFROM" THEN "incoming" ELSE "call"]
        /\ UNCHANGED <<state, outputMessageQueue, otherAESCrypto, otherRSACrypto, call>>
  /\ UNCHANGED <<resumed, at, myAESVoiceCrypto, voiceKeys, netVars, serverVars, channels,
                 overtaken, acts, losses>>

(* MainActivity.onPause, in two steps: Session.onPause, and doStop of the       *)
(* network thread.  The user leaves the application while it is not in a call. *)
onPause(c) ==
  /\ Idle(c)
  /\ state[c] # "CALLING"
  /\ Loss(c)
  /\ Queue(c, Plain("BYE", 0))
  /\ state' = [state EXCEPT ![c] = "ENDED"]
  /\ resumed' = [resumed EXCEPT ![c] = FALSE]
  /\ at' = [at EXCEPT ![c] = "onPause"]
  /\ UNCHANGED <<handler, screen, cryptos, netVars, serverVars, channels, call, overtaken,
                 acts>>

doStop(c) ==
  /\ at[c] = "onPause"
  /\ at' = [at EXCEPT ![c] = "idle"]
  /\ thread' = [thread EXCEPT ![c] = IF @ = "connected" THEN "leaving" ELSE @]
  /\ UNCHANGED <<state, resumed, handler, screen, outputMessageQueue, cryptos, received,
                 connections, keys, serverVars, channels, call, overtaken, acts, losses>>

(* MainActivity.onResume, with Session.onResume and SessionManager.doStart,    *)
(* which starts a thread only if the former one has set STATE_STOPPED.         *)
onResume(c) ==
  /\ ~ resumed[c] /\ at[c] = "idle"
  /\ connections[c] < MaxLosses
  /\ resumed' = [resumed EXCEPT ![c] = TRUE]
  /\ state' = [state EXCEPT ![c] = "INITED"]
  /\ thread' = [thread EXCEPT ![c] = IF @ = "stopped" THEN "closed" ELSE @]
  /\ Overtaken(state[c] # "ENDED")
  /\ UNCHANGED <<handler, screen, at, outputMessageQueue, cryptos, received, connections,
                 keys, serverVars, channels, call, acts, losses>>

(* A key is used that is null, because the call it belongs to has ended: by    *)
(* callAccept, or after a CALL_RESPONSE.                                       *)
NullKey(c) ==
  /\ otherRSACrypto[c] = None
  /\ \/ Idle(c) /\ screen[c] = "incoming"
     \/ received[c] # None /\ received[c].op = "CALL_RESPONSE"

(* The application ends by an exception, and onCreate begins from nothing.     *)
Crash(c) ==
  /\ IF NullKey(c) THEN UNCHANGED losses ELSE resumed[c] /\ Loss(c)
  /\ thread' = [thread EXCEPT ![c] = "stopped"]
  /\ received' = [received EXCEPT ![c] = None]
  /\ resumed' = [resumed EXCEPT ![c] = FALSE]
  /\ state' = [state EXCEPT ![c] = "ENDED"]
  /\ outputMessageQueue' = [outputMessageQueue EXCEPT ![c] = <<>>]
  /\ handler' = [handler EXCEPT ![c] = <<>>]
  /\ screen' = [screen EXCEPT ![c] = "list"]
  /\ at' = [at EXCEPT ![c] = "idle"]
  /\ otherRSACrypto' = [otherRSACrypto EXCEPT ![c] = None]
  /\ otherAESCrypto' = [otherAESCrypto EXCEPT ![c] = None]
  /\ myAESVoiceCrypto' = [myAESVoiceCrypto EXCEPT ![c] = None]
  /\ call' = [call EXCEPT ![c] = 0]
  /\ UNCHANGED <<connections, keys, voiceKeys, serverVars, channels, overtaken, acts>>

-----------------------------------------------------------------------------
(* Client: the network thread.                                                 *)

(* The thread is in its loop and has read or written a message completely.     *)
Looping(c) == thread[c] = "connected" /\ received[c] = None

(* SessionManager.write: a message whose key is missing is lost.               *)
write(c) ==
  /\ Looping(c)
  /\ outputMessageQueue[c] # <<>>
  /\ outputMessageQueue' = [outputMessageQueue EXCEPT ![c] = Tail(@)]
  /\ LET m == Head(outputMessageQueue[c])
         encoded == \/ m.op = "PUT_PUBLIC_KEY"
                    \/ m.op = "PUT_SECRET_KEY" /\ keys[c] # "none"
                    \/ keys[c] = "AES"
     IN up' = IF encoded THEN [up EXCEPT ![Now(c)] = Append(@, m)] ELSE up
  /\ UNCHANGED <<state, cryptos, uiVars, netVars, serverVars, down, call, overtaken, acts,
                 losses>>

(* The client's answers while it logs in.                                      *)
Reply == [PUT_PUBLIC_KEY |-> "PUT_SECRET_KEY",
          PUT_SECRET_KEY |-> "PUT_CURRENT_VERSION",
          VERSION_OK |-> "PUT_PRANKKEY"]

LoggedIn(c, m) ==
  /\ m.op \in DOMAIN Reply
  /\ Queue(c, Plain(Reply[m.op], 0))
  /\ keys' = [keys EXCEPT ![c] = CASE m.op = "PUT_PUBLIC_KEY" -> "RSA"
                                   [] m.op = "PUT_SECRET_KEY" -> "AES"
                                   [] OTHER -> @]
  /\ state' = [state EXCEPT ![c] = IF m.op = "VERSION_OK" THEN "STARTED" ELSE @]
  /\ call' = [call EXCEPT ![c] = IF m.op = "VERSION_OK" THEN 0 ELSE @]
  /\ Overtaken(m.op = "VERSION_OK" /\ at[c] \in {"callTo", "callAccept"})
  /\ UNCHANGED <<received, handler, otherRSACrypto, otherAESCrypto>>

(* The messages that begin something: those with a key are in the middle of    *)
(* decoding or encoding it after this step.                                    *)
Expected == [CALLED_FROM |-> "STARTED", CALL_RESPONSE |-> "WAITCALL",
             CALL_ACCEPT |-> "WAITCALL"]

(* History: the client is no longer, or not yet, in the call m belongs to.     *)
Stale(c, m) ==
  \/ state[c] # Expected[m.op]
  \/ m.op # "CALLED_FROM" /\ m.call # call[c]

Begin(c, m) ==
  /\ m.op \in DOMAIN Expected
  /\ state[c] = Expected[m.op]
  /\ m.secret # None => m.secret.to = Now(c)
  /\ received' = [received EXCEPT ![c] = m]
  /\ otherRSACrypto' = [otherRSACrypto EXCEPT ![c] =
                          IF m.op = "CALL_RESPONSE" THEN m.arg ELSE @]
  /\ Overtaken(Stale(c, m))
  /\ UNCHANGED <<outputMessageQueue, keys, state, handler, otherAESCrypto, call>>

Errors == {"WRONG_NUMBER_ERROR", "DEST_CALLING_ERROR", "CALL_ACCEPT_ERROR"}
InCall == {"WAITCALL", "CALLING", "RECEIVEDCALL"}

Ended(c, m) ==
  /\ \/ /\ m.op = "CALL_OFF"
        /\ state[c] \in InCall
        /\ handler' = [handler EXCEPT ![c] = Append(@, "MSG_CALLOFFED")]
        /\ otherRSACrypto' = [otherRSACrypto EXCEPT ![c] = None]
        /\ otherAESCrypto' = [otherAESCrypto EXCEPT ![c] = None]
     \/ /\ m.op \in Errors
        /\ state[c] = "WAITCALL"
        /\ UNCHANGED <<handler, otherRSACrypto, otherAESCrypto>>
  /\ state' = [state EXCEPT ![c] = "STARTED"]
  /\ call' = [call EXCEPT ![c] = 0]
  /\ Overtaken(m.call # call[c])
  /\ UNCHANGED <<received, outputMessageQueue, keys>>

Ignored(c, m) ==
  /\ \/ /\ m.op \in DOMAIN Expected
        /\ \/ state[c] # Expected[m.op]
           \/ m.secret # None /\ m.secret.to # Now(c)
     \/ m.op = "CALL_OFF" /\ state[c] \notin InCall
     \/ m.op \in Errors /\ state[c] # "WAITCALL"
     \/ m.op = "PUT_PHONENUMBER"
  /\ Overtaken(m.op = "CALLED_FROM" \/ (m.call # 0 /\ m.call = call[c]))
  /\ UNCHANGED <<received, outputMessageQueue, keys, state, handler, otherRSACrypto,
                 otherAESCrypto, call>>

(* SessionManager.read and Session.putOperation.                               *)
read(c) ==
  /\ Looping(c)
  /\ down[Now(c)] # <<>>
  /\ down' = [down EXCEPT ![Now(c)] = Tail(@)]
  /\ LET m == Head(down[Now(c)]) IN
     LoggedIn(c, m) \/ Begin(c, m) \/ Ended(c, m) \/ Ignored(c, m)
  /\ UNCHANGED <<myAESVoiceCrypto, voiceKeys, resumed, screen, at, thread, connections,
                 serverVars, up, acts, losses>>

(* The rest of putOperation for a message that Begin has let through, whatever *)
(* the user has done meanwhile.                                                *)
Complete(c) ==
  /\ received[c] # None
  /\ Overtaken(Stale(c, received[c]))
  /\ received' = [received EXCEPT ![c] = None]
  /\ LET m == received[c] IN
     \/ /\ m.op = "CALLED_FROM"
        /\ otherRSACrypto' = [otherRSACrypto EXCEPT ![c] = m.arg]
        /\ otherAESCrypto' = [otherAESCrypto EXCEPT ![c] = m.secret.key]
        /\ handler' = [handler EXCEPT ![c] = Append(@, "MSG_CALLEDFROM")]
        /\ state' = [state EXCEPT ![c] = "RECEIVEDCALL"]
        /\ call' = [call EXCEPT ![c] = m.call]
        /\ UNCHANGED <<outputMessageQueue, myAESVoiceCrypto, voiceKeys>>
     \/ /\ m.op = "CALL_ACCEPT"
        /\ otherAESCrypto' = [otherAESCrypto EXCEPT ![c] = m.secret.key]
        /\ state' = [state EXCEPT ![c] = "CALLING"]
        /\ UNCHANGED <<otherRSACrypto, handler, outputMessageQueue, myAESVoiceCrypto,
                       voiceKeys, call>>
     \/ /\ m.op = "CALL_RESPONSE"
        /\ otherRSACrypto[c] # None
        /\ handler' = [handler EXCEPT ![c] = Append(@, "MSG_CALLRESPONSE")]
        /\ NewVoiceKey(c)
        /\ Queue(c, buildOperation("CALL_TO2", None, EncodedKey(c), m.call))
        /\ UNCHANGED <<otherRSACrypto, otherAESCrypto, state, call>>
  /\ UNCHANGED <<resumed, screen, at, thread, connections, keys, serverVars, channels,
                 acts, losses>>

(* The loop of SessionManager.run ends: the application is left, the server's  *)
(* heart beats have stopped because it has closed the session, or the network  *)
(* is lost.  What is on its way arrives, up to some message.                   *)
Over(c) ==
  \/ thread[c] = "leaving"
  \/ thread[c] = "connected" /\ state[c] = "ENDED" /\ outputMessageQueue[c] = <<>>
  \/ thread[c] = "connected" /\ Now(c) \notin sessionList

close(c, lost) ==
  /\ received[c] = None
  /\ thread[c] \in {"connected", "leaving"}
  /\ lost = ~ Over(c)
  /\ IF lost THEN Loss(c) ELSE UNCHANGED losses
  /\ thread' = [thread EXCEPT ![c] = "closed"]
  /\ \E n \in 0..Len(up[Now(c)]) : up' = [up EXCEPT ![Now(c)] = SubSeq(@, 1, n)]
  /\ UNCHANGED <<state, outputMessageQueue, cryptos, uiVars, received, connections, keys,
                 serverVars, down, call, overtaken, acts>>

(* The outer loop of run: to the end of the thread, or to a new connection,    *)
(* with SessionManager.accept of the server and OnNetworkConnected.            *)
Leaving(c) ==
  /\ \/ /\ thread[c] = "closed" /\ state[c] = "ENDED"
        /\ thread' = [thread EXCEPT ![c] = "ending"]
     \/ /\ thread[c] = "ending"
        /\ thread' = [thread EXCEPT ![c] = "stopped"]
  /\ UNCHANGED <<state, outputMessageQueue, cryptos, uiVars, received, connections, keys,
                 serverVars, channels, call, overtaken, acts, losses>>

OnNetworkConnected(c) ==
  LET s == <<c, connections[c] + 1>> IN
  /\ thread[c] = "closed" /\ state[c] # "ENDED"
  /\ thread' = [thread EXCEPT ![c] = "connected"]
  /\ connections' = [connections EXCEPT ![c] = @ + 1]
  /\ keys' = [keys EXCEPT ![c] = "none"]
  /\ outputMessageQueue' = [outputMessageQueue EXCEPT ![c] = <<Plain("PUT_PUBLIC_KEY", 0)>>]
  /\ otherRSACrypto' = [otherRSACrypto EXCEPT ![c] = None]
  /\ otherAESCrypto' = [otherAESCrypto EXCEPT ![c] = None]
  /\ myAESVoiceCrypto' = [myAESVoiceCrypto EXCEPT ![c] = None]
  /\ sState' = [sState EXCEPT ![s] = "INITED"]
  /\ sessionList' = sessionList \cup {s}
  /\ UNCHANGED <<state, uiVars, received, voiceKeys, callingSession,
                 sessionMapByPhoneNumber, sCall, renumbered, channels, call, overtaken, acts, losses>>

-----------------------------------------------------------------------------
User(c) ==
  \/ \E number \in Client \cup {None} : Dial(c, number)
  \/ getNewPhoneNumber(c)
  \/ Accept(c)
  \/ HangUp(c)
  \/ onPause(c)
  \/ onResume(c)
  \/ Crash(c)
  \/ close(c, TRUE)

Threads(c) ==
  \/ Assign(c)
  \/ doStop(c)
  \/ handleMessage(c)
  \/ write(c)
  \/ read(c)
  \/ Complete(c)
  \/ close(c, FALSE)
  \/ Leaving(c)
  \/ OnNetworkConnected(c)

Next ==
  \/ \E c \in Client : User(c) \/ Threads(c)
  \/ \E s \in Session : putOperation(s) \/ Monitor(s, FALSE) \/ Monitor(s, TRUE)

Spec == Init /\ [][Next]_vars

(* The threads of a client run, the server serves the sessions it has, and its *)
(* monitor finds those whose client has gone.                                  *)
Fairness ==
  /\ \A c \in Client :
       /\ WF_vars(Assign(c)) /\ WF_vars(doStop(c)) /\ WF_vars(handleMessage(c))
       /\ WF_vars(write(c)) /\ WF_vars(read(c)) /\ WF_vars(Complete(c))
       /\ WF_vars(close(c, FALSE)) /\ WF_vars(Leaving(c)) /\ WF_vars(OnNetworkConnected(c))
  /\ \A s \in Session : WF_vars(putOperation(s)) /\ WF_vars(Monitor(s, FALSE))

FairSpec == Spec /\ Fairness

-----------------------------------------------------------------------------
TypeOK ==
  /\ state \in [Client -> {"INITED", "STARTED", "WAITCALL", "CALLING", "RECEIVEDCALL",
                           "ENDED"}]
  /\ resumed \in [Client -> BOOLEAN]
  /\ thread \in [Client -> {"connected", "leaving", "closed", "ending", "stopped"}]
  /\ received \in [Client -> Message \cup {None}]
  /\ connections \in [Client -> 0..MaxConnections]
  /\ keys \in [Client -> {"none", "RSA", "AES"}]
  /\ outputMessageQueue \in [Client -> Seq(Message)]
  /\ handler \in [Client -> Seq({"MSG_CALLEDFROM", "MSG_CALLRESPONSE", "MSG_CALLOFFED"})]
  /\ screen \in [Client -> {"list", "incoming", "call"}]
  /\ at \in [Client -> {"idle", "callTo", "callAccept", "onPause"}]
  /\ otherRSACrypto \in [Client -> Session \cup {None}]
  /\ otherAESCrypto \in [Client -> Key \cup {None}]
  /\ myAESVoiceCrypto \in [Client -> Key \cup {None}]
  /\ voiceKeys \in [Client -> Nat]
  /\ sState \in [Session -> {"INITED", "STARTED", "CALLING", "ENDED"}]
  /\ callingSession \in [Session -> Session \cup {None}]
  /\ sessionList \subseteq Session
  /\ sessionMapByPhoneNumber \in [Client -> sessionList \cup {None}]
  /\ up \in [Session -> Seq(Message)]
  /\ down \in [Session -> Seq(Message)]
  /\ call \in [Client -> Nat]
  /\ sCall \in [Session -> Nat]
  /\ overtaken \in BOOLEAN
  /\ renumbered \subseteq Client
  /\ acts \in 0..MaxActs
  /\ losses \in 0..MaxLosses

(* The server has put c and d in a call with each other.                       *)
Mutual(c, d) ==
  /\ sState[Now(c)] = "CALLING" /\ callingSession[Now(c)] = Now(d)
  /\ sState[Now(d)] = "CALLING" /\ callingSession[Now(d)] = Now(c)

(* Client and server agree.  Once everything that was sent has been read, and  *)
(* if none of the races that "overtaken" records has happened, who talks, rings *)
(* or is rung is in a call, for the server too, with one client, which is in   *)
(* the matching state; and whoever is free is free for the server.  The two    *)
(* clients and the server go through a call on their own threads, with no      *)
(* message that names it.                                                      *)
Counterpart == [CALLING |-> "CALLING", WAITCALL |-> "RECEIVEDCALL",
                RECEIVEDCALL |-> "WAITCALL"]

PartiesAgree ==
  Settled /\ ~ overtaken =>
    \A c \in Client :
      /\ state[c] \in InCall =>
           \E d \in Client : Mutual(c, d) /\ state[d] = Counterpart[state[c]]
      /\ state[c] = "STARTED" => sState[Now(c)] # "CALLING"

(* Two clients that talk decode with the key that the other encodes with: the  *)
(* caller's has gone with CALL_TO2 and CALLED_FROM, that of the called with    *)
(* CALL_ACCEPT, each encoded for a connection that may have been replaced.     *)
KeysAgree ==
  Settled /\ ~ overtaken =>
    \A c, d \in Client :
      Mutual(c, d) /\ state[c] = "CALLING" =>
        otherAESCrypto[c] # None /\ otherAESCrypto[c] = myAESVoiceCrypto[d]

(* In the end every client whose network thread runs is connected, and the     *)
(* server finds that connection under its number (SessionManager.run, through  *)
(* the handshake and the login): the session of a connection that was lost is  *)
(* closed at any time, also after the new one has taken its number.  Except a  *)
(* client whose request for another number was still on its way when it lost   *)
(* the connection and logged in again: the server takes the number away from   *)
(* the new session and gives one to the former.                                *)
Reachable ==
  \A c \in Client :
    <>[](\/ thread[c] = "stopped"
         \/ Connected(Now(c)) /\ sessionMapByPhoneNumber[c] = Now(c)
         \/ c \in renumbered)

(* Nobody stays in a call with a client that has gone: the monitor closes its  *)
(* session, and OnClose makes the other session, and through it the other      *)
(* client, leave the call.                                                     *)
CallEnds ==
  \A c \in Client : \A s \in Session :
    (/\ state[c] \in InCall /\ s \in sessionList /\ ~ Connected(s)
     /\ callingSession[s] = Now(c) /\ callingSession[Now(c)] = s)
      ~> (state[c] \notin InCall)
=============================================================================
