-------------------------- MODULE ConnectionMonitor --------------------------
(***************************************************************************)
(* Who is connected, and for how long: the addresses that may open voice   *)
(* channels, the errors of each session, the heart beats, and the monitor  *)
(* that closes who is late, invalid or makes errors.  The accepting        *)
(* thread, the handlers and the monitor share the maps; a map's lock is    *)
(* held for one statement, except that the monitor keeps the one of        *)
(* errorCountMap while it closes sessions.                                 *)
(*                                                                         *)
(* Clocks count from an event, and the server's stop when they have passed *)
(* what they are compared with; Tick lets time pass for all of them.       *)
(***************************************************************************)
EXTENDS Naturals, Sequences

CONSTANTS Session, Handler, Monitor, Reader, Address, None,
          HEART_BEAT_TIME_OUT, HEART_BEAT_PERIOD, SESSION_START_TIME,
          ERROR_COUNT_MAXIMUM,  \* without its sign: errors are counted downwards there
          Errors,               \* what an error may count
          LOOP,                 \* how late a client's loop tests its clock
          DELAY                 \* how long a beat or its answer takes, with its handling

Thread == Handler \cup {Monitor, Reader}

ASSUME ThreadAssumption ==
  Monitor \notin Handler /\ Reader \notin Handler /\ Monitor # Reader
ASSUME NoneAssumption == None \notin Session \cup Address \cup Handler \cup Nat
ASSUME ErrorAssumption == ERROR_COUNT_MAXIMUM \in Nat /\ Errors \subseteq Nat \ {0}

\* Both sides wait long enough for a beat, its way and that of its answer.
ASSUME TimeAssumption ==
  /\ HEART_BEAT_TIME_OUT \in Nat /\ HEART_BEAT_PERIOD \in Nat /\ SESSION_START_TIME \in Nat
  /\ LOOP \in Nat \ {0} /\ DELAY \in Nat
  /\ HEART_BEAT_PERIOD + LOOP + 2 * DELAY <= HEART_BEAT_TIME_OUT

VARIABLES
  inUse,                \* sessions out of the pool
  sessionList,          \* how often SessionManager.sessionList holds a session
  state, ipLong,        \* Session
  sessionHandler,       \* Session
  connectedIPMap,       \* how often the list of each address holds a session
  errorCountMap,        \* the errors of each session, None if it is not in the map
  errorLock,            \* whether the monitor holds the lock of errorCountMap
  invalidSessionQueue,
  unseen,               \* sessions that the monitor has not looked at in this loop
  at,                   \* where each thread is
  session,              \* the session it works on
  addCount,             \* the argument of addErrorCount
  \* clocks
  connectTime,          \* since Session.connectTime
  lastHeartBeatTime,    \* since Session.lastHeartBeatTime
  heard,                \* since the client's lastHeartBeatTime
  beat, sent,           \* the heart beat on its way, and since when
  \* the environment
  alive,                \* sessions whose client is connected and runs
  address,              \* the address that a session was accepted from
  \* history
  made,                 \* the errors counted for a connection
  crossed               \* sessions of which a closing overlapped with the next acceptance

sessionVars == <<inUse, sessionList, state, ipLong, sessionHandler, address>>
maps == <<connectedIPMap, errorCountMap, errorLock, made>>
monitorVars == <<invalidSessionQueue, unseen>>
threadVars == <<at, session, addCount>>
clientVars == <<heard, beat, sent, alive>>
serverClocks == <<connectTime, lastHeartBeatTime>>
vars == <<sessionVars, maps, monitorVars, threadVars, clientVars, serverClocks, crossed>>

Init ==
  /\ inUse = {} /\ sessionList = [s \in Session |-> 0]
  /\ state = [s \in Session |-> "ENDED"]
  /\ ipLong = [s \in Session |-> None]
  /\ sessionHandler = [s \in Session |-> None]
  /\ connectedIPMap = [a \in Address |-> [s \in Session |-> 0]]
  /\ errorCountMap = [s \in Session |-> None]
  /\ errorLock = FALSE
  /\ invalidSessionQueue = << >> /\ unseen = {}
  /\ at = [t \in Thread |-> IF t = Monitor THEN "scan" ELSE "loop"]
  /\ session = [t \in Thread |-> None]
  /\ addCount = [t \in Thread |-> 0]
  /\ connectTime = [s \in Session |-> SESSION_START_TIME + 1]
  /\ lastHeartBeatTime = [s \in Session |-> HEART_BEAT_TIME_OUT + 1]
  /\ heard = [s \in Session |-> 0]
  /\ beat = [s \in Session |-> "none"]
  /\ sent = [s \in Session |-> 0]
  /\ alive = {}
  /\ address = [s \in Session |-> None]
  /\ made = [s \in Session |-> 0]
  /\ crossed = {}

Goto(t, l) == at' = [at EXCEPT ![t] = l]
Works(t, s) == session[t] = s /\ at[t] # "dead"
Leave(t) == session' = [session EXCEPT ![t] = None]
Cross(s, b) == crossed' = IF b THEN crossed \cup {s} ELSE crossed
\* The clients of these sessions are gone, with the beats that are on their way.
Gone(S) ==
  /\ alive' = alive \ S
  /\ heard' = [s \in Session |-> IF s \in S THEN 0 ELSE heard[s]]
  /\ beat' = [s \in Session |-> IF s \in S THEN "none" ELSE beat[s]]
  /\ sent' = [s \in Session |-> IF s \in S THEN 0 ELSE sent[s]]
Unlocked(t) == errorLock => t = Monitor

-----------------------------------------------------------------------------
(***************************************************************************)
(* The accepting thread: SessionManager.accept and Session.init.           *)
(***************************************************************************)
allocate(s, a, h) ==
  /\ at[Reader] = "loop" /\ s \notin inUse
  /\ inUse' = inUse \cup {s}
  /\ Cross(s, \E t \in Thread : Works(t, s))
  /\ sessionHandler' = [sessionHandler EXCEPT ![s] = h]
  /\ connectTime' = [connectTime EXCEPT ![s] = 0]
  /\ address' = [address EXCEPT ![s] = a]
  /\ ipLong' = [ipLong EXCEPT ![s] = a]
  /\ session' = [session EXCEPT ![Reader] = s]
  /\ Goto(Reader, "putIP")
  /\ Gone({s})
  /\ UNCHANGED <<sessionList, state, maps, monitorVars, addCount, lastHeartBeatTime>>

\* The argument of putConnectedIP is the field, which a late closing may have cleared.
putConnectedIP ==
  /\ at[Reader] = "putIP"
  /\ LET s == session[Reader] IN
       connectedIPMap' = [a \in Address |->
                            IF a = ipLong[s] THEN [connectedIPMap[a] EXCEPT ![s] = @ + 1]
                                             ELSE connectedIPMap[a]]
  /\ Goto(Reader, "register")
  /\ UNCHANGED <<sessionVars, errorCountMap, errorLock, made, monitorVars, session, addCount,
                 clientVars, serverClocks, crossed>>

registerErrorCount ==
  /\ at[Reader] = "register" /\ Unlocked(Reader)
  /\ LET s == session[Reader] IN
       /\ errorCountMap' = [errorCountMap EXCEPT ![s] = 0]
       /\ made' = [made EXCEPT ![s] = 0]
  /\ Goto(Reader, "list")
  /\ UNCHANGED <<sessionVars, connectedIPMap, errorLock, monitorVars, session, addCount,
                 clientVars, serverClocks, crossed>>

\* The rest of init, and the session is listed.  Its client has connected before, but
\* not so long ago that it has sent its first beat.
List ==
  /\ at[Reader] = "list"
  /\ LET s == session[Reader] IN
       /\ lastHeartBeatTime' = [lastHeartBeatTime EXCEPT ![s] = 0]
       /\ state' = [state EXCEPT ![s] = "INITED"]
       /\ sessionList' = [sessionList EXCEPT ![s] = @ + 1]
       /\ \E d \in 0..DELAY : d <= HEART_BEAT_PERIOD /\ heard' = [heard EXCEPT ![s] = d]
       /\ beat' = [beat EXCEPT ![s] = "none"]
       /\ sent' = [sent EXCEPT ![s] = 0]
       /\ alive' = alive \cup {s}
  /\ Goto(Reader, "loop") /\ Leave(Reader)
  /\ UNCHANGED <<inUse, ipLong, sessionHandler, address, maps, monitorVars, addCount,
                 connectTime, crossed>>

-----------------------------------------------------------------------------
(***************************************************************************)
(* A client's network thread, and time.                                    *)
(***************************************************************************)
\* queueHeartBeatOutput; heartBeatSended says that the beat has not been answered.
Beat(s) ==
  /\ s \in alive /\ beat[s] = "none" /\ heard[s] > HEART_BEAT_PERIOD
  /\ beat' = [beat EXCEPT ![s] = "asked"]
  /\ sent' = [sent EXCEPT ![s] = 0]
  /\ UNCHANGED <<sessionVars, maps, monitorVars, threadVars, heard, alive, serverClocks,
                 crossed>>

\* The answer is read.
Hear(s) ==
  /\ s \in alive /\ beat[s] = "answered"
  /\ beat' = [beat EXCEPT ![s] = "none"]
  /\ heard' = [heard EXCEPT ![s] = 0]
  /\ sent' = [sent EXCEPT ![s] = 0]
  /\ UNCHANGED <<sessionVars, maps, monitorVars, threadVars, alive, serverClocks,
                 crossed>>

\* The client, or its connection, is gone, and the server does not hear of it.
Lose(s) ==
  /\ s \in alive /\ Gone({s})
  /\ UNCHANGED <<sessionVars, maps, monitorVars, threadVars, serverClocks, crossed>>

\* A client that runs sends its beat in time, and beat and answer arrive in time.
Timely(s) ==
  IF beat[s] = "none" THEN heard[s] < HEART_BEAT_PERIOD + LOOP ELSE sent[s] < DELAY

Later(clock, limit) == [s \in Session |-> IF clock[s] > limit THEN clock[s] ELSE clock[s] + 1]

Tick ==
  /\ \A s \in alive : Timely(s)
  /\ connectTime' = Later(connectTime, SESSION_START_TIME)
  /\ lastHeartBeatTime' = Later(lastHeartBeatTime, HEART_BEAT_TIME_OUT)
  /\ heard' = [s \in Session |-> IF s \in alive THEN heard[s] + 1 ELSE heard[s]]
  /\ sent' = [s \in Session |-> IF s \in alive /\ beat[s] # "none" THEN sent[s] + 1 ELSE sent[s]]
  /\ UNCHANGED <<sessionVars, maps, monitorVars, threadVars, beat, alive, crossed>>

-----------------------------------------------------------------------------
(***************************************************************************)
(* The handlers, and errors.                                               *)
(***************************************************************************)
Serves(h, s) == h \in Handler /\ at[h] = "loop" /\ sessionHandler[s] = h

\* (answered but not noted: for the mutation of HEART_BEAT)
HEART_BEATUnnoted(h, s) ==
  /\ Serves(h, s) /\ beat[s] = "asked"
  /\ beat' = [beat EXCEPT ![s] = "answered"]
  /\ sent' = [sent EXCEPT ![s] = 0]
  /\ UNCHANGED <<sessionVars, maps, monitorVars, threadVars, heard, alive, serverClocks, crossed>>

HEART_BEAT(h, s) ==
  /\ Serves(h, s) /\ beat[s] = "asked"
  /\ lastHeartBeatTime' = [lastHeartBeatTime EXCEPT ![s] = 0]
  /\ beat' = [beat EXCEPT ![s] = "answered"]
  /\ sent' = [sent EXCEPT ![s] = 0]
  /\ UNCHANGED <<sessionVars, maps, monitorVars, threadVars, heard, alive, connectTime, crossed>>

\* The client logs in.
PUT_PRANKKEY(h, s) ==
  /\ Serves(h, s) /\ state[s] = "INITED"
  /\ state' = [state EXCEPT ![s] = "STARTED"]
  /\ UNCHANGED <<inUse, sessionList, ipLong, sessionHandler, address, maps, monitorVars,
                 threadVars, clientVars, serverClocks, crossed>>

\* addErrorCount, called by a handler or the reading thread.
addErrorCount(t, s) ==
  /\ at[t] = "loop" /\ (t = Reader \/ Serves(t, s))
  /\ s \in inUse /\ state[s] # "ENDED"
  /\ \E n \in Errors :
       /\ addCount' = [addCount EXCEPT ![t] = n]
       /\ made' = [made EXCEPT ![s] = @ + n]
  /\ session' = [session EXCEPT ![t] = s]
  /\ Goto(t, "count")
  /\ UNCHANGED <<sessionVars, connectedIPMap, errorCountMap, errorLock, monitorVars, clientVars,
                 serverClocks, crossed>>

\* Its locked part.
Count(t) ==
  /\ at[t] = "count" /\ Unlocked(t)
  /\ LET s == session[t] IN
       errorCountMap' = IF errorCountMap[s] = None THEN errorCountMap
                        ELSE [errorCountMap EXCEPT ![s] = @ + addCount[t]]
  /\ Goto(t, "loop") /\ Leave(t)
  /\ UNCHANGED <<sessionVars, connectedIPMap, errorLock, made, monitorVars, addCount,
                 clientVars, serverClocks, crossed>>

\* For a version, a key that is used again, or a message that cannot be written.
queueInvalidSession(s) ==
  /\ s \in inUse
  /\ invalidSessionQueue' = Append(invalidSessionQueue, s)
  /\ UNCHANGED <<sessionVars, maps, unseen, threadVars, clientVars, serverClocks, crossed>>

-----------------------------------------------------------------------------
(***************************************************************************)
(* closeSession, with the parts of OnClose that matter here.               *)
(***************************************************************************)
closeSession(t, s) ==
  /\ state' = [state EXCEPT ![s] = "ENDED"]
  /\ Gone({s})
  /\ session' = [session EXCEPT ![t] = s]
  /\ Goto(t, "callOff")
  /\ Cross(s, session[Reader] = s /\ at[Reader] \in {"putIP", "register", "list"})

BYE(h, s) ==
  /\ Serves(h, s) /\ s \in inUse /\ closeSession(h, s)
  /\ UNCHANGED <<inUse, sessionList, ipLong, sessionHandler, address, maps, monitorVars, addCount,
                 serverClocks>>

\* (without the release of the lock: for the mutation of Die)
DieLocked(t) ==
  /\ at[t] = "callOff"
  /\ Goto(t, "dead")
  /\ Gone({s \in Session : sessionHandler[s] = t})
  /\ UNCHANGED <<sessionVars, maps, monitorVars, session, addCount, serverClocks, crossed>>

\* (the field is cleared too early: for the mutation of TestIP)
TestIPClearing(t) ==
  /\ at[t] = "callOff"
  /\ Goto(t, IF ipLong[session[t]] = None THEN "clearIP" ELSE "removeIP")
  /\ ipLong' = [ipLong EXCEPT ![session[t]] = None]
  /\ UNCHANGED <<inUse, sessionList, state, sessionHandler, address, maps, monitorVars, session,
                 addCount, clientVars, serverClocks, crossed>>

\* The thread may die of callingSession (CallServer says how), and then its lock is
\* free and its sessions are no longer served.
Die(t) ==
  /\ at[t] = "callOff"
  /\ Goto(t, "dead")
  /\ errorLock' = (errorLock /\ t # Monitor)
  /\ Gone({s \in Session : sessionHandler[s] = t})
  /\ UNCHANGED <<sessionVars, connectedIPMap, errorCountMap, made, monitorVars, session,
                 addCount, serverClocks, crossed>>

TestIP(t) ==
  /\ at[t] = "callOff"
  /\ Goto(t, IF ipLong[session[t]] = None THEN "clearIP" ELSE "removeIP")
  /\ UNCHANGED <<sessionVars, maps, monitorVars, session, addCount, clientVars, serverClocks,
                 crossed>>

\* (for everybody of the address: for the mutation of removeConnectedIP)
removeAddress(t) ==
  /\ at[t] = "removeIP"
  /\ connectedIPMap' = [a \in Address |-> IF a = ipLong[session[t]] THEN [s \in Session |-> 0]
                                          ELSE connectedIPMap[a]]
  /\ Goto(t, "clearIP")
  /\ UNCHANGED <<sessionVars, errorCountMap, errorLock, made, monitorVars, session, addCount,
                 clientVars, serverClocks, crossed>>

\* The field is read again: it may be null by now, or the address of the next.
removeConnectedIP(t) ==
  /\ at[t] = "removeIP"
  /\ LET s == session[t] IN
       connectedIPMap' = [a \in Address |->
                            IF a = ipLong[s] /\ connectedIPMap[a][s] > 0
                              THEN [connectedIPMap[a] EXCEPT ![s] = @ - 1]
                              ELSE connectedIPMap[a]]
  /\ Goto(t, "clearIP")
  /\ UNCHANGED <<sessionVars, errorCountMap, errorLock, made, monitorVars, session, addCount,
                 clientVars, serverClocks, crossed>>

ClearIP(t) ==
  /\ at[t] = "clearIP"
  /\ ipLong' = [ipLong EXCEPT ![session[t]] = None]
  /\ Goto(t, "removeErrors")
  /\ UNCHANGED <<inUse, sessionList, state, sessionHandler, address, maps, monitorVars, session,
                 addCount, clientVars, serverClocks, crossed>>

removeSessionInErrorCountMap(t) ==
  /\ at[t] = "removeErrors" /\ Unlocked(t)
  /\ errorCountMap' = [errorCountMap EXCEPT ![session[t]] = None]
  /\ Goto(t, "deallocate")
  /\ UNCHANGED <<sessionVars, connectedIPMap, errorLock, made, monitorVars, session, addCount,
                 clientVars, serverClocks, crossed>>

\* The session is no longer listed and goes back to the pool; the loop over
\* errorCountMap removes it once more.
Deallocate(t) ==
  /\ at[t] = "deallocate"
  /\ LET s == session[t] IN
       /\ sessionList' = [sessionList EXCEPT ![s] = IF @ = 0 THEN 0 ELSE @ - 1]
       /\ inUse' = inUse \ {s}
       /\ errorCountMap' = IF errorLock /\ t = Monitor THEN [errorCountMap EXCEPT ![s] = None]
                           ELSE errorCountMap
  /\ Goto(t, IF t # Monitor THEN "loop" ELSE IF errorLock THEN "errors" ELSE "delete")
  /\ Leave(t)
  /\ UNCHANGED <<state, ipLong, sessionHandler, address, connectedIPMap, errorLock, made,
                 monitorVars, addCount, clientVars, serverClocks, crossed>>

Closes(t) ==
  TestIP(t) \/ removeConnectedIP(t) \/ ClearIP(t)
    \/ removeSessionInErrorCountMap(t) \/ Deallocate(t)

-----------------------------------------------------------------------------
(***************************************************************************)
(* The monitor's loop.                                                     *)
(***************************************************************************)
Late(s) == lastHeartBeatTime[s] > HEART_BEAT_TIME_OUT
Unstarted(s) == connectTime[s] > SESSION_START_TIME /\ state[s] = "INITED"
Once(b, s) == IF b THEN <<s>> ELSE << >>

\* (late clients are not looked for: for the mutation of Scan)
ScanStarting(s) ==
  /\ at[Monitor] = "scan" /\ s \in unseen
  /\ unseen' = unseen \ {s}
  /\ invalidSessionQueue' = invalidSessionQueue \o Once(Unstarted(s), s)
  /\ UNCHANGED <<sessionVars, maps, threadVars, clientVars, serverClocks, crossed>>

Scan(s) ==
  /\ at[Monitor] = "scan" /\ s \in unseen
  /\ unseen' = unseen \ {s}
  /\ invalidSessionQueue' = invalidSessionQueue \o Once(Late(s), s) \o Once(Unstarted(s), s)
  /\ UNCHANGED <<sessionVars, maps, threadVars, clientVars, serverClocks, crossed>>

EndScan ==
  /\ at[Monitor] = "scan" /\ unseen = {}
  /\ Goto(Monitor, "delete")
  /\ UNCHANGED <<sessionVars, maps, monitorVars, session, addCount, clientVars, serverClocks,
                 crossed>>

DeleteInvalid ==
  /\ at[Monitor] = "delete" /\ invalidSessionQueue # << >>
  /\ closeSession(Monitor, Head(invalidSessionQueue))
  /\ invalidSessionQueue' = Tail(invalidSessionQueue)
  /\ UNCHANGED <<inUse, sessionList, ipLong, sessionHandler, address, maps, unseen, addCount,
                 serverClocks>>

EndDelete ==
  /\ at[Monitor] = "delete" /\ invalidSessionQueue = << >>
  /\ errorLock' = TRUE
  /\ Goto(Monitor, "errors")
  /\ UNCHANGED <<sessionVars, connectedIPMap, errorCountMap, made, monitorVars, session, addCount,
                 clientVars, serverClocks, crossed>>

Erroneous(s) == errorCountMap[s] # None /\ errorCountMap[s] > ERROR_COUNT_MAXIMUM

DeleteErroneous(s) ==
  /\ at[Monitor] = "errors" /\ Erroneous(s)
  /\ closeSession(Monitor, s)
  /\ UNCHANGED <<inUse, sessionList, ipLong, sessionHandler, address, maps, monitorVars, addCount,
                 serverClocks>>

\* It sleeps for a second, and goes through the sessions that are listed then.
EndErrors ==
  /\ at[Monitor] = "errors" /\ \A s \in Session : ~ Erroneous(s)
  /\ errorLock' = FALSE
  /\ unseen' = {s \in Session : sessionList[s] > 0}
  /\ Goto(Monitor, "scan")
  /\ UNCHANGED <<sessionVars, connectedIPMap, errorCountMap, made, invalidSessionQueue, session,
                 addCount, clientVars, serverClocks, crossed>>

-----------------------------------------------------------------------------
Accepts == putConnectedIP \/ registerErrorCount \/ List

Client(s) == Beat(s) \/ Hear(s)

Loop == (\E s \in Session : Scan(s) \/ DeleteErroneous(s)) \/ EndScan \/ DeleteInvalid
          \/ EndDelete \/ EndErrors

Next ==
  \/ \E s \in Session, a \in Address, h \in Handler : allocate(s, a, h)
  \/ Accepts
  \/ \E s \in Session : Client(s) \/ Lose(s) \/ queueInvalidSession(s)
  \/ Tick
  \/ \E h \in Handler, s \in Session : HEART_BEAT(h, s) \/ PUT_PRANKKEY(h, s) \/ BYE(h, s)
  \/ \E t \in Thread, s \in Session : addErrorCount(t, s)
  \/ \E t \in Thread : Count(t) \/ Die(t) \/ Closes(t)
  \/ Loop

Spec == Init /\ [][Next]_vars

\* Threads run, and time passes.
Fairness ==
  /\ WF_vars(Accepts) /\ WF_vars(Tick) /\ WF_vars(Loop)
  /\ \A t \in Thread : WF_vars(Count(t)) /\ WF_vars(Closes(t))
  /\ \A s \in Session :
       WF_vars(Client(s)) /\ WF_vars(s \in alive /\ \E h \in Handler : HEART_BEAT(h, s))

FairSpec == Spec /\ Fairness

-----------------------------------------------------------------------------
ClosePlaces == {"callOff", "removeIP", "clearIP", "removeErrors", "deallocate", "dead"}

\* Every variable has the type of the field it stands for.
TypeOK ==
  /\ inUse \subseteq Session /\ alive \subseteq Session /\ crossed \subseteq Session
  /\ unseen \subseteq Session
  /\ sessionList \in [Session -> Nat]
  /\ state \in [Session -> {"INITED", "STARTED", "ENDED"}]
  /\ ipLong \in [Session -> Address \cup {None}]
  /\ address \in [Session -> Address \cup {None}]
  /\ sessionHandler \in [Session -> Handler \cup {None}]
  /\ connectedIPMap \in [Address -> [Session -> Nat]]
  /\ errorCountMap \in [Session -> Nat \cup {None}]
  /\ made \in [Session -> Nat]
  /\ errorLock \in BOOLEAN
  /\ errorLock => at[Monitor] \in {"errors"} \cup (ClosePlaces \ {"dead"})
  /\ invalidSessionQueue \in Seq(Session)
  /\ at \in [Thread -> {"loop", "putIP", "register", "list", "count", "scan", "delete", "errors"}
                         \cup ClosePlaces]
  /\ session \in [Thread -> Session \cup {None}]
  /\ addCount \in [Thread -> Nat]
  /\ connectTime \in [Session -> 0..SESSION_START_TIME + 1]
  /\ lastHeartBeatTime \in [Session -> 0..HEART_BEAT_TIME_OUT + 1]
  /\ heard \in [Session -> Nat]
  /\ beat \in [Session -> {"none", "asked", "answered"}]
  /\ sent \in [Session -> 0..DELAY]

\* isValidIP: voice channels are accepted from this address.
isValidIP(a) == \E s \in Session : connectedIPMap[a][s] > 0

\* Who is connected may open voice channels, whoever else of the same address is closed
\* meanwhile, by two threads at once even; and the errors that threads have counted for
\* the session are those of this connection.  Except when a closing of the session
\* overlapped with its next acceptance.
ConnectedIsKnown ==
  \A s \in Session \ crossed :
    sessionList[s] > 0 /\ state[s] # "ENDED" =>
      /\ isValidIP(address[s]) /\ ipLong[s] = address[s]
      /\ errorCountMap[s] # None
      /\ \/ errorCountMap[s] = made[s]
         \/ \E t \in Thread : Works(t, s) /\ at[t] = "count"

\* Nobody else may: an address whose last session has gone is no longer admitted, and
\* no errors are kept of a session that is in the pool.
OthersAreUnknown ==
  \A s \in Session \ crossed :
    /\ \A a \in Address : connectedIPMap[a][s] > 0 => s \in inUse /\ address[s] = a
    /\ errorCountMap[s] # None => s \in inUse

\* The time-outs of both sides are long enough: as long as a client runs and its
\* messages arrive within DELAY, the monitor does not find it late, and it does not
\* give up the server.
HeardIsKept ==
  \A s \in alive : lastHeartBeatTime[s] <= HEART_BEAT_TIME_OUT /\ heard[s] <= HEART_BEAT_TIME_OUT

Listed(s) == sessionList[s] > 0
Queued(s) == \E i \in DOMAIN invalidSessionQueue : invalidSessionQueue[i] = s
Dead == at[Monitor] = "dead"

\* What should end a session ends it: the client's silence, also when the handler that
\* closed it has died; that it does not log in; its errors; or that it was queued.
\* Unless the monitor has died.
FaultyIsClosed ==
  \A s \in Session :
    /\ (Listed(s) /\ s \notin alive) ~> (~ Listed(s) \/ s \in alive \/ Dead)
    /\ (Listed(s) /\ state[s] = "INITED") ~> (~ Listed(s) \/ state[s] # "INITED" \/ Dead)
    /\ Erroneous(s) ~> (~ Erroneous(s) \/ Dead)
    /\ Queued(s) ~> (~ Queued(s) \/ Dead)
=============================================================================
