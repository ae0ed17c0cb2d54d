----------------------------- MODULE CallServer -----------------------------
(***************************************************************************)
(* The signalling core of the server: pooled Session objects, the handler  *)
(* threads that run the clients' operations on them, the ConnectionMonitor *)
(* thread that closes invalid sessions, the accepting thread, and the      *)
(* registrations of the two parties of a call at the voice managers.       *)
(*                                                                         *)
(* An operation of one session reads and writes the fields of the session  *)
(* it is calling, without a lock.  A thread is therefore a sequence        *)
(* todo[t] of instructions: an operation puts its instructions there, and  *)
(* each step executes the first one, so two threads interleave at every    *)
(* access to shared state.                                                 *)
(***************************************************************************)
EXTENDS Naturals, Sequences

CONSTANTS Session,      \* the Session objects of the SessionPool
          Handler,      \* the SessionHandler threads
          Monitor,      \* the ConnectionMonitor thread
          Acceptor,     \* the SessionManager thread
          TcpManager,   \* the VoiceTcpManagers
          UdpManager,   \* the VoiceUdpManagers
          UdpGroups,    \* what getActiveVoiceUdpManagers can return
          PoolOrder,    \* the Sessions in the order the pool created them
          None          \* Java's null

Thread  == Handler \cup {Monitor, Acceptor}
Manager == TcpManager \cup UdpManager

ASSUME ThreadAssumption ==
  /\ Monitor \notin Handler
  /\ Acceptor \notin Handler
  /\ Monitor # Acceptor

ASSUME NoneAssumption ==
  /\ None \notin Session \cup Manager
  /\ Session \cap Manager = {}
  /\ TcpManager \cap UdpManager = {}

ASSUME UdpGroupsAssumption == UdpGroups \subseteq Seq(UdpManager)

ASSUME PoolOrderAssumption ==
  /\ PoolOrder \in Seq(Session)
  /\ \A s \in Session : \E i \in DOMAIN PoolOrder : PoolOrder[i] = s
  /\ \A i, j \in DOMAIN PoolOrder : PoolOrder[i] = PoolOrder[j] => i = j

VARIABLES
  state,                 \* Session.state
  callingSession,        \* Session.callingSession
  voiceTcpManagerQueue,  \* Session.voiceTcpManagerQueue
  voiceUdpManagerQueue,  \* Session.voiceUdpManagerQueue
  activeSessionMap,      \* the keys of each voice manager's activeSessionMap
  sessionQueue,          \* SessionPool.sessionQueue, the free sessions
  semaphores,            \* SessionPool.semaphores
  sessionList,           \* how often SessionManager.sessionList holds a session
  invalidSessionQueue,   \* ConnectionMonitor.invalidSessionQueue
  handlersOf,            \* handlers whose sessionQueue may hold the session
  phase,                 \* where the monitor's loop is
  todo                   \* what each thread has left of its operation

poolVars    == <<sessionQueue, semaphores>>
managerVars == <<voiceTcpManagerQueue, voiceUdpManagerQueue, activeSessionMap>>
monitorVars == <<invalidSessionQueue, phase>>
vars == <<state, callingSession, managerVars, poolVars, sessionList,
          monitorVars, handlersOf, todo>>

(***************************************************************************)
(* Instructions.  s is the session the instruction works on, x its         *)
(* argument: the other session, a voice manager, or None.                  *)
(***************************************************************************)
States == {"INITED", "STARTED", "ENDED", "CALLING"}

Ops == {"dead", "assign", "start", "call", "end",
        "checkState", "calledFrom", "acceptPeer", "callAccept",
        "enablePeer", "requestEnable", "hangPeer", "closePeer", "callOff",
        "register", "offer", "drainTcp", "drainUdp", "unregister",
        "init", "list", "delist", "deallocate"}

ManagerOps == {"register", "offer", "unregister"}

Instr == {i \in [op : Ops, s : Session, x : Session \cup Manager \cup {None}] :
            IF i.op \in ManagerOps THEN i.x \in Manager
                                   ELSE i.x \in (Session \cup {None}) \ {i.s}}

Do(op, s)       == [op |-> op, s |-> s, x |-> None]
DoWith(op, s, x) == [op |-> op, s |-> s, x |-> x]

Idle(t)  == todo[t] = << >>
At(t, op) == todo[t] # << >> /\ Head(todo[t]).op = op
Now(t)   == Head(todo[t])

\* The thread replaces the instruction it has just executed by the sequence is.
Continue(t, is) == todo' = [todo EXCEPT ![t] = is \o Tail(todo[t])]

\* An uncaught NullPointerException ends the thread.
Die(t) == todo' = [todo EXCEPT ![t] = <<DoWith("dead", Now(t).s, None)>>]

(***************************************************************************)
(* The methods, as the instructions they execute.                          *)
(***************************************************************************)
DrainManagers(s) == <<Do("drainTcp", s), Do("drainUdp", s)>>

callOff(p) == DrainManagers(p) \o <<Do("assign", p), Do("start", p)>>

calledFrom(p, session) == <<DoWith("assign", p, session), Do("call", p)>>

RegisterManagers(s, tcp, udp) ==
  (IF tcp = None THEN << >> ELSE <<DoWith("register", s, tcp)>>)
    \o [i \in DOMAIN udp |-> DoWith("register", s, udp[i])]

OnClose(s) ==
  <<Do("end", s), Do("closePeer", s)>> \o DrainManagers(s)

closeSession(s) == OnClose(s) \o <<Do("delist", s)>>

(***************************************************************************)
(* Initially every session is in the pool and no thread does anything.     *)
(***************************************************************************)
Init ==
  /\ state = [s \in Session |-> "ENDED"]
  /\ callingSession = [s \in Session |-> None]
  /\ voiceTcpManagerQueue = [s \in Session |-> << >>]
  /\ voiceUdpManagerQueue = [s \in Session |-> << >>]
  /\ activeSessionMap = [m \in Manager |-> {}]
  /\ sessionQueue = PoolOrder
  /\ semaphores = [s \in Session |-> 0]
  /\ sessionList = [s \in Session |-> 0]
  /\ invalidSessionQueue = << >>
  /\ handlersOf = [s \in Session |-> {}]
  /\ phase = "scan"
  /\ todo = [t \in Thread |-> << >>]

(***************************************************************************)
(* The accepting thread: SessionManager.accept and Session.init.           *)
(***************************************************************************)
\* allocate a session, choose its handler.  An entry for the session's earlier
\* connection may remain in the queue of the handler it had then.
Accept ==
  /\ Idle(Acceptor)
  /\ sessionQueue # << >>
  /\ LET s == Head(sessionQueue) IN
       /\ sessionQueue' = Tail(sessionQueue)
       /\ semaphores' = [semaphores EXCEPT ![s] = @ + 1]
       /\ \E h \in Handler, stale \in SUBSET handlersOf[s] :
            handlersOf' = [handlersOf EXCEPT ![s] = stale \cup {h}]
       /\ todo' = [todo EXCEPT ![Acceptor] = <<Do("init", s)>>]
  /\ UNCHANGED <<state, callingSession, managerVars, sessionList, monitorVars>>

\* init resets neither callingSession nor the queues of voice managers.  The peer has an
\* IPv4 address, so Utils.ipToLong can read it.
InitSession(t) ==
  /\ At(t, "init")
  /\ state' = [state EXCEPT ![Now(t).s] = "INITED"]
  /\ Continue(t, <<Do("list", Now(t).s)>>)
  /\ UNCHANGED <<callingSession, managerVars, poolVars, sessionList,
                 monitorVars, handlersOf>>

List(t) ==
  /\ At(t, "list")
  /\ sessionList' = [sessionList EXCEPT ![Now(t).s] = @ + 1]
  /\ Continue(t, << >>)
  /\ UNCHANGED <<state, callingSession, managerVars, poolVars, monitorVars,
                 handlersOf>>

(***************************************************************************)
(* The handler threads: Session.putOperation, one action per operation     *)
(* that changes the call state of some session.                            *)
(***************************************************************************)
\* Handler h takes session s, with input, from its sessionQueue.
Takes(h, s) == Idle(h) /\ h \in handlersOf[s]

Starts(h, is) ==
  /\ todo' = [todo EXCEPT ![h] = is]
  /\ UNCHANGED <<state, callingSession, managerVars, poolVars, sessionList,
                 phase, handlersOf>>

queueInvalidSession(s) ==
  invalidSessionQueue' = Append(invalidSessionQueue, s)

BYE(h, s) ==
  /\ Takes(h, s)
  /\ Starts(h, closeSession(s))
  /\ UNCHANGED invalidSessionQueue

\* A wrong version, or a write that failed.
VersionError(h, s) ==
  /\ Takes(h, s)
  /\ queueInvalidSession(s)
  /\ Starts(h, << >>)

\* GET_NEWPRANKKEY, GET_NEWPHONENUMBER, and PUT_PRANKKEY of a key nobody uses.
Login(h, s) ==
  /\ Takes(h, s)
  /\ Starts(h, <<Do("start", s)>>)
  /\ UNCHANGED invalidSessionQueue

\* PUT_PRANKKEY of a key that session exist has logged in with.
LoginAgain(h, s, exist) ==
  /\ Takes(h, s)
  /\ queueInvalidSession(exist)
  /\ Starts(h, <<Do("start", s)>>)

\* (a caller may dial its own number: for the mutation of CALL_TO)
CALL_TO_AnyNumber(h, s, dst) ==
  /\ Takes(h, s)
  /\ state[dst] = "STARTED"
  /\ Starts(h, <<DoWith("assign", s, dst)>>)
  /\ UNCHANGED invalidSessionQueue

CALL_TO(h, s, dst) ==
  /\ Takes(h, s)
  /\ dst # s
  /\ state[dst] = "STARTED"
  /\ Starts(h, <<DoWith("assign", s, dst)>>)
  /\ UNCHANGED invalidSessionQueue

CALL_TO2(h, s) ==
  /\ Takes(h, s)
  /\ Starts(h, IF callingSession[s] = None
                 THEN <<Do("assign", s)>>
                 ELSE <<DoWith("checkState", s, callingSession[s])>>)
  /\ UNCHANGED invalidSessionQueue

CALL_ACCEPT(h, s) ==
  /\ Takes(h, s)
  /\ state[s] = "CALLING"
  /\ \E tcp \in TcpManager \cup {None}, udp \in UdpGroups :
       Starts(h, RegisterManagers(s, tcp, udp)
                   \o <<Do("acceptPeer", s), Do("call", s)>>)
  /\ UNCHANGED invalidSessionQueue

ENABLE_FROM(h, s) ==
  /\ Takes(h, s)
  /\ Starts(h, <<Do("enablePeer", s)>>)
  /\ UNCHANGED invalidSessionQueue

CALL_OFF(h, s) ==
  /\ Takes(h, s)
  /\ state[s] = "CALLING"
  /\ Starts(h, <<Do("hangPeer", s), Do("assign", s)>>
                 \o DrainManagers(s) \o <<Do("start", s)>>)
  /\ UNCHANGED invalidSessionQueue

(***************************************************************************)
(* The instructions that read callingSession again after having compared   *)
(* it with null (or with a state): the field is not volatile, so the       *)
(* second read may return the first one's value or the field's present one.*)
(***************************************************************************)
Reread(t) == {Now(t).x, callingSession[Now(t).s]}

OnlyTodo == UNCHANGED <<state, callingSession, managerVars, poolVars,
                        sessionList, monitorVars, handlersOf>>

\* CALL_TO2: callingSession.state != STATE_STARTED, then callingSession.calledFrom
CheckState(t) ==
  /\ At(t, "checkState")
  /\ \E p \in Reread(t) :
       IF p = None THEN Die(t)
       ELSE Continue(t, IF state[p] # "STARTED"
                          THEN <<Do("assign", Now(t).s)>>
                          ELSE <<DoWith("calledFrom", Now(t).s, p),
                                 Do("call", Now(t).s)>>)
  /\ OnlyTodo

CalledFrom(t) ==
  /\ At(t, "calledFrom")
  /\ \E p \in Reread(t) :
       IF p = None THEN Die(t) ELSE Continue(t, calledFrom(p, Now(t).s))
  /\ OnlyTodo

\* CALL_ACCEPT, ENABLE_FROM, CALL_OFF and OnClose: if(callingSession!=null)
CheckPeer(t) ==
  /\ \/ /\ At(t, "acceptPeer")
        /\ Continue(t, IF callingSession[Now(t).s] = None THEN << >>
             ELSE <<DoWith("callAccept", Now(t).s, callingSession[Now(t).s])>>)
     \/ /\ At(t, "enablePeer")
        /\ Continue(t, IF callingSession[Now(t).s] = None THEN << >>
             ELSE <<DoWith("requestEnable", Now(t).s, callingSession[Now(t).s])>>)
     \/ /\ At(t, "hangPeer")
        /\ Continue(t, IF callingSession[Now(t).s] = None THEN << >>
             ELSE <<DoWith("callOff", Now(t).s, callingSession[Now(t).s])>>)
     \/ /\ At(t, "closePeer")
        /\ Continue(t, IF callingSession[Now(t).s] = None THEN << >>
             ELSE <<DoWith("callOff", Now(t).s, callingSession[Now(t).s]),
                    Do("assign", Now(t).s)>>)
  /\ OnlyTodo

CallAccept(t) ==
  /\ At(t, "callAccept")
  /\ \E p \in Reread(t), tcp \in TcpManager \cup {None}, udp \in UdpGroups :
       IF p = None THEN Die(t) ELSE Continue(t, RegisterManagers(p, tcp, udp))
  /\ OnlyTodo

RequestEnableFrom(t) ==
  /\ At(t, "requestEnable")
  /\ \E p \in Reread(t) : IF p = None THEN Die(t) ELSE Continue(t, << >>)
  /\ OnlyTodo

CallOff(t) ==
  /\ At(t, "callOff")
  /\ \E p \in Reread(t) : IF p = None THEN Die(t) ELSE Continue(t, callOff(p))
  /\ OnlyTodo

(***************************************************************************)
(* Assignments to the fields of a session.                                 *)
(***************************************************************************)
AssignCallingSession(t) ==
  /\ At(t, "assign")
  /\ callingSession' = [callingSession EXCEPT ![Now(t).s] = Now(t).x]
  /\ Continue(t, << >>)
  /\ UNCHANGED <<state, managerVars, poolVars, sessionList, monitorVars, handlersOf>>

StateOf == [start |-> "STARTED", call |-> "CALLING", end |-> "ENDED"]

AssignState(t) ==
  /\ \E op \in DOMAIN StateOf :
       /\ At(t, op)
       /\ state' = [state EXCEPT ![Now(t).s] = StateOf[op]]
  /\ Continue(t, << >>)
  /\ UNCHANGED <<callingSession, managerVars, poolVars, sessionList, monitorVars,
                 handlersOf>>

(***************************************************************************)
(* Registration at the voice managers.  Registering and offering, polling  *)
(* and unregistering are two steps each.                                   *)
(***************************************************************************)
registerSession(t) ==
  /\ At(t, "register")
  /\ activeSessionMap' = [activeSessionMap EXCEPT ![Now(t).x] = @ \cup {Now(t).s}]
  /\ Continue(t, <<DoWith("offer", Now(t).s, Now(t).x)>>)
  /\ UNCHANGED <<state, callingSession, voiceTcpManagerQueue, voiceUdpManagerQueue,
                 poolVars, sessionList, monitorVars, handlersOf>>

Offer(t) ==
  /\ At(t, "offer")
  /\ LET s == Now(t).s
         m == Now(t).x IN
       IF m \in TcpManager
         THEN /\ voiceTcpManagerQueue' = [voiceTcpManagerQueue EXCEPT ![s] = Append(@, m)]
              /\ UNCHANGED voiceUdpManagerQueue
         ELSE /\ voiceUdpManagerQueue' = [voiceUdpManagerQueue EXCEPT ![s] = Append(@, m)]
              /\ UNCHANGED voiceTcpManagerQueue
  /\ Continue(t, << >>)
  /\ UNCHANGED <<state, callingSession, activeSessionMap, poolVars, sessionList,
                 monitorVars, handlersOf>>

\* one poll of the loop; the loop's next poll follows the unregistration
DrainTcp(t) ==
  /\ At(t, "drainTcp")
  /\ LET s == Now(t).s
         queue == voiceTcpManagerQueue[s] IN
       IF queue = << >>
         THEN Continue(t, << >>) /\ UNCHANGED voiceTcpManagerQueue
         ELSE /\ voiceTcpManagerQueue' = [voiceTcpManagerQueue EXCEPT ![s] = Tail(@)]
              /\ Continue(t, <<DoWith("unregister", s, Head(queue)), Now(t)>>)
  /\ UNCHANGED <<state, callingSession, voiceUdpManagerQueue, activeSessionMap,
                 poolVars, sessionList, monitorVars, handlersOf>>

\* (forgets the managers instead of unregistering: for the mutation of DrainUdp)
ClearUdp(t) ==
  /\ At(t, "drainUdp")
  /\ voiceUdpManagerQueue' = [voiceUdpManagerQueue EXCEPT ![Now(t).s] = << >>]
  /\ Continue(t, << >>)
  /\ UNCHANGED <<state, callingSession, voiceTcpManagerQueue, activeSessionMap,
                 poolVars, sessionList, monitorVars, handlersOf>>

DrainUdp(t) ==
  /\ At(t, "drainUdp")
  /\ LET s == Now(t).s
         queue == voiceUdpManagerQueue[s] IN
       IF queue = << >>
         THEN Continue(t, << >>) /\ UNCHANGED voiceUdpManagerQueue
         ELSE /\ voiceUdpManagerQueue' = [voiceUdpManagerQueue EXCEPT ![s] = Tail(@)]
              /\ Continue(t, <<DoWith("unregister", s, Head(queue)), Now(t)>>)
  /\ UNCHANGED <<state, callingSession, voiceTcpManagerQueue, activeSessionMap,
                 poolVars, sessionList, monitorVars, handlersOf>>

unregisterSession(t) ==
  /\ At(t, "unregister")
  /\ activeSessionMap' = [activeSessionMap EXCEPT ![Now(t).x] = @ \ {Now(t).s}]
  /\ Continue(t, << >>)
  /\ UNCHANGED <<state, callingSession, voiceTcpManagerQueue, voiceUdpManagerQueue,
                 poolVars, sessionList, monitorVars, handlersOf>>

(***************************************************************************)
(* The rest of closing a session.                                          *)
(***************************************************************************)
\* (a close that does not give the session back: for the mutation of Delist)
DelistOnly(t) ==
  /\ At(t, "delist")
  /\ sessionList' = [sessionList EXCEPT ![Now(t).s] = IF @ = 0 THEN 0 ELSE @ - 1]
  /\ Continue(t, << >>)
  /\ UNCHANGED <<state, callingSession, managerVars, poolVars, monitorVars, handlersOf>>

\* sessionList.remove removes one occurrence, if there is one.
Delist(t) ==
  /\ At(t, "delist")
  /\ sessionList' = [sessionList EXCEPT ![Now(t).s] = IF @ = 0 THEN 0 ELSE @ - 1]
  /\ Continue(t, <<Do("deallocate", Now(t).s)>>)
  /\ UNCHANGED <<state, callingSession, managerVars, poolVars, monitorVars, handlersOf>>

\* (without the semaphore: for the mutation of deallocate)
deallocateAlways(t) ==
  /\ At(t, "deallocate")
  /\ semaphores' = [semaphores EXCEPT ![Now(t).s] = @ - 1]
  /\ sessionQueue' = Append(sessionQueue, Now(t).s)
  /\ Continue(t, << >>)
  /\ UNCHANGED <<state, callingSession, managerVars, sessionList, monitorVars, handlersOf>>

deallocate(t) ==
  /\ At(t, "deallocate")
  /\ LET s == Now(t).s IN
       IF semaphores[s] = 0
         THEN UNCHANGED poolVars
         ELSE /\ semaphores' = [semaphores EXCEPT ![s] = @ - 1]
              /\ sessionQueue' = Append(sessionQueue, s)
  /\ Continue(t, << >>)
  /\ UNCHANGED <<state, callingSession, managerVars, sessionList, monitorVars, handlersOf>>

(***************************************************************************)
(* The monitor's loop: queue the sessions that are too late, close the     *)
(* queued ones, close those with too many errors.                          *)
(***************************************************************************)
ScanSession(s) ==
  /\ phase = "scan" /\ Idle(Monitor)
  /\ sessionList[s] > 0
  /\ queueInvalidSession(s)
  /\ UNCHANGED <<state, callingSession, managerVars, poolVars, sessionList,
                 phase, handlersOf, todo>>

EndScan ==
  /\ phase = "scan" /\ Idle(Monitor)
  /\ phase' = "delete"
  /\ UNCHANGED <<state, callingSession, managerVars, poolVars, sessionList,
                 invalidSessionQueue, handlersOf, todo>>

DeleteInvalid ==
  /\ phase = "delete" /\ Idle(Monitor)
  /\ IF invalidSessionQueue = << >>
       THEN /\ phase' = "errors"
            /\ UNCHANGED <<invalidSessionQueue, todo>>
       ELSE /\ invalidSessionQueue' = Tail(invalidSessionQueue)
            /\ todo' = [todo EXCEPT ![Monitor] = closeSession(Head(invalidSessionQueue))]
            /\ UNCHANGED phase
  /\ UNCHANGED <<state, callingSession, managerVars, poolVars, sessionList,
                 handlersOf>>

DeleteErroneous(s) ==
  /\ phase = "errors" /\ Idle(Monitor)
  /\ handlersOf[s] # {}
  /\ todo' = [todo EXCEPT ![Monitor] = closeSession(s)]
  /\ OnlyTodo

EndErrors ==
  /\ phase = "errors" /\ Idle(Monitor)
  /\ phase' = "scan"
  /\ UNCHANGED <<state, callingSession, managerVars, poolVars, sessionList,
                 invalidSessionQueue, handlersOf, todo>>

(***************************************************************************)
(* Next-state relation.                                                    *)
(***************************************************************************)
Step(t) ==
  \/ InitSession(t) \/ List(t)
  \/ CheckState(t) \/ CalledFrom(t) \/ CheckPeer(t) \/ CallAccept(t)
  \/ RequestEnableFrom(t) \/ CallOff(t)
  \/ AssignCallingSession(t) \/ AssignState(t)
  \/ registerSession(t) \/ Offer(t)
  \/ DrainTcp(t) \/ DrainUdp(t) \/ unregisterSession(t)
  \/ Delist(t) \/ deallocate(t)

Operation(h, s) ==
  \/ BYE(h, s) \/ VersionError(h, s) \/ Login(h, s)
  \/ \E other \in Session : LoginAgain(h, s, other) \/ CALL_TO(h, s, other)
  \/ CALL_TO2(h, s) \/ CALL_ACCEPT(h, s) \/ ENABLE_FROM(h, s) \/ CALL_OFF(h, s)

MonitorLoop ==
  \/ \E s \in Session : ScanSession(s) \/ DeleteErroneous(s)
  \/ EndScan \/ DeleteInvalid \/ EndErrors

Next ==
  \/ Accept
  \/ \E t \in Thread : Step(t)
  \/ \E h \in Handler, s \in Session : Operation(h, s)
  \/ MonitorLoop

Spec == Init /\ [][Next]_vars

-----------------------------------------------------------------------------
(***************************************************************************)
(* Properties.                                                             *)
(***************************************************************************)
\* Every variable has the type of the field it stands for.
TypeOK ==
  /\ state \in [Session -> States]
  /\ callingSession \in [Session -> Session \cup {None}]
  /\ voiceTcpManagerQueue \in [Session -> Seq(TcpManager)]
  /\ voiceUdpManagerQueue \in [Session -> Seq(UdpManager)]
  /\ activeSessionMap \in [Manager -> SUBSET Session]
  /\ sessionQueue \in Seq(Session)
  /\ semaphores \in [Session -> Nat]
  /\ sessionList \in [Session -> Nat]
  /\ invalidSessionQueue \in Seq(Session)
  /\ handlersOf \in [Session -> SUBSET Handler]
  /\ phase \in {"scan", "delete", "errors"}
  /\ todo \in [Thread -> Seq(Instr)]

\* Thread t is about to execute instruction op on session s with argument x.
About(t, op, s, x) == At(t, op) /\ Now(t).s = s /\ Now(t).x = x

Queued(s, m) ==
  \/ \E i \in DOMAIN voiceTcpManagerQueue[s] : voiceTcpManagerQueue[s][i] = m
  \/ \E i \in DOMAIN voiceUdpManagerQueue[s] : voiceUdpManagerQueue[s][i] = m

\* A voice manager never keeps a session that nobody will take off it: whenever
\* a session is registered, the manager is in the session's own queue, from which
\* callOff, CALL_OFF and OnClose unregister it, or a thread is about to put it
\* there, or has polled it and is about to unregister it.  Registering and
\* unregistering race on the same session from both parties' threads.
RegistrationTracked ==
  \A m \in Manager : \A s \in activeSessionMap[m] :
    \/ Queued(s, m)
    \/ \E t \in Thread : About(t, "offer", s, m) \/ About(t, "unregister", s, m)

\* The pool never holds a session twice and loses none: each session is free
\* exactly once or has semaphore 1, however many threads close it at once.
PoolConservation ==
  /\ \A i, j \in DOMAIN sessionQueue : sessionQueue[i] = sessionQueue[j] => i = j
  /\ \A s \in Session :
       semaphores[s] = IF \E i \in DOMAIN sessionQueue : sessionQueue[i] = s THEN 0 ELSE 1

\* No session leaks: one that is out of the pool is in sessionList, where the
\* monitor finds it when it is silent too long, or the accepting thread is about
\* to list it, or a thread that closes it is about to give it back.
AllocatedIsReapable ==
  \A s \in Session : semaphores[s] = 1 =>
    \/ sessionList[s] > 0
    \/ \E op \in {"init", "list"} : About(Acceptor, op, s, None)
    \/ \E t \in Thread : About(t, "deallocate", s, None)

\* No session is ever in a call with itself, although CALL_TO excludes that only
\* for the number the caller dials and calledFrom stores whatever caller it gets.
NoSelfCall == \A s \in Session : callingSession[s] # s
=============================================================================
