-------------------------- MODULE CallServerProofs --------------------------
(***************************************************************************)
(* Proofs of the invariants of CallServer, for any number of sessions,     *)
(* handler threads and voice managers.                                     *)
(***************************************************************************)
EXTENDS CallServer, TLAPS

-----------------------------------------------------------------------------
(***************************************************************************)
(* Lemmas about the threads' instruction sequences.                        *)
(***************************************************************************)
\* What a thread does next, after replacing its current instruction.
LEMMA ContinueType ==
  ASSUME todo \in [Thread -> Seq(Instr)], NEW t \in Thread, todo[t] # << >>,
         NEW is \in Seq(Instr), Continue(t, is)
  PROVE  todo' \in [Thread -> Seq(Instr)]
<1>1. is \o Tail(todo[t]) \in Seq(Instr)
  OBVIOUS
<1>2. QED
  BY <1>1 DEF Continue

\* And what a thread does next that has nothing to do.
LEMMA PutType ==
  ASSUME todo \in [Thread -> Seq(Instr)], NEW t \in Thread, NEW is \in Seq(Instr),
         todo' = [todo EXCEPT ![t] = is]
  PROVE  todo' \in [Thread -> Seq(Instr)]
OBVIOUS

LEMMA NowType ==
  ASSUME todo \in [Thread -> Seq(Instr)], NEW t \in Thread, NEW op, At(t, op)
  PROVE  Now(t) \in Instr /\ todo[t] # << >> /\ Now(t).op = op
BY DEF At, Now

LEMMA DieType ==
  ASSUME todo \in [Thread -> Seq(Instr)], NEW t \in Thread, Now(t).s \in Session, Die(t)
  PROVE  todo' \in [Thread -> Seq(Instr)]
<1>1. DoWith("dead", Now(t).s, None) \in Instr
  BY NoneAssumption DEF DoWith, Instr, Ops, ManagerOps
<1>2. QED
  BY <1>1 DEF Die

LEMMA DoType ==
  ASSUME NEW op \in Ops \ ManagerOps, NEW s \in Session
  PROVE  Do(op, s) \in Instr
BY NoneAssumption DEF Do, Instr

LEMMA DoWithType ==
  ASSUME NEW op \in Ops \ ManagerOps, NEW s \in Session,
         NEW x \in Session \cup {None}, x # s
  PROVE  DoWith(op, s, x) \in Instr
BY NoneAssumption DEF DoWith, Instr

LEMMA DoManagerType ==
  ASSUME NEW op \in ManagerOps, NEW s \in Session, NEW m \in Manager
  PROVE  DoWith(op, s, m) \in Instr
BY DEF DoWith, Instr, Ops, ManagerOps

LEMMA DrainType ==
  ASSUME NEW s \in Session
  PROVE  DrainManagers(s) \in Seq(Instr)
<1>1. Do("drainTcp", s) \in Instr /\ Do("drainUdp", s) \in Instr
  BY DoType DEF Ops, ManagerOps
<1>2. QED
  BY <1>1 DEF DrainManagers

LEMMA callOffType ==
  ASSUME NEW p \in Session
  PROVE  callOff(p) \in Seq(Instr)
<1>1. Do("assign", p) \in Instr /\ Do("start", p) \in Instr
  BY DoType DEF Ops, ManagerOps
<1>2. <<Do("assign", p), Do("start", p)>> \in Seq(Instr)
  BY <1>1
<1>3. QED
  BY <1>2, DrainType DEF callOff

LEMMA RegisterType ==
  ASSUME NEW s \in Session, NEW tcp \in TcpManager \cup {None}, NEW udp \in UdpGroups
  PROVE  RegisterManagers(s, tcp, udp) \in Seq(Instr)
<1>1. (IF tcp = None THEN << >> ELSE <<DoWith("register", s, tcp)>>) \in Seq(Instr)
  <2>1. CASE tcp = None
    BY <2>1
  <2>2. CASE tcp # None
    <3>1. DoWith("register", s, tcp) \in Instr
      BY <2>2, DoManagerType DEF ManagerOps, Manager
    <3>2. QED
      BY <3>1, <2>2
  <2>3. QED
    BY <2>1, <2>2
<1>2. [i \in DOMAIN udp |-> DoWith("register", s, udp[i])] \in Seq(Instr)
  <2>1. udp \in Seq(UdpManager)
    BY UdpGroupsAssumption
  <2>2. Len(udp) \in Nat /\ DOMAIN udp = 1..Len(udp)
    BY <2>1
  <2>3. \A i \in 1..Len(udp) : DoWith("register", s, udp[i]) \in Instr
    BY <2>1, DoManagerType DEF ManagerOps, Manager
  <2>4. QED
    BY <2>2, <2>3
<1>3. QED
  BY <1>1, <1>2 DEF RegisterManagers

LEMMA closeSessionType ==
  ASSUME NEW s \in Session
  PROVE  closeSession(s) \in Seq(Instr)
<1>1. /\ Do("end", s) \in Instr /\ Do("closePeer", s) \in Instr
      /\ Do("delist", s) \in Instr
  BY DoType DEF Ops, ManagerOps
<1>2. <<Do("end", s), Do("closePeer", s)>> \in Seq(Instr) /\ <<Do("delist", s)>> \in Seq(Instr)
  BY <1>1
<1>3. QED
  BY <1>2, DrainType DEF closeSession, OnClose

-----------------------------------------------------------------------------
(***************************************************************************)
(* Type correctness.  It is not inductive alone: calledFrom stores the     *)
(* caller in the session it has reread, and an instruction that stores a   *)
(* session in itself has no type, so NoSelfCall is needed with it.         *)
(***************************************************************************)
TypeInv == TypeOK /\ NoSelfCall

LEMMA InitType == Init => TypeInv
<1> SUFFICES ASSUME Init PROVE TypeInv
  OBVIOUS
<1>1. TypeOK
  BY PoolOrderAssumption DEF Init, TypeOK, States
<1>2. NoSelfCall
  BY NoneAssumption DEF Init, NoSelfCall
<1>3. QED
  BY <1>1, <1>2 DEF TypeInv

\* What a thread reads when it reads callingSession again.
LEMMA RereadType ==
  ASSUME TypeInv, NEW t \in Thread, NEW op \in Ops \ ManagerOps, At(t, op),
         NEW p \in Reread(t)
  PROVE  /\ Now(t).s \in Session
         /\ p \in Session \cup {None}
         /\ p # Now(t).s
<1>1. Now(t) \in Instr /\ Now(t).op = op
  BY NowType DEF TypeInv, TypeOK
<1>2. /\ Now(t).s \in Session
      /\ Now(t).x \in (Session \cup {None}) \ {Now(t).s}
  BY <1>1 DEF Instr
<1>3. callingSession[Now(t).s] \in (Session \cup {None}) \ {Now(t).s}
  BY <1>2 DEF TypeInv, TypeOK, NoSelfCall
<1>4. QED
  BY <1>2, <1>3 DEF Reread

\* An operation that only puts its instructions into todo.
LEMMA StartsType ==
  ASSUME TypeInv, NEW h \in Handler, NEW is \in Seq(Instr), Starts(h, is),
         invalidSessionQueue' \in Seq(Session)
  PROVE  TypeInv'
<1>1. todo' \in [Thread -> Seq(Instr)]
  BY DEF Starts, TypeInv, TypeOK, Thread
<1>2. QED
  BY <1>1 DEF Starts, TypeInv, TypeOK, NoSelfCall, managerVars, poolVars

LEMMA OperationType ==
  ASSUME TypeInv, NEW h \in Handler, NEW s \in Session, Operation(h, s)
  PROVE  TypeInv'
<1> USE DEF queueInvalidSession
<1>0. /\ << >> \in Seq(Instr)
      /\ invalidSessionQueue \in Seq(Session)
      /\ \A r \in Session : Append(invalidSessionQueue, r) \in Seq(Session)
  BY DEF TypeInv, TypeOK
<1>1. CASE BYE(h, s)
  BY <1>0, <1>1, closeSessionType, StartsType DEF BYE
<1>2. CASE VersionError(h, s)
  BY <1>0, <1>2, StartsType DEF VersionError
<1>3. CASE Login(h, s)
  <2>1. <<Do("start", s)>> \in Seq(Instr)
    BY DoType DEF Ops, ManagerOps
  <2>2. QED
    BY <1>0, <1>3, <2>1, StartsType DEF Login
<1>4. ASSUME NEW other \in Session, LoginAgain(h, s, other) PROVE TypeInv'
  <2>1. <<Do("start", s)>> \in Seq(Instr)
    BY DoType DEF Ops, ManagerOps
  <2>2. QED
    BY <1>0, <1>4, <2>1, StartsType DEF LoginAgain
<1>5. ASSUME NEW other \in Session, CALL_TO(h, s, other) PROVE TypeInv'
  <2>1. <<DoWith("assign", s, other)>> \in Seq(Instr)
    BY <1>5, DoWithType DEF CALL_TO, Ops, ManagerOps
  <2>2. QED
    BY <1>0, <1>5, <2>1, StartsType DEF CALL_TO
<1>6. CASE CALL_TO2(h, s)
  <2>1. <<Do("assign", s)>> \in Seq(Instr)
    BY DoType DEF Ops, ManagerOps
  <2>2. callingSession[s] \in Session \cup {None} /\ callingSession[s] # s
    BY DEF TypeInv, TypeOK, NoSelfCall
  <2>3. <<DoWith("checkState", s, callingSession[s])>> \in Seq(Instr)
    BY <2>2, DoWithType DEF Ops, ManagerOps
  <2>4. QED
    BY <1>0, <1>6, <2>1, <2>3, StartsType DEF CALL_TO2
<1>7. CASE CALL_ACCEPT(h, s)
  <2>1. PICK tcp \in TcpManager \cup {None}, udp \in UdpGroups :
          Starts(h, RegisterManagers(s, tcp, udp)
                      \o <<Do("acceptPeer", s), Do("call", s)>>)
    BY <1>7 DEF CALL_ACCEPT
  <2>2. Do("acceptPeer", s) \in Instr /\ Do("call", s) \in Instr
    BY DoType DEF Ops, ManagerOps
  <2>3. <<Do("acceptPeer", s), Do("call", s)>> \in Seq(Instr)
    BY <2>2
  <2>4. RegisterManagers(s, tcp, udp) \o <<Do("acceptPeer", s), Do("call", s)>>
          \in Seq(Instr)
    BY <2>3, RegisterType
  <2>5. QED
    BY <1>0, <1>7, <2>1, <2>4, StartsType DEF CALL_ACCEPT
<1>8. CASE ENABLE_FROM(h, s)
  <2>1. <<Do("enablePeer", s)>> \in Seq(Instr)
    BY DoType DEF Ops, ManagerOps
  <2>2. QED
    BY <1>0, <1>8, <2>1, StartsType DEF ENABLE_FROM
<1>9. CASE CALL_OFF(h, s)
  <2>1. Do("hangPeer", s) \in Instr /\ Do("assign", s) \in Instr /\ Do("start", s) \in Instr
    BY DoType DEF Ops, ManagerOps
  <2>2. <<Do("hangPeer", s), Do("assign", s)>> \in Seq(Instr) /\ <<Do("start", s)>> \in Seq(Instr)
    BY <2>1
  <2>3. <<Do("hangPeer", s), Do("assign", s)>> \o DrainManagers(s) \o <<Do("start", s)>>
          \in Seq(Instr)
    BY <2>2, DrainType
  <2>4. QED
    BY <1>0, <1>9, <2>3, StartsType DEF CALL_OFF
<1>10. QED
  BY <1>1, <1>2, <1>3, <1>4, <1>5, <1>6, <1>7, <1>8, <1>9 DEF Operation

\* A step that changes nothing but todo, by ending the thread or by continuing
\* with well-typed instructions.
LEMMA OnlyTodoType ==
  ASSUME TypeInv, OnlyTodo, todo' \in [Thread -> Seq(Instr)]
  PROVE  TypeInv'
BY DEF TypeInv, TypeOK, NoSelfCall, OnlyTodo, managerVars, poolVars, monitorVars

LEMMA PeerStepType ==
  ASSUME TypeInv, NEW t \in Thread,
         CheckState(t) \/ CalledFrom(t) \/ CheckPeer(t) \/ CallAccept(t)
           \/ RequestEnableFrom(t) \/ CallOff(t)
  PROVE  TypeInv'
<1> DEFINE s == Now(t).s
<1> USE DEF Ops, ManagerOps
<1>0. todo \in [Thread -> Seq(Instr)] /\ << >> \in Seq(Instr)
  BY DEF TypeInv, TypeOK
<1>1. CASE CheckState(t)
  <2>1. PICK p \in Reread(t) :
          IF p = None THEN Die(t)
          ELSE Continue(t, IF state[p] # "STARTED"
                             THEN <<Do("assign", s)>>
                             ELSE <<DoWith("calledFrom", s, p), Do("call", s)>>)
    BY <1>1 DEF CheckState
  <2>2. At(t, "checkState") /\ todo[t] # << >>
    BY <1>1 DEF CheckState, At
  <2>3. s \in Session /\ p \in Session \cup {None} /\ p # s
    BY <2>2, RereadType
  <2>4. CASE p = None
    BY <1>0, <1>1, <2>1, <2>3, <2>4, DieType, OnlyTodoType DEF CheckState
  <2>5. CASE p # None
    <3>1. <<Do("assign", s)>> \in Seq(Instr)
      BY <2>3, DoType
    <3>2. DoWith("calledFrom", s, p) \in Instr /\ Do("call", s) \in Instr
      BY <2>3, <2>5, DoType, DoWithType
    <3>3. <<DoWith("calledFrom", s, p), Do("call", s)>> \in Seq(Instr)
      BY <3>2
    <3>4. todo' \in [Thread -> Seq(Instr)]
      BY <1>0, <2>1, <2>2, <2>5, <3>1, <3>3, ContinueType
    <3>5. QED
      BY <1>1, <3>4, OnlyTodoType DEF CheckState
  <2>6. QED
    BY <2>4, <2>5
<1>2. CASE CalledFrom(t)
  <2>1. PICK p \in Reread(t) :
          IF p = None THEN Die(t) ELSE Continue(t, calledFrom(p, s))
    BY <1>2 DEF CalledFrom
  <2>2. At(t, "calledFrom") /\ todo[t] # << >>
    BY <1>2 DEF CalledFrom, At
  <2>3. s \in Session /\ p \in Session \cup {None} /\ p # s
    BY <2>2, RereadType
  <2>4. CASE p = None
    BY <1>0, <1>2, <2>1, <2>3, <2>4, DieType, OnlyTodoType DEF CalledFrom
  <2>5. CASE p # None
    <3>1. DoWith("assign", p, s) \in Instr /\ Do("call", p) \in Instr
      BY <2>3, <2>5, DoType, DoWithType
    <3>2. calledFrom(p, s) \in Seq(Instr)
      BY <3>1 DEF calledFrom
    <3>3. todo' \in [Thread -> Seq(Instr)]
      BY <1>0, <2>1, <2>2, <2>5, <3>2, ContinueType
    <3>4. QED
      BY <1>2, <3>3, OnlyTodoType DEF CalledFrom
  <2>6. QED
    BY <2>4, <2>5
<1>3. CASE CheckPeer(t)
  <2>1. PICK op \in {"acceptPeer", "enablePeer", "hangPeer", "closePeer"} : At(t, op)
    BY <1>3 DEF CheckPeer
  <2>2. Now(t).s \in Session /\ callingSession[s] \in Session \cup {None}
          /\ callingSession[s] # s /\ todo[t] # << >>
    BY <2>1, RereadType DEF Reread, At
  <2>3. \A o \in {"callAccept", "requestEnable", "callOff"} :
          DoWith(o, s, callingSession[s]) \in Instr
    BY <2>2, DoWithType
  <2>4. Do("assign", s) \in Instr
    BY <2>2, DoType
  <2>5. /\ \A o \in {"callAccept", "requestEnable", "callOff"} :
             <<DoWith(o, s, callingSession[s])>> \in Seq(Instr)
        /\ <<DoWith("callOff", s, callingSession[s]), Do("assign", s)>> \in Seq(Instr)
    BY <2>3, <2>4
  <2>6. \E is \in Seq(Instr) : Continue(t, is)
    BY <1>0, <1>3, <2>5 DEF CheckPeer
  <2>7. todo' \in [Thread -> Seq(Instr)]
    BY <1>0, <2>2, <2>6, ContinueType
  <2>8. QED
    BY <1>3, <2>7, OnlyTodoType DEF CheckPeer
<1>4. CASE CallAccept(t)
  <2>1. PICK p \in Reread(t), tcp \in TcpManager \cup {None}, udp \in UdpGroups :
          IF p = None THEN Die(t) ELSE Continue(t, RegisterManagers(p, tcp, udp))
    BY <1>4 DEF CallAccept
  <2>2. At(t, "callAccept") /\ todo[t] # << >>
    BY <1>4 DEF CallAccept, At
  <2>3. s \in Session /\ p \in Session \cup {None}
    BY <2>2, RereadType
  <2>4. todo' \in [Thread -> Seq(Instr)]
    BY <1>0, <2>1, <2>2, <2>3, DieType, ContinueType, RegisterType
  <2>5. QED
    BY <1>4, <2>4, OnlyTodoType DEF CallAccept
<1>5. CASE RequestEnableFrom(t)
  <2>1. PICK p \in Reread(t) : IF p = None THEN Die(t) ELSE Continue(t, << >>)
    BY <1>5 DEF RequestEnableFrom
  <2>2. At(t, "requestEnable") /\ todo[t] # << >>
    BY <1>5 DEF RequestEnableFrom, At
  <2>3. s \in Session
    BY <2>2, RereadType
  <2>4. todo' \in [Thread -> Seq(Instr)]
    BY <1>0, <2>1, <2>2, <2>3, DieType, ContinueType
  <2>5. QED
    BY <1>5, <2>4, OnlyTodoType DEF RequestEnableFrom
<1>6. CASE CallOff(t)
  <2>1. PICK p \in Reread(t) : IF p = None THEN Die(t) ELSE Continue(t, callOff(p))
    BY <1>6 DEF CallOff
  <2>2. At(t, "callOff") /\ todo[t] # << >>
    BY <1>6 DEF CallOff, At
  <2>3. s \in Session /\ p \in Session \cup {None}
    BY <2>2, RereadType
  <2>4. todo' \in [Thread -> Seq(Instr)]
    BY <1>0, <2>1, <2>2, <2>3, DieType, ContinueType, callOffType
  <2>5. QED
    BY <1>6, <2>4, OnlyTodoType DEF CallOff
<1>7. QED
  BY <1>1, <1>2, <1>3, <1>4, <1>5, <1>6

\* The instruction of a step, by the kind of argument it has.
LEMMA SessionArg ==
  ASSUME TypeInv, NEW t \in Thread, NEW op \in Ops \ ManagerOps, At(t, op)
  PROVE  /\ todo[t] # << >>
         /\ Now(t).s \in Session
         /\ Now(t).x \in Session \cup {None}
         /\ Now(t).x # Now(t).s
<1>1. Now(t) \in Instr /\ todo[t] # << >> /\ Now(t).op = op
  BY NowType DEF TypeInv, TypeOK
<1>2. /\ Now(t).s \in Session
      /\ Now(t).x \in (Session \cup {None}) \ {Now(t).s}
  BY <1>1 DEF Instr
<1>3. QED
  BY <1>1, <1>2

LEMMA ManagerArg ==
  ASSUME TypeInv, NEW t \in Thread, NEW op \in ManagerOps, At(t, op)
  PROVE  todo[t] # << >> /\ Now(t).s \in Session /\ Now(t).x \in Manager
<1>1. Now(t) \in Instr /\ todo[t] # << >> /\ Now(t).op = op
  BY NowType DEF TypeInv, TypeOK
<1>2. Now(t).s \in Session /\ Now(t).x \in Manager
  BY <1>1 DEF Instr
<1>3. QED
  BY <1>1, <1>2

LEMMA FieldStepType ==
  ASSUME TypeInv, NEW t \in Thread,
         InitSession(t) \/ List(t) \/ AssignCallingSession(t) \/ AssignState(t)
           \/ Delist(t) \/ deallocate(t)
  PROVE  TypeInv'
<1> DEFINE s == Now(t).s
<1> USE DEF TypeInv, TypeOK, NoSelfCall, managerVars, poolVars, monitorVars
<1>0. todo \in [Thread -> Seq(Instr)] /\ << >> \in Seq(Instr)
  OBVIOUS
<1>1. CASE InitSession(t)
  <2>1. todo[t] # << >> /\ s \in Session
    BY <1>1, SessionArg DEF InitSession, Ops, ManagerOps
  <2>2. <<Do("list", s)>> \in Seq(Instr)
    BY <2>1, DoType DEF Ops, ManagerOps
  <2>3. todo' \in [Thread -> Seq(Instr)]
    BY <1>0, <1>1, <2>1, <2>2, ContinueType DEF InitSession
  <2>4. state' \in [Session -> States]
    BY <1>1, <2>1 DEF InitSession, States
  <2>5. UNCHANGED <<callingSession, managerVars, poolVars, sessionList,
                    monitorVars, handlersOf>>
    BY <1>1 DEF InitSession
  <2>6. QED
    BY <2>3, <2>4, <2>5
<1>2. CASE List(t)
  <2>1. todo[t] # << >> /\ s \in Session
    BY <1>2, SessionArg DEF List, Ops, ManagerOps
  <2>2. todo' \in [Thread -> Seq(Instr)]
    BY <1>0, <1>2, <2>1, ContinueType DEF List
  <2>3. sessionList' \in [Session -> Nat]
    BY <1>2, <2>1 DEF List
  <2>4. UNCHANGED <<state, callingSession, managerVars, poolVars, monitorVars,
                    handlersOf>>
    BY <1>2 DEF List
  <2>5. QED
    BY <2>2, <2>3, <2>4
<1>3. CASE AssignCallingSession(t)
  <2>1. /\ todo[t] # << >> /\ s \in Session
        /\ Now(t).x \in Session \cup {None} /\ Now(t).x # s
    BY <1>3, SessionArg DEF AssignCallingSession, Ops, ManagerOps
  <2>2. todo' \in [Thread -> Seq(Instr)]
    BY <1>0, <1>3, <2>1, ContinueType DEF AssignCallingSession
  <2>3. QED
    BY <1>3, <2>1, <2>2 DEF AssignCallingSession
<1>4. CASE AssignState(t)
  <2>1. PICK op \in DOMAIN StateOf :
          At(t, op) /\ state' = [state EXCEPT ![s] = StateOf[op]]
    BY <1>4 DEF AssignState
  <2>2. op \in {"start", "call", "end"} /\ StateOf[op] \in States
    BY DEF StateOf, States
  <2>3. todo[t] # << >> /\ s \in Session
    BY <2>1, <2>2, SessionArg DEF Ops, ManagerOps
  <2>4. todo' \in [Thread -> Seq(Instr)]
    BY <1>0, <1>4, <2>3, ContinueType DEF AssignState
  <2>5. QED
    BY <1>4, <2>1, <2>2, <2>3, <2>4 DEF AssignState
<1>5. CASE Delist(t)
  <2>1. todo[t] # << >> /\ s \in Session
    BY <1>5, SessionArg DEF Delist, Ops, ManagerOps
  <2>2. <<Do("deallocate", s)>> \in Seq(Instr)
    BY <2>1, DoType DEF Ops, ManagerOps
  <2>3. todo' \in [Thread -> Seq(Instr)]
    BY <1>0, <1>5, <2>1, <2>2, ContinueType DEF Delist
  <2>4. QED
    BY <1>5, <2>1, <2>3 DEF Delist
<1>6. CASE deallocate(t)
  <2>1. todo[t] # << >> /\ s \in Session
    BY <1>6, SessionArg DEF deallocate, Ops, ManagerOps
  <2>2. todo' \in [Thread -> Seq(Instr)]
    BY <1>0, <1>6, <2>1, ContinueType DEF deallocate
  <2>3. /\ Append(sessionQueue, s) \in Seq(Session)
        /\ semaphores[s] # 0 => semaphores[s] - 1 \in Nat
    BY <2>1
  <2>3a. /\ sessionQueue' \in Seq(Session)
         /\ semaphores' \in [Session -> Nat]
    <3>1. CASE semaphores[s] = 0
      BY <1>6, <3>1 DEF deallocate
    <3>2. CASE semaphores[s] # 0
      <4>1. /\ semaphores' = [semaphores EXCEPT ![s] = @ - 1]
            /\ sessionQueue' = Append(sessionQueue, s)
        BY <1>6, <3>2 DEF deallocate
      <4>2. QED
        BY <2>1, <2>3, <3>2, <4>1
    <3>3. QED
      BY <3>1, <3>2
  <2>4. QED
    BY <1>6, <2>2, <2>3a DEF deallocate
<1>7. QED
  BY <1>1, <1>2, <1>3, <1>4, <1>5, <1>6

LEMMA ManagerStepType ==
  ASSUME TypeInv, NEW t \in Thread,
         registerSession(t) \/ Offer(t) \/ DrainTcp(t) \/ DrainUdp(t)
           \/ unregisterSession(t)
  PROVE  TypeInv'
<1> DEFINE s == Now(t).s
           m == Now(t).x
<1> USE DEF TypeInv, TypeOK, NoSelfCall, managerVars, poolVars, monitorVars
<1>0. todo \in [Thread -> Seq(Instr)] /\ << >> \in Seq(Instr)
  OBVIOUS
<1>1. CASE registerSession(t)
  <2>1. todo[t] # << >> /\ s \in Session /\ m \in Manager
    BY <1>1, ManagerArg DEF registerSession, ManagerOps
  <2>2. <<DoWith("offer", s, m)>> \in Seq(Instr)
    BY <2>1, DoManagerType DEF ManagerOps
  <2>3. todo' \in [Thread -> Seq(Instr)]
    BY <1>0, <1>1, <2>1, <2>2, ContinueType DEF registerSession
  <2>4. QED
    BY <1>1, <2>1, <2>3 DEF registerSession
<1>2. CASE Offer(t)
  <2>1. todo[t] # << >> /\ s \in Session /\ m \in Manager
    BY <1>2, ManagerArg DEF Offer, ManagerOps
  <2>2. todo' \in [Thread -> Seq(Instr)]
    BY <1>0, <1>2, <2>1, ContinueType DEF Offer
  <2>3. /\ voiceTcpManagerQueue' \in [Session -> Seq(TcpManager)]
        /\ voiceUdpManagerQueue' \in [Session -> Seq(UdpManager)]
    <3>1. CASE m \in TcpManager
      <4>1. Append(voiceTcpManagerQueue[s], m) \in Seq(TcpManager)
        BY <2>1, <3>1
      <4>2. /\ voiceTcpManagerQueue' = [voiceTcpManagerQueue EXCEPT ![s] = Append(@, m)]
            /\ UNCHANGED voiceUdpManagerQueue
        BY <1>2, <3>1 DEF Offer
      <4>3. QED
        BY <2>1, <4>1, <4>2
    <3>2. CASE m \notin TcpManager
      <4>1. Append(voiceUdpManagerQueue[s], m) \in Seq(UdpManager)
        BY <2>1, <3>2 DEF Manager
      <4>2. /\ voiceUdpManagerQueue' = [voiceUdpManagerQueue EXCEPT ![s] = Append(@, m)]
            /\ UNCHANGED voiceTcpManagerQueue
        BY <1>2, <3>2 DEF Offer
      <4>3. QED
        BY <2>1, <4>1, <4>2
    <3>3. QED
      BY <3>1, <3>2
  <2>4. QED
    BY <1>2, <2>2, <2>3 DEF Offer
<1>3. CASE DrainTcp(t)
  <2>1. todo[t] # << >> /\ s \in Session /\ Now(t) \in Instr
    BY <1>3, SessionArg, NowType DEF DrainTcp, Ops, ManagerOps
  <2>2. CASE voiceTcpManagerQueue[s] = << >>
    BY <1>0, <1>3, <2>1, <2>2, ContinueType DEF DrainTcp
  <2>3. CASE voiceTcpManagerQueue[s] # << >>
    <3>1. /\ Head(voiceTcpManagerQueue[s]) \in Manager
          /\ Tail(voiceTcpManagerQueue[s]) \in Seq(TcpManager)
      BY <2>1, <2>3 DEF Manager
    <3>2. <<DoWith("unregister", s, Head(voiceTcpManagerQueue[s])), Now(t)>> \in Seq(Instr)
      BY <2>1, <3>1, DoManagerType DEF ManagerOps
    <3>3. todo' \in [Thread -> Seq(Instr)]
      BY <1>0, <1>3, <2>1, <2>3, <3>2, ContinueType DEF DrainTcp
    <3>4. QED
      BY <1>3, <2>1, <2>3, <3>1, <3>3 DEF DrainTcp
  <2>4. QED
    BY <2>2, <2>3
<1>4. CASE DrainUdp(t)
  <2>1. todo[t] # << >> /\ s \in Session /\ Now(t) \in Instr
    BY <1>4, SessionArg, NowType DEF DrainUdp, Ops, ManagerOps
  <2>2. CASE voiceUdpManagerQueue[s] = << >>
    BY <1>0, <1>4, <2>1, <2>2, ContinueType DEF DrainUdp
  <2>3. CASE voiceUdpManagerQueue[s] # << >>
    <3>1. /\ Head(voiceUdpManagerQueue[s]) \in Manager
          /\ Tail(voiceUdpManagerQueue[s]) \in Seq(UdpManager)
      BY <2>1, <2>3 DEF Manager
    <3>2. <<DoWith("unregister", s, Head(voiceUdpManagerQueue[s])), Now(t)>> \in Seq(Instr)
      BY <2>1, <3>1, DoManagerType DEF ManagerOps
    <3>3. todo' \in [Thread -> Seq(Instr)]
      BY <1>0, <1>4, <2>1, <2>3, <3>2, ContinueType DEF DrainUdp
    <3>4. QED
      BY <1>4, <2>1, <2>3, <3>1, <3>3 DEF DrainUdp
  <2>4. QED
    BY <2>2, <2>3
<1>5. CASE unregisterSession(t)
  <2>1. todo[t] # << >> /\ s \in Session /\ m \in Manager
    BY <1>5, ManagerArg DEF unregisterSession, ManagerOps
  <2>2. todo' \in [Thread -> Seq(Instr)]
    BY <1>0, <1>5, <2>1, ContinueType DEF unregisterSession
  <2>3. QED
    BY <1>5, <2>1, <2>2 DEF unregisterSession
<1>6. QED
  BY <1>1, <1>2, <1>3, <1>4, <1>5

LEMMA AcceptType ==
  ASSUME TypeInv, Accept
  PROVE  TypeInv'
<1> DEFINE s == Head(sessionQueue)
<1> USE DEF TypeInv, TypeOK, NoSelfCall, managerVars, poolVars, monitorVars
<1>1. s \in Session /\ Tail(sessionQueue) \in Seq(Session)
  BY DEF Accept
<1>2. PICK h \in Handler, stale \in SUBSET handlersOf[s] :
        handlersOf' = [handlersOf EXCEPT ![s] = stale \cup {h}]
  BY DEF Accept
<1>3. stale \cup {h} \in SUBSET Handler
  BY <1>1, <1>2
<1>4. handlersOf' \in [Session -> SUBSET Handler]
  BY <1>1, <1>2, <1>3
<1>5. <<Do("init", s)>> \in Seq(Instr)
  <2>1. "init" \in Ops \ ManagerOps
    BY DEF Ops, ManagerOps
  <2>2. Do("init", s) \in Instr
    BY <1>1, <2>1, DoType
  <2>3. QED
    BY <2>2
<1>6. todo' \in [Thread -> Seq(Instr)]
  <2>1. todo' = [todo EXCEPT ![Acceptor] = <<Do("init", s)>>]
    BY DEF Accept
  <2>2. Acceptor \in Thread
    BY DEF Thread
  <2>3. QED
    BY <1>5, <2>1, <2>2, PutType
<1>7. semaphores' \in [Session -> Nat]
  <2>1. semaphores' = [semaphores EXCEPT ![s] = @ + 1]
    BY DEF Accept
  <2> HIDE DEF s
  <2>2. semaphores \in [Session -> Nat]
    OBVIOUS
  <2>3. QED
    BY ONLY <1>1, <2>1, <2>2
<1>8. QED
  BY <1>1, <1>4, <1>6, <1>7 DEF Accept

LEMMA MonitorType ==
  ASSUME TypeInv, MonitorLoop
  PROVE  TypeInv'
<1> USE DEF TypeInv, TypeOK, NoSelfCall, managerVars, poolVars, monitorVars
<1>1. ASSUME NEW s \in Session, ScanSession(s) PROVE TypeInv'
  <2>1. Append(invalidSessionQueue, s) \in Seq(Session)
    OBVIOUS
  <2>2. QED
    BY <1>1, <2>1 DEF ScanSession, queueInvalidSession
<1>2. ASSUME NEW s \in Session, DeleteErroneous(s) PROVE TypeInv'
  <2>1. todo' \in [Thread -> Seq(Instr)]
    BY <1>2, closeSessionType DEF DeleteErroneous
  <2>2. QED
    BY <1>2, <2>1, OnlyTodoType DEF DeleteErroneous
<1>3. CASE EndScan
  BY <1>3 DEF EndScan
<1>4. CASE DeleteInvalid
  <2>1. CASE invalidSessionQueue = << >>
    BY <1>4, <2>1 DEF DeleteInvalid
  <2>2. CASE invalidSessionQueue # << >>
    <3>1. /\ Head(invalidSessionQueue) \in Session
          /\ Tail(invalidSessionQueue) \in Seq(Session)
      BY <2>2
    <3>2. todo' \in [Thread -> Seq(Instr)]
      BY <1>4, <2>2, <3>1, closeSessionType DEF DeleteInvalid
    <3>3. QED
      BY <1>4, <2>2, <3>1, <3>2 DEF DeleteInvalid
  <2>3. QED
    BY <2>1, <2>2
<1>5. CASE EndErrors
  BY <1>5 DEF EndErrors
<1>6. QED
  BY <1>1, <1>2, <1>3, <1>4, <1>5 DEF MonitorLoop

LEMMA NextType == TypeInv /\ [Next]_vars => TypeInv'
<1> SUFFICES ASSUME TypeInv, [Next]_vars PROVE TypeInv'
  OBVIOUS
<1>1. CASE Accept
  BY <1>1, AcceptType
<1>2. ASSUME NEW t \in Thread, Step(t) PROVE TypeInv'
  BY <1>2, PeerStepType, FieldStepType, ManagerStepType DEF Step
<1>3. ASSUME NEW h \in Handler, NEW s \in Session, Operation(h, s) PROVE TypeInv'
  BY <1>3, OperationType
<1>4. CASE MonitorLoop
  BY <1>4, MonitorType
<1>5. CASE UNCHANGED vars
  BY <1>5 DEF vars, TypeInv, TypeOK, NoSelfCall, managerVars, poolVars, monitorVars
<1>6. QED
  BY <1>1, <1>2, <1>3, <1>4, <1>5 DEF Next

LEMMA TypeInvariant == Spec => []TypeInv
BY InitType, NextType, PTL DEF Spec

\* Every behaviour is type-correct.
THEOREM TypeCorrect == Spec => []TypeOK
<1>1. TypeInv => TypeOK
  BY DEF TypeInv
<1>2. QED
  BY <1>1, TypeInvariant, PTL

\* No session is ever in a call with itself.
THEOREM NeverSelfCall == Spec => []NoSelfCall
<1>1. TypeInv => NoSelfCall
  BY DEF TypeInv
<1>2. QED
  BY <1>1, TypeInvariant, PTL

-----------------------------------------------------------------------------
(***************************************************************************)
(* The session pool.  Only Accept and deallocate touch it.                 *)
(***************************************************************************)
LEMMA PoolUnchanged ==
  ASSUME PoolConservation, UNCHANGED poolVars
  PROVE  PoolConservation'
BY DEF PoolConservation, poolVars

LEMMA PoolAccept ==
  ASSUME TypeInv, PoolConservation, Accept
  PROVE  PoolConservation'
<1> DEFINE q == sessionQueue
           s == Head(q)
<1>1. q \in Seq(Session) /\ q # << >> /\ semaphores \in [Session -> Nat]
  BY DEF Accept, TypeInv, TypeOK
<1>2. /\ s \in Session /\ s = q[1] /\ 1 \in DOMAIN q
      /\ DOMAIN Tail(q) = 1 .. (Len(q) - 1)
      /\ \A i \in DOMAIN Tail(q) : Tail(q)[i] = q[i + 1] /\ i + 1 \in DOMAIN q
  BY <1>1
<1>3. sessionQueue' = Tail(q) /\ semaphores' = [semaphores EXCEPT ![s] = @ + 1]
  BY DEF Accept
<1>4. \A i, j \in DOMAIN Tail(q) : Tail(q)[i] = Tail(q)[j] => i = j
  BY <1>2 DEF PoolConservation
<1>5. \A i \in DOMAIN Tail(q) : Tail(q)[i] # s
  BY <1>1, <1>2 DEF PoolConservation
<1>6. semaphores[s] = 0
  BY <1>2 DEF PoolConservation
<1>7. ASSUME NEW r \in Session, r # s
      PROVE  (\E i \in DOMAIN q : q[i] = r) <=> (\E i \in DOMAIN Tail(q) : Tail(q)[i] = r)
  <2>1. ASSUME NEW i \in DOMAIN q, q[i] = r
        PROVE  \E j \in DOMAIN Tail(q) : Tail(q)[j] = r
    <3>1. i # 1 /\ i - 1 \in DOMAIN Tail(q) /\ Tail(q)[i - 1] = q[i]
      BY <1>1, <1>2, <1>7, <2>1
    <3>2. QED
      BY <2>1, <3>1
  <2>2. QED
    BY <1>2, <2>1
<1>8. QED
  BY <1>1, <1>2, <1>3, <1>4, <1>5, <1>6, <1>7 DEF PoolConservation

LEMMA PoolDeallocate ==
  ASSUME TypeInv, PoolConservation, NEW t \in Thread, deallocate(t)
  PROVE  PoolConservation'
<1> DEFINE q == sessionQueue
           s == Now(t).s
<1>1. /\ q \in Seq(Session) /\ semaphores \in [Session -> Nat]
      /\ s \in Session
  BY SessionArg DEF deallocate, Ops, ManagerOps, TypeInv, TypeOK
<1>2. CASE semaphores[s] = 0
  BY <1>2, PoolUnchanged DEF deallocate
<1>3. CASE semaphores[s] # 0
  <2>1. /\ sessionQueue' = Append(q, s)
        /\ semaphores' = [semaphores EXCEPT ![s] = @ - 1]
    BY <1>3 DEF deallocate
  <2>2. semaphores[s] = 1 /\ \A i \in DOMAIN q : q[i] # s
    BY <1>1, <1>3 DEF PoolConservation
  <2>3. /\ DOMAIN Append(q, s) = DOMAIN q \cup {Len(q) + 1}
        /\ Len(q) + 1 \notin DOMAIN q
        /\ Append(q, s)[Len(q) + 1] = s
        /\ \A i \in DOMAIN q : Append(q, s)[i] = q[i]
    BY <1>1
  <2>4. \A i, j \in DOMAIN Append(q, s) : Append(q, s)[i] = Append(q, s)[j] => i = j
    BY <2>2, <2>3 DEF PoolConservation
  <2>5. \A r \in Session :
          (\E i \in DOMAIN Append(q, s) : Append(q, s)[i] = r)
            <=> r = s \/ \E i \in DOMAIN q : q[i] = r
    BY <2>3
  <2>6. \A r \in Session :
          semaphores'[r] = IF r = s \/ \E i \in DOMAIN q : q[i] = r THEN 0 ELSE 1
    BY <1>1, <2>1, <2>2 DEF PoolConservation
  <2>7. QED
    BY <2>1, <2>4, <2>5, <2>6 DEF PoolConservation
<1>4. QED
  BY <1>2, <1>3

LEMMA PoolNext ==
  ASSUME TypeInv, PoolConservation, [Next]_vars
  PROVE  PoolConservation'
<1>1. CASE Accept
  BY <1>1, PoolAccept
<1>2. ASSUME NEW t \in Thread, Step(t) PROVE PoolConservation'
  <2>1. CASE deallocate(t)
    BY <2>1, PoolDeallocate
  <2>2. CASE ~deallocate(t)
    <3>1. UNCHANGED poolVars
      BY <1>2, <2>2 DEF Step, InitSession, List, CheckState, CalledFrom, CheckPeer,
         CallAccept, RequestEnableFrom, CallOff, AssignCallingSession, AssignState,
         registerSession, Offer, DrainTcp, DrainUdp, unregisterSession, Delist,
         OnlyTodo
    <3>2. QED
      BY <3>1, PoolUnchanged
  <2>3. QED
    BY <2>1, <2>2
<1>3. ASSUME NEW h \in Handler, NEW s \in Session, Operation(h, s)
      PROVE  PoolConservation'
  <2>1. UNCHANGED poolVars
    BY <1>3 DEF Operation, BYE, VersionError, Login, LoginAgain, CALL_TO, CALL_TO2,
       CALL_ACCEPT, ENABLE_FROM, CALL_OFF, Starts
  <2>2. QED
    BY <2>1, PoolUnchanged
<1>4. CASE MonitorLoop
  <2>1. UNCHANGED poolVars
    BY <1>4 DEF MonitorLoop, ScanSession, EndScan, DeleteInvalid, DeleteErroneous,
       EndErrors, OnlyTodo
  <2>2. QED
    BY <2>1, PoolUnchanged
<1>5. CASE UNCHANGED vars
  BY <1>5, PoolUnchanged DEF vars
<1>6. QED
  BY <1>1, <1>2, <1>3, <1>4, <1>5 DEF Next

LEMMA PoolInit == Init => PoolConservation
BY PoolOrderAssumption DEF Init, PoolConservation

\* A session is in the pool once or its semaphore is 1, whoever closes it.
THEOREM PoolConserved == Spec => []PoolConservation
<1>1. TypeInv /\ PoolConservation /\ [Next]_vars => PoolConservation'
  BY PoolNext
<1>2. QED
  BY <1>1, PoolInit, TypeInvariant, PTL DEF Spec

-----------------------------------------------------------------------------
(***************************************************************************)
(* Which threads a step moves, and what they are about to do then.         *)
(***************************************************************************)
Moves(t) == \A u \in Thread : u # t => todo'[u] = todo[u]

LEMMA StepMoves ==
  ASSUME TypeInv, NEW t \in Thread, Step(t)
  PROVE  Moves(t)
<1>1. todo \in [Thread -> Seq(Instr)]
  BY DEF TypeInv, TypeOK
<1>2. Die(t) \/ \E is : Continue(t, is)
  BY DEF Step, InitSession, List, CheckState, CalledFrom, CheckPeer, CallAccept,
     RequestEnableFrom, CallOff, AssignCallingSession, AssignState, registerSession,
     Offer, DrainTcp, DrainUdp, unregisterSession, Delist, deallocate
<1>3. QED
  BY <1>1, <1>2 DEF Moves, Die, Continue

LEMMA OperationMoves ==
  ASSUME TypeInv, NEW h \in Handler, NEW s \in Session, Operation(h, s)
  PROVE  Moves(h) /\ Idle(h)
BY DEF TypeInv, TypeOK, Moves, Operation, Takes, Starts, BYE, VersionError, Login,
   LoginAgain, CALL_TO, CALL_TO2, CALL_ACCEPT, ENABLE_FROM, CALL_OFF

LEMMA MonitorMoves ==
  ASSUME TypeInv, MonitorLoop
  PROVE  Moves(Monitor) /\ Idle(Monitor)
BY DEF TypeInv, TypeOK, Moves, MonitorLoop, ScanSession, EndScan, DeleteInvalid,
   DeleteErroneous, EndErrors

LEMMA AboutKept ==
  ASSUME NEW t \in Thread, Moves(t), NEW u \in Thread, u # t,
         NEW op, NEW s, NEW x, About(u, op, s, x)
  PROVE  About(u, op, s, x)'
BY DEF Moves, About, At, Now

\* A thread that has replaced its instruction by one or two others.
LEMMA AboutNext ==
  ASSUME TypeInv, NEW t \in Thread, todo[t] # << >>, NEW i \in Instr, NEW j \in Instr,
         Continue(t, <<i>>) \/ Continue(t, <<i, j>>)
  PROVE  About(t, i.op, i.s, i.x)'
<1>1. todo \in [Thread -> Seq(Instr)] /\ Tail(todo[t]) \in Seq(Instr)
  BY DEF TypeInv, TypeOK
<1>2. \/ todo'[t] = <<i>> \o Tail(todo[t])
      \/ todo'[t] = <<i, j>> \o Tail(todo[t])
  BY <1>1 DEF Continue
<1>3. todo'[t] # << >> /\ Head(todo'[t]) = i
  BY <1>1, <1>2
<1>4. QED
  BY <1>3 DEF About, At, Now

-----------------------------------------------------------------------------
(***************************************************************************)
(* No session leaks out of the pool.                                       *)
(***************************************************************************)
ReapInv == TypeInv /\ PoolConservation /\ AllocatedIsReapable

\* A step of a thread that neither installs nor releases a session.
LEMMA ReapKept ==
  ASSUME ReapInv, NEW t \in Thread, Moves(t),
         \A op \in {"init", "list", "deallocate"} : ~At(t, op),
         UNCHANGED <<semaphores, sessionList>>
  PROVE  AllocatedIsReapable'
<1> SUFFICES ASSUME NEW s \in Session, semaphores[s] = 1
             PROVE  (\/ sessionList[s] > 0
                     \/ \E op \in {"init", "list"} : About(Acceptor, op, s, None)
                     \/ \E u \in Thread : About(u, "deallocate", s, None))'
  BY DEF AllocatedIsReapable
<1>1. CASE sessionList[s] > 0
  BY <1>1
<1>2. CASE \E op \in {"init", "list"} : About(Acceptor, op, s, None)
  <2>1. PICK op \in {"init", "list"} : About(Acceptor, op, s, None)
    BY <1>2
  <2>2. Acceptor # t /\ Acceptor \in Thread
    BY <2>1 DEF About, Thread
  <2>3. About(Acceptor, op, s, None)'
    BY <2>1, <2>2, AboutKept
  <2>4. QED
    BY <2>3
<1>3. CASE \E u \in Thread : About(u, "deallocate", s, None)
  <2>1. PICK u \in Thread : About(u, "deallocate", s, None)
    BY <1>3
  <2>2. u # t
    BY <2>1 DEF About
  <2>3. About(u, "deallocate", s, None)'
    BY <2>1, <2>2, AboutKept
  <2>4. QED
    BY <2>3
<1>4. QED
  BY <1>1, <1>2, <1>3 DEF ReapInv, AllocatedIsReapable

LEMMA ReapAccept ==
  ASSUME ReapInv, Accept
  PROVE  AllocatedIsReapable'
<1>0. PICK s \in Session : s = Head(sessionQueue)
  BY DEF Accept, ReapInv, TypeInv, TypeOK
<1>1. /\ Acceptor \in Thread /\ todo \in [Thread -> Seq(Instr)]
      /\ semaphores \in [Session -> Nat]
  BY DEF ReapInv, TypeInv, TypeOK, Thread
<1>2. Moves(Acceptor) /\ Idle(Acceptor)
  BY <1>1 DEF Accept, Moves
<1>3. About(Acceptor, "init", s, None)'
  <2>1. todo'[Acceptor] = <<Do("init", s)>>
    BY <1>0, <1>1 DEF Accept
  <2>2. QED
    BY <2>1 DEF About, At, Now, Do
<1>4. ASSUME NEW r \in Session, r # s, semaphores[r] = 1
      PROVE  sessionList[r] > 0 \/ \E u \in Thread : About(u, "deallocate", r, None)'
  <2>1. \/ sessionList[r] > 0
        \/ \E u \in Thread : About(u, "deallocate", r, None)
    BY <1>2, <1>4 DEF ReapInv, AllocatedIsReapable, About, At, Idle
  <2>2. ASSUME NEW u \in Thread, About(u, "deallocate", r, None)
        PROVE  About(u, "deallocate", r, None)'
    <3>1. u # Acceptor
      BY <1>2, <2>2 DEF About, At, Idle
    <3>2. QED
      BY <1>1, <1>2, <2>2, <3>1, AboutKept
  <2>3. QED
    BY <2>1, <2>2
<1>5. semaphores' = [semaphores EXCEPT ![s] = @ + 1] /\ sessionList' = sessionList
  BY <1>0 DEF Accept
<1>6. QED
  BY <1>1, <1>3, <1>4, <1>5 DEF AllocatedIsReapable

LEMMA ReapStep ==
  ASSUME ReapInv, NEW t \in Thread, Step(t)
  PROVE  AllocatedIsReapable'
<1>0. /\ todo \in [Thread -> Seq(Instr)]
      /\ semaphores \in [Session -> Nat] /\ sessionList \in [Session -> Nat]
      /\ TypeInv
  BY DEF ReapInv, TypeInv, TypeOK
<1>1. Moves(t)
  BY <1>0, StepMoves
\* the witnesses of the sessions the step is not about
<1>2. ASSUME NEW r \in Session, r # Now(t).s, semaphores[r] = 1
      PROVE  \/ sessionList[r] > 0
             \/ \E op \in {"init", "list"} : About(Acceptor, op, r, None)'
             \/ \E u \in Thread : About(u, "deallocate", r, None)'
  <2>1. ASSUME NEW u \in Thread, NEW op, About(u, op, r, None)
        PROVE  About(u, op, r, None)'
    BY <1>1, <1>2, <2>1, AboutKept DEF About
  <2>2. QED
    BY <1>2, <2>1 DEF ReapInv, AllocatedIsReapable, Thread
<1>3. CASE InitSession(t)
  <2>1. PICK s \in Session : s = Now(t).s
    BY <1>0, <1>3, SessionArg DEF InitSession, Ops, ManagerOps
  <2>2. About(t, "list", s, None)'
    <3>1. todo[t] # << >> /\ Continue(t, <<Do("list", s)>>)
      BY <1>3, <2>1 DEF InitSession, At
    <3>2. Do("list", s) \in Instr
      BY DoType DEF Ops, ManagerOps
    <3>3. QED
      BY <1>0, <3>1, <3>2, AboutNext DEF Do
  <2>3. ASSUME semaphores[s] = 1
        PROVE  \/ sessionList[s] > 0
               \/ \E op \in {"init", "list"} : About(Acceptor, op, s, None)'
               \/ \E u \in Thread : About(u, "deallocate", s, None)'
    <3>1. CASE sessionList[s] > 0
      BY <3>1
    <3>2. CASE \E op \in {"init", "list"} : About(Acceptor, op, s, None)
      <4>1. CASE t = Acceptor
        BY <2>2, <4>1
      <4>2. CASE t # Acceptor
        BY <1>1, <3>2, <4>2, AboutKept DEF Thread
      <4>3. QED
        BY <4>1, <4>2
    <3>3. CASE \E u \in Thread : About(u, "deallocate", s, None)
      <4>1. PICK u \in Thread : About(u, "deallocate", s, None)
        BY <3>3
      <4>2. u # t
        BY <1>3, <4>1 DEF InitSession, About, At
      <4>3. QED
        BY <1>1, <4>1, <4>2, AboutKept
    <3>4. QED
      BY <2>3, <3>1, <3>2, <3>3 DEF ReapInv, AllocatedIsReapable
  <2>4. UNCHANGED <<semaphores, sessionList>>
    BY <1>3 DEF InitSession, poolVars
  <2>5. QED
    BY <1>2, <2>1, <2>3, <2>4 DEF AllocatedIsReapable
<1>4. CASE List(t)
  <2>1. PICK s \in Session : s = Now(t).s
    BY <1>0, <1>4, SessionArg DEF List, Ops, ManagerOps
  <2>2. /\ sessionList' = [sessionList EXCEPT ![s] = @ + 1]
        /\ semaphores' = semaphores
    BY <1>4, <2>1 DEF List, poolVars
  <2>3. sessionList'[s] > 0
    BY <1>0, <2>2
  <2>4. QED
    BY <1>0, <1>2, <2>1, <2>2, <2>3 DEF AllocatedIsReapable
<1>5. CASE Delist(t)
  <2>1. PICK s \in Session : s = Now(t).s
    BY <1>0, <1>5, SessionArg DEF Delist, Ops, ManagerOps
  <2>2. About(t, "deallocate", s, None)'
    <3>1. todo[t] # << >> /\ Continue(t, <<Do("deallocate", s)>>)
      BY <1>5, <2>1 DEF Delist, At
    <3>2. Do("deallocate", s) \in Instr
      BY DoType DEF Ops, ManagerOps
    <3>3. QED
      BY <1>0, <3>1, <3>2, AboutNext DEF Do
  <2>3. /\ semaphores' = semaphores
        /\ \A r \in Session : r # s => sessionList'[r] = sessionList[r]
    BY <1>0, <1>5, <2>1 DEF Delist, poolVars
  <2>4. QED
    BY <1>2, <2>1, <2>2, <2>3 DEF AllocatedIsReapable
<1>6. CASE deallocate(t)
  <2>1. PICK s \in Session : s = Now(t).s
    BY <1>0, <1>6, SessionArg DEF deallocate, Ops, ManagerOps
  <2>2. /\ semaphores'[s] = 0
        /\ \A r \in Session : r # s => semaphores'[r] = semaphores[r]
    <3>1. semaphores[s] \in {0, 1}
      BY <1>0 DEF ReapInv, PoolConservation
    <3>2. CASE semaphores[s] = 0
      BY <1>0, <1>6, <2>1, <3>2 DEF deallocate, poolVars
    <3>3. CASE semaphores[s] = 1
      <4>1. semaphores' = [semaphores EXCEPT ![s] = @ - 1]
        BY <1>6, <2>1, <3>3 DEF deallocate
      <4>2. QED
        BY <1>0, <3>3, <4>1
    <3>4. QED
      BY <3>1, <3>2, <3>3
  <2>3. sessionList' = sessionList
    BY <1>6 DEF deallocate
  <2>4. QED
    BY <1>2, <2>1, <2>2, <2>3 DEF AllocatedIsReapable
<1>7. CASE ~(InitSession(t) \/ List(t) \/ Delist(t) \/ deallocate(t))
  <2>1. /\ UNCHANGED <<semaphores, sessionList>>
        /\ \A op \in {"init", "list", "deallocate"} : ~At(t, op)
    BY <1>7, Step(t) DEF Step, CheckState, CalledFrom, CheckPeer, CallAccept,
       RequestEnableFrom, CallOff, AssignCallingSession, AssignState, StateOf,
       registerSession, Offer, DrainTcp, DrainUdp, unregisterSession, OnlyTodo,
       poolVars, At
  <2>2. QED
    BY <1>1, <2>1, ReapKept
<1>8. QED
  BY <1>3, <1>4, <1>5, <1>6, <1>7

LEMMA ReapNext == ReapInv /\ [Next]_vars => ReapInv'
<1> SUFFICES ASSUME ReapInv, [Next]_vars PROVE ReapInv'
  OBVIOUS
<1>0. TypeInv /\ TypeInv' /\ PoolConservation'
  BY NextType, PoolNext DEF ReapInv
<1>1. CASE Accept
  BY <1>0, <1>1, ReapAccept DEF ReapInv
<1>2. ASSUME NEW t \in Thread, Step(t) PROVE ReapInv'
  BY <1>0, <1>2, ReapStep DEF ReapInv
<1>3. ASSUME NEW h \in Handler, NEW s \in Session, Operation(h, s) PROVE ReapInv'
  <2>1. UNCHANGED <<semaphores, sessionList>>
    BY <1>3 DEF Operation, BYE, VersionError, Login, LoginAgain, CALL_TO, CALL_TO2,
       CALL_ACCEPT, ENABLE_FROM, CALL_OFF, Starts, poolVars
  <2>2. Moves(h) /\ Idle(h) /\ h \in Thread
    BY <1>0, <1>3, OperationMoves DEF Thread
  <2>3. QED
    BY <1>0, <2>1, <2>2, ReapKept DEF ReapInv, Idle, At
<1>4. CASE MonitorLoop
  <2>1. UNCHANGED <<semaphores, sessionList>>
    BY <1>4 DEF MonitorLoop, ScanSession, EndScan, DeleteInvalid, DeleteErroneous,
       EndErrors, OnlyTodo, poolVars
  <2>2. Moves(Monitor) /\ Idle(Monitor) /\ Monitor \in Thread
    BY <1>0, <1>4, MonitorMoves DEF Thread
  <2>3. QED
    BY <1>0, <2>1, <2>2, ReapKept DEF ReapInv, Idle, At
<1>5. CASE UNCHANGED vars
  BY <1>0, <1>5 DEF ReapInv, AllocatedIsReapable, About, At, Now, vars, poolVars
<1>6. QED
  BY <1>1, <1>2, <1>3, <1>4, <1>5 DEF Next

\* A session that is out of the pool can always be found and given back.
THEOREM NoSessionLeaks == Spec => []AllocatedIsReapable
<1>1. Init => ReapInv
  <2>1. Init => AllocatedIsReapable
    BY DEF Init, AllocatedIsReapable
  <2>2. QED
    BY <2>1, InitType, PoolInit DEF ReapInv
<1>2. ReapInv => AllocatedIsReapable
  BY DEF ReapInv
<1>3. QED
  BY <1>1, <1>2, ReapNext, PTL DEF Spec

-----------------------------------------------------------------------------
(***************************************************************************)
(* Registrations at the voice managers.                                    *)
(***************************************************************************)
RegInv == TypeInv /\ RegistrationTracked

Has(q, x) == \E i \in DOMAIN q : q[i] = x

\* Offering x keeps what is in the queue and adds x; polling removes only the head.
LEMMA HasAppended ==
  ASSUME NEW S, NEW q \in Seq(S), NEW x \in S
  PROVE  Has(Append(q, x), x)
<1>1. /\ Len(q) + 1 \in DOMAIN Append(q, x)
      /\ Append(q, x)[Len(q) + 1] = x
  OBVIOUS
<1>2. QED
  BY <1>1 DEF Has

LEMMA HasAppend ==
  ASSUME NEW S, NEW q \in Seq(S), NEW x \in S, NEW y, Has(q, y)
  PROVE  Has(Append(q, x), y)
<1>1. PICK i \in DOMAIN q : q[i] = y
  BY DEF Has
<1>2. i \in DOMAIN Append(q, x) /\ Append(q, x)[i] = y
  BY <1>1
<1>3. QED
  BY <1>2 DEF Has

LEMMA HasTail ==
  ASSUME NEW S, NEW q \in Seq(S), q # << >>, NEW y, Has(q, y), y # Head(q)
  PROVE  Has(Tail(q), y)
<1>1. PICK i \in DOMAIN q : q[i] = y
  BY DEF Has
<1>2. i \in 2..Len(q)
  BY <1>1
<1>3. i - 1 \in DOMAIN Tail(q) /\ Tail(q)[i - 1] = y
  BY <1>1, <1>2
<1>4. QED
  BY <1>3 DEF Has

LEMMA QueuedHas ==
  ASSUME NEW s, NEW m
  PROVE  /\ Queued(s, m)  <=> Has(voiceTcpManagerQueue[s], m) \/ Has(voiceUdpManagerQueue[s], m)
         /\ Queued(s, m)' <=> Has(voiceTcpManagerQueue'[s], m) \/ Has(voiceUdpManagerQueue'[s], m)
BY DEF Queued, Has

Tracked(s, m) ==
  \/ Queued(s, m)
  \/ \E t \in Thread : About(t, "offer", s, m) \/ About(t, "unregister", s, m)

\* A registration whose manager stays queued, or which is not what t is about,
\* stays tracked when t takes a step.
LEMMA TrackedKept ==
  ASSUME NEW t \in Thread, Moves(t), NEW s, NEW m, Tracked(s, m),
         Queued(s, m) => Tracked(s, m)',
         ~About(t, "offer", s, m), ~About(t, "unregister", s, m)
  PROVE  Tracked(s, m)'
<1>1. CASE Queued(s, m)
  BY <1>1
<1>2. ASSUME NEW u \in Thread, NEW op \in {"offer", "unregister"}, About(u, op, s, m)
      PROVE  Tracked(s, m)'
  <2>1. u # t
    BY <1>2
  <2>2. About(u, op, s, m)'
    BY <1>2, <2>1, AboutKept
  <2>3. QED
    BY <2>2 DEF Tracked
<1>3. QED
  BY <1>1, <1>2 DEF Tracked

\* A step of a thread that neither registers, polls nor unregisters.
LEMMA RegKept ==
  ASSUME RegInv, NEW t \in Thread, Moves(t), ~At(t, "offer"), ~At(t, "unregister"),
         UNCHANGED managerVars
  PROVE  RegistrationTracked'
<1>1. ASSUME NEW m \in Manager, NEW s \in activeSessionMap[m] PROVE Tracked(s, m)'
  <2>1. Tracked(s, m)
    BY DEF RegInv, RegistrationTracked, Tracked
  <2>2. Queued(s, m) => Tracked(s, m)'
    BY DEF Queued, Tracked, managerVars
  <2>3. QED
    BY <2>1, <2>2, TrackedKept DEF About
<1>2. QED
  BY <1>1 DEF RegistrationTracked, Tracked, managerVars

LEMMA RegisterKept ==
  ASSUME RegInv, NEW t \in Thread, Moves(t), registerSession(t)
  PROVE  RegistrationTracked'
<1>0. TypeInv /\ At(t, "register") /\ todo[t] # << >>
  BY DEF RegInv, registerSession, At
<1>1. PICK s \in Session, m \in Manager : s = Now(t).s /\ m = Now(t).x
  BY <1>0, ManagerArg DEF ManagerOps
<1>2. About(t, "offer", s, m)'
  <2>1. DoWith("offer", s, m) \in Instr
    BY DoManagerType DEF ManagerOps
  <2>2. Continue(t, <<DoWith("offer", s, m)>>)
    BY <1>1 DEF registerSession
  <2>3. QED
    BY <1>0, <2>1, <2>2, AboutNext DEF DoWith
<1>3. ASSUME NEW n \in Manager, NEW r \in activeSessionMap'[n], ~(r = s /\ n = m)
      PROVE  Tracked(r, n)'
  <2>1. r \in activeSessionMap[n]
    BY <1>0, <1>1, <1>3 DEF registerSession, TypeInv, TypeOK
  <2>2. Tracked(r, n)
    BY <2>1 DEF RegInv, RegistrationTracked, Tracked
  <2>3. Queued(r, n) => Tracked(r, n)'
    BY DEF Queued, Tracked, registerSession
  <2>4. QED
    BY <1>0, <2>2, <2>3, TrackedKept DEF About, At
<1>4. QED
  BY <1>2, <1>3 DEF RegistrationTracked, Tracked

LEMMA OfferKept ==
  ASSUME RegInv, NEW t \in Thread, Moves(t), Offer(t)
  PROVE  RegistrationTracked'
<1>0. TypeInv /\ At(t, "offer")
  BY DEF RegInv, Offer
<1>1. PICK s \in Session, m \in Manager : s = Now(t).s /\ m = Now(t).x
  BY <1>0, ManagerArg DEF ManagerOps
<1>2. /\ voiceTcpManagerQueue \in [Session -> Seq(TcpManager)]
      /\ voiceUdpManagerQueue \in [Session -> Seq(UdpManager)]
      /\ activeSessionMap' = activeSessionMap
      /\ activeSessionMap \in [Manager -> SUBSET Session]
  BY <1>0 DEF TypeInv, TypeOK, Offer
<1>3. Queued(s, m)'
  <2>1. CASE m \in TcpManager
    <3>1. voiceTcpManagerQueue'[s] = Append(voiceTcpManagerQueue[s], m)
      BY <1>1, <1>2, <2>1 DEF Offer
    <3>2. voiceTcpManagerQueue[s] \in Seq(TcpManager)
      BY <1>2
    <3>3. Has(voiceTcpManagerQueue'[s], m)
      BY <2>1, <3>1, <3>2, HasAppended
    <3>4. QED
      BY <3>3, QueuedHas
  <2>2. CASE m \notin TcpManager
    <3>1. voiceUdpManagerQueue'[s] = Append(voiceUdpManagerQueue[s], m)
      BY <1>1, <1>2, <2>2 DEF Offer
    <3>2. m \in UdpManager
      BY <2>2 DEF Manager
    <3>3. voiceUdpManagerQueue[s] \in Seq(UdpManager)
      BY <1>2
    <3>4. Has(voiceUdpManagerQueue'[s], m)
      BY <3>1, <3>2, <3>3, HasAppended
    <3>5. QED
      BY <3>4, QueuedHas
  <2>3. QED
    BY <2>1, <2>2
<1>4. ASSUME NEW n \in Manager, NEW r \in Session, Queued(r, n)
      PROVE  Queued(r, n)'
  <2>1. voiceTcpManagerQueue'[r] = voiceTcpManagerQueue[r]
          \/ /\ m \in TcpManager
             /\ voiceTcpManagerQueue'[r] = Append(voiceTcpManagerQueue[r], m)
    BY <1>1, <1>2 DEF Offer
  <2>2. voiceUdpManagerQueue'[r] = voiceUdpManagerQueue[r]
          \/ /\ m \in UdpManager
             /\ voiceUdpManagerQueue'[r] = Append(voiceUdpManagerQueue[r], m)
    BY <1>1, <1>2 DEF Offer, Manager
  <2>3. voiceTcpManagerQueue[r] \in Seq(TcpManager) /\ voiceUdpManagerQueue[r] \in Seq(UdpManager)
    BY <1>2
  <2>4. Has(voiceTcpManagerQueue[r], n) => Has(voiceTcpManagerQueue'[r], n)
    BY <2>1, <2>3, HasAppend
  <2>5. Has(voiceUdpManagerQueue[r], n) => Has(voiceUdpManagerQueue'[r], n)
    BY <2>2, <2>3, HasAppend
  <2>6. QED
    BY <1>4, <2>4, <2>5, QueuedHas
<1>5. ASSUME NEW n \in Manager, NEW r \in activeSessionMap[n]
      PROVE  Tracked(r, n)'
  <2>1. Tracked(r, n) /\ r \in Session
    BY <1>2 DEF RegInv, RegistrationTracked, Tracked
  <2>2. CASE About(t, "offer", r, n)
    BY <1>1, <1>3, <2>2 DEF About, Tracked
  <2>3. CASE ~About(t, "offer", r, n)
    BY <1>0, <1>4, <2>1, <2>3, TrackedKept DEF About, At, Tracked
  <2>4. QED
    BY <2>2, <2>3
<1>6. QED
  BY <1>2, <1>5 DEF RegistrationTracked, Tracked

LEMMA UnregisterKept ==
  ASSUME RegInv, NEW t \in Thread, Moves(t), unregisterSession(t)
  PROVE  RegistrationTracked'
<1>0. TypeInv /\ At(t, "unregister")
  BY DEF RegInv, unregisterSession
<1>1. PICK s \in Session, m \in Manager : s = Now(t).s /\ m = Now(t).x
  BY <1>0, ManagerArg DEF ManagerOps
<1>2. ASSUME NEW n \in Manager, NEW r \in activeSessionMap'[n]
      PROVE  Tracked(r, n)'
  <2>1. r \in activeSessionMap[n] /\ ~(r = s /\ n = m)
    BY <1>0, <1>1 DEF unregisterSession, TypeInv, TypeOK
  <2>2. Tracked(r, n)
    BY <2>1 DEF RegInv, RegistrationTracked, Tracked
  <2>3. Queued(r, n) => Tracked(r, n)'
    BY DEF Queued, Tracked, unregisterSession
  <2>4. QED
    BY <1>0, <1>1, <2>1, <2>2, <2>3, TrackedKept DEF About, At
<1>3. QED
  BY <1>2 DEF RegistrationTracked, Tracked

\* One poll: the manager polled is what the thread is about to unregister.
LEMMA DrainKept ==
  ASSUME RegInv, NEW t \in Thread, Moves(t), DrainTcp(t) \/ DrainUdp(t)
  PROVE  RegistrationTracked'
<1>0. TypeInv /\ ~At(t, "offer") /\ ~At(t, "unregister") /\ todo[t] # << >>
  BY DEF RegInv, DrainTcp, DrainUdp, At
<1>1. CASE UNCHANGED managerVars
  BY <1>0, <1>1, RegKept
<1>2. PICK s \in Session, j \in Instr : j = Now(t) /\ s = j.s
  <2>1. Now(t) \in Instr
    BY <1>0 DEF TypeInv, TypeOK, Now
  <2>2. Now(t).s \in Session
    BY <2>1 DEF Instr
  <2>3. QED
    BY <2>1, <2>2
<1>3. /\ voiceTcpManagerQueue[s] \in Seq(TcpManager)
      /\ voiceUdpManagerQueue[s] \in Seq(UdpManager)
      /\ activeSessionMap' = activeSessionMap
      /\ activeSessionMap \in [Manager -> SUBSET Session]
      /\ voiceTcpManagerQueue \in [Session -> Seq(TcpManager)]
      /\ voiceUdpManagerQueue \in [Session -> Seq(UdpManager)]
  BY <1>0 DEF TypeInv, TypeOK, DrainTcp, DrainUdp
<1>4. ASSUME NEW m \in Manager, Continue(t, <<DoWith("unregister", s, m), j>>),
             \A r, n : Queued(r, n) /\ ~(r = s /\ n = m) => Queued(r, n)'
      PROVE  RegistrationTracked'
  <2>1. DoWith("unregister", s, m) \in Instr
    BY DoManagerType DEF ManagerOps
  <2>2. About(t, "unregister", s, m)'
    BY <1>0, <1>2, <1>4, <2>1, AboutNext DEF DoWith
  <2>3. ASSUME NEW n \in Manager, NEW r \in activeSessionMap[n] PROVE Tracked(r, n)'
    <3>1. Tracked(r, n)
      BY DEF RegInv, RegistrationTracked, Tracked
    <3>2. CASE r = s /\ n = m
      BY <2>2, <3>2 DEF Tracked
    <3>3. CASE ~(r = s /\ n = m)
      <4>1. Queued(r, n) => Tracked(r, n)'
        BY <1>4, <3>3 DEF Tracked
      <4>2. QED
        BY <1>0, <3>1, <4>1, TrackedKept DEF About
    <3>4. QED
      BY <3>2, <3>3
  <2>4. QED
    BY <1>3, <2>3 DEF RegistrationTracked, Tracked
<1>5. CASE DrainTcp(t) /\ voiceTcpManagerQueue[s] # << >>
  <2>1. PICK m \in TcpManager : m = Head(voiceTcpManagerQueue[s])
    BY <1>3, <1>5
  <2>2. Continue(t, <<DoWith("unregister", s, m), j>>)
    BY <1>2, <1>5, <2>1 DEF DrainTcp
  <2>3. /\ voiceTcpManagerQueue' = [voiceTcpManagerQueue EXCEPT ![s] = Tail(@)]
        /\ voiceUdpManagerQueue' = voiceUdpManagerQueue
    BY <1>2, <1>5 DEF DrainTcp
  <2>4. ASSUME NEW r, NEW n, Queued(r, n), ~(r = s /\ n = m) PROVE Queued(r, n)'
    <3>1. CASE r = s
      <4>1. Has(voiceTcpManagerQueue[s], n) => Has(voiceTcpManagerQueue'[s], n)
        BY <1>3, <1>5, <2>1, <2>3, <2>4, <3>1, HasTail
      <4>2. QED
        BY <2>3, <2>4, <3>1, <4>1, QueuedHas
    <3>2. CASE r # s
      <4>1. voiceTcpManagerQueue'[r] = voiceTcpManagerQueue[r]
        BY <1>3, <2>3, <3>2
      <4>2. QED
        BY <2>3, <2>4, <4>1, QueuedHas
    <3>3. QED
      BY <3>1, <3>2
  <2>5. QED
    BY <1>4, <2>2, <2>4 DEF Manager
<1>6. CASE DrainUdp(t) /\ voiceUdpManagerQueue[s] # << >>
  <2>1. PICK m \in UdpManager : m = Head(voiceUdpManagerQueue[s])
    BY <1>3, <1>6
  <2>2. Continue(t, <<DoWith("unregister", s, m), j>>)
    BY <1>2, <1>6, <2>1 DEF DrainUdp
  <2>3. /\ voiceUdpManagerQueue' = [voiceUdpManagerQueue EXCEPT ![s] = Tail(@)]
        /\ voiceTcpManagerQueue' = voiceTcpManagerQueue
    BY <1>2, <1>6 DEF DrainUdp
  <2>4. ASSUME NEW r, NEW n, Queued(r, n), ~(r = s /\ n = m) PROVE Queued(r, n)'
    <3>1. CASE r = s
      <4>1. Has(voiceUdpManagerQueue[s], n) => Has(voiceUdpManagerQueue'[s], n)
        BY <1>3, <1>6, <2>1, <2>3, <2>4, <3>1, HasTail
      <4>2. QED
        BY <2>3, <2>4, <3>1, <4>1, QueuedHas
    <3>2. CASE r # s
      <4>1. voiceUdpManagerQueue'[r] = voiceUdpManagerQueue[r]
        BY <1>3, <2>3, <3>2
      <4>2. QED
        BY <2>3, <2>4, <4>1, QueuedHas
    <3>3. QED
      BY <3>1, <3>2
  <2>5. QED
    BY <1>4, <2>2, <2>4 DEF Manager
<1>7. CASE /\ DrainTcp(t) => voiceTcpManagerQueue[s] = << >>
           /\ DrainUdp(t) => voiceUdpManagerQueue[s] = << >>
  BY <1>1, <1>2, <1>7 DEF DrainTcp, DrainUdp, managerVars
<1>8. QED
  BY <1>5, <1>6, <1>7

LEMMA RegStep ==
  ASSUME RegInv, NEW t \in Thread, Moves(t), Step(t)
  PROVE  RegistrationTracked'
<1>1. CASE registerSession(t)
  BY <1>1, RegisterKept
<1>2. CASE Offer(t)
  BY <1>2, OfferKept
<1>3. CASE unregisterSession(t)
  BY <1>3, UnregisterKept
<1>4. CASE DrainTcp(t) \/ DrainUdp(t)
  BY <1>4, DrainKept
<1>5. CASE ~(registerSession(t) \/ Offer(t) \/ unregisterSession(t) \/ DrainTcp(t) \/ DrainUdp(t))
  <2>1. UNCHANGED managerVars /\ ~At(t, "offer") /\ ~At(t, "unregister")
    BY <1>5, Step(t) DEF Step, InitSession, List, CheckState, CalledFrom, CheckPeer,
       CallAccept, RequestEnableFrom, CallOff, AssignCallingSession, AssignState,
       StateOf, Delist, deallocate, OnlyTodo, At
  <2>2. QED
    BY <2>1, RegKept
<1>6. QED
  BY <1>1, <1>2, <1>3, <1>4, <1>5

LEMMA RegNext == RegInv /\ [Next]_vars => RegInv'
<1> SUFFICES ASSUME RegInv, [Next]_vars PROVE RegInv'
  OBVIOUS
<1>0. TypeInv /\ TypeInv'
  BY NextType DEF RegInv
<1>1. CASE Accept
  <2>1. UNCHANGED managerVars /\ Idle(Acceptor) /\ Acceptor \in Thread
    BY <1>1 DEF Accept, Thread
  <2>2. Moves(Acceptor)
    BY <1>0, <1>1, DoType DEF Accept, Moves, TypeInv, TypeOK
  <2>3. QED
    BY <1>0, <2>1, <2>2, RegKept DEF RegInv, Idle, At
<1>2. ASSUME NEW t \in Thread, Step(t) PROVE RegInv'
  BY <1>0, <1>2, StepMoves, RegStep DEF RegInv
<1>3. ASSUME NEW h \in Handler, NEW s \in Session, Operation(h, s) PROVE RegInv'
  <2>1. UNCHANGED managerVars
    BY <1>3 DEF Operation, BYE, VersionError, Login, LoginAgain, CALL_TO, CALL_TO2,
       CALL_ACCEPT, ENABLE_FROM, CALL_OFF, Starts
  <2>2. Moves(h) /\ Idle(h) /\ h \in Thread
    BY <1>0, <1>3, OperationMoves DEF Thread
  <2>3. QED
    BY <1>0, <2>1, <2>2, RegKept DEF RegInv, Idle, At
<1>4. CASE MonitorLoop
  <2>1. UNCHANGED managerVars
    BY <1>4 DEF MonitorLoop, ScanSession, EndScan, DeleteInvalid, DeleteErroneous,
       EndErrors, OnlyTodo
  <2>2. Moves(Monitor) /\ Idle(Monitor) /\ Monitor \in Thread
    BY <1>0, <1>4, MonitorMoves DEF Thread
  <2>3. QED
    BY <1>0, <2>1, <2>2, RegKept DEF RegInv, Idle, At
<1>5. CASE UNCHANGED vars
  BY <1>0, <1>5 DEF RegInv, RegistrationTracked, Queued, About, At, Now, vars, managerVars
<1>6. QED
  BY <1>1, <1>2, <1>3, <1>4, <1>5 DEF Next

\* Whatever the two parties' threads and the monitor do at once, a session that
\* a voice manager holds is one that somebody will take off it.
THEOREM RegistrationsTracked == Spec => []RegistrationTracked
<1>1. Init => RegInv
  <2>1. Init => RegistrationTracked
    BY DEF Init, RegistrationTracked
  <2>2. QED
    BY <2>1, InitType DEF RegInv
<1>2. RegInv => RegistrationTracked
  BY DEF RegInv
<1>3. QED
  BY <1>1, <1>2, RegNext, PTL DEF Spec
=============================================================================
