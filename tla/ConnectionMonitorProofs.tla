----------------------- MODULE ConnectionMonitorProofs -----------------------
(***************************************************************************)
(* Proofs about ConnectionMonitor, for any number of sessions, handlers,   *)
(* addresses and errors, and all periods that the assumption admits.       *)
(*                                                                         *)
(* Two arguments.  The clocks of client and server are compared while the  *)
(* beat is at rest, on its way, or answered (Clocks).  And each session    *)
(* that no closing has crossed is followed from the pool through its       *)
(* acceptance and its connection to its last closing (Life), whichever     *)
(* threads count errors for it or close it meanwhile.                      *)
(***************************************************************************)
EXTENDS ConnectionMonitor, TLAPS

AcceptPlaces == {"putIP", "register", "list"}
ClosingPlaces == {"callOff", "removeIP", "clearIP", "removeErrors", "deallocate"}
Working == AcceptPlaces \cup ClosingPlaces \cup {"count"}

USE ThreadAssumption, NoneAssumption, ErrorAssumption, TimeAssumption
    DEF Thread, Goto, Leave, AcceptPlaces, ClosingPlaces, Working

SessionTypes ==
  /\ inUse \subseteq Session /\ crossed \subseteq Session
  /\ sessionList \in [Session -> Nat]
  /\ state \in [Session -> {"INITED", "STARTED", "ENDED"}]
  /\ ipLong \in [Session -> Address \cup {None}]
  /\ address \in [Session -> Address \cup {None}]
  /\ sessionHandler \in [Session -> Handler \cup {None}]

MapTypes ==
  /\ connectedIPMap \in [Address -> [Session -> Nat]]
  /\ errorCountMap \in [Session -> Nat \cup {None}]
  /\ made \in [Session -> Nat]
  /\ errorLock \in BOOLEAN
  /\ errorLock => at[Monitor] \in {"errors"} \cup ClosingPlaces
  /\ invalidSessionQueue \in Seq(Session)
  /\ unseen \subseteq Session

ThreadTypes ==
  /\ at \in [Thread -> {"loop", "scan", "delete", "errors", "dead"} \cup Working]
  /\ session \in [Thread -> Session \cup {None}]
  /\ addCount \in [Thread -> Nat]
  /\ \A t \in Thread : at[t] \in Working => session[t] \in Session

ClientTypes ==
  /\ alive \subseteq Session
  /\ connectTime \in [Session -> 0..SESSION_START_TIME + 1]
  /\ lastHeartBeatTime \in [Session -> 0..HEART_BEAT_TIME_OUT + 1]
  /\ heard \in [Session -> Nat]
  /\ beat \in [Session -> {"none", "asked", "answered"}]
  /\ sent \in [Session -> 0..DELAY]

TypeInv == SessionTypes /\ MapTypes /\ ThreadTypes /\ ClientTypes

-----------------------------------------------------------------------------
(***************************************************************************)
(* The clocks.                                                             *)
(***************************************************************************)

\* A client that waits has heard from the server as long ago as the server from it, but
\* for the answer's way; one that has asked waits for a beat on its way, and then for
\* the answer.
Clocks ==
  \A s \in alive :
    /\ beat[s] = "none" =>
         /\ lastHeartBeatTime[s] <= heard[s] + DELAY
         /\ heard[s] <= HEART_BEAT_PERIOD + LOOP
    /\ beat[s] = "asked" =>
         /\ lastHeartBeatTime[s] <= heard[s] + DELAY
         /\ heard[s] <= HEART_BEAT_PERIOD + LOOP + sent[s]
    /\ beat[s] = "answered" =>
         /\ lastHeartBeatTime[s] <= sent[s]
         /\ heard[s] <= HEART_BEAT_PERIOD + LOOP + DELAY + sent[s]

-----------------------------------------------------------------------------
(***************************************************************************)
(* The life of a session.                                                  *)
(***************************************************************************)
Accepting(s) == session[Reader] = s /\ at[Reader] \in AcceptPlaces
Busy(t, s) == session[t] = s /\ at[t] \in Working
Pending(t, s) == IF session[t] = s /\ at[t] = "count" THEN addCount[t] ELSE 0
Unlisted(s) == \A a \in Address : connectedIPMap[a][s] = 0
Admitted(s) ==
  /\ s \in inUse /\ address[s] \in Address
  /\ ipLong[s] = address[s] /\ connectedIPMap[address[s]][s] = 1

\* In the pool nothing is kept of it.
Pooled(s) == s \notin inUse => state[s] = "ENDED" /\ errorCountMap[s] = None /\ Unlisted(s)

\* While it is accepted, no other thread has to do with it.
Accepted(s) ==
  Accepting(s) =>
    /\ s \in inUse /\ state[s] = "ENDED" /\ sessionHandler[s] \in Handler
    /\ address[s] \in Address /\ ipLong[s] = address[s]
    /\ \A t \in Thread \ {Reader} : ~ Busy(t, s)
    /\ at[Reader] = "putIP" => Unlisted(s)
    /\ at[Reader] # "putIP" => Admitted(s)
    /\ at[Reader] = "list" => errorCountMap[s] = 0 /\ made[s] = 0

\* It is known at its address only, and only once.
OneAddress(s) ==
  \A a \in Address : connectedIPMap[a][s] # 0 =>
    connectedIPMap[a][s] = 1 /\ a = address[s] /\ a = ipLong[s]

\* While it is open, its errors are the pending ones and those in the map.
Open(s) ==
  state[s] # "ENDED" =>
    /\ Admitted(s) /\ sessionHandler[s] \in Handler
    /\ errorCountMap[s] \in Nat
    /\ made[s] = errorCountMap[s] + Pending(Reader, s) + Pending(sessionHandler[s], s)

\* Who closes it finds it ended, and leaves nothing behind.
Closed(s) ==
  \A t \in Thread : session[t] = s =>
    /\ at[t] \in ClosingPlaces => state[s] = "ENDED"
    /\ at[t] \in {"clearIP", "removeErrors", "deallocate"} => Unlisted(s)
    /\ at[t] = "deallocate" => errorCountMap[s] = None
    /\ at[t] = "count" => t \in {Reader, sessionHandler[s]}

Life(s) == Pooled(s) /\ Accepted(s) /\ OneAddress(s) /\ Open(s) /\ Closed(s)

LifeInv == \A s \in Session \ crossed : Life(s)

\* The inductive invariant.
IInv == TypeInv /\ Clocks /\ LifeInv
-----------------------------------------------------------------------------
(***************************************************************************)
(* Each step keeps the types.                                              *)
(***************************************************************************)

LEMMA Emptied ==
  ASSUME NEW q \in Seq(Session), q # << >>
  PROVE  Head(q) \in Session /\ Tail(q) \in Seq(Session)
OBVIOUS

LEMMA allocateTyped ==
  ASSUME TypeInv, NEW s \in Session, NEW a \in Address, NEW h \in Handler, allocate(s, a, h)
  PROVE  TypeInv'
<1>1. SessionTypes'
  BY DEF TypeInv, SessionTypes, allocate, Cross
<1>2. MapTypes'
  BY DEF TypeInv, MapTypes, allocate, maps, monitorVars
<1>3. ThreadTypes'
  BY DEF TypeInv, ThreadTypes, allocate
<1>4. ClientTypes'
  BY DEF TypeInv, ClientTypes, allocate, Gone
<1>5. QED
  BY <1>1, <1>2, <1>3, <1>4 DEF TypeInv

LEMMA putConnectedIPTyped ==
  ASSUME TypeInv, putConnectedIP
  PROVE  TypeInv'
<1>1. SessionTypes'
  BY DEF TypeInv, SessionTypes, putConnectedIP, sessionVars
<1>2. MapTypes'
  BY DEF TypeInv, MapTypes, ThreadTypes, putConnectedIP, monitorVars
<1>3. ThreadTypes'
  BY DEF TypeInv, ThreadTypes, putConnectedIP
<1>4. ClientTypes'
  BY DEF TypeInv, ClientTypes, putConnectedIP, clientVars, serverClocks
<1>5. QED
  BY <1>1, <1>2, <1>3, <1>4 DEF TypeInv

LEMMA registerErrorCountTyped ==
  ASSUME TypeInv, registerErrorCount
  PROVE  TypeInv'
<1>1. SessionTypes'
  BY DEF TypeInv, SessionTypes, registerErrorCount, sessionVars
<1>2. MapTypes'
  BY DEF TypeInv, MapTypes, ThreadTypes, registerErrorCount, monitorVars
<1>3. ThreadTypes'
  BY DEF TypeInv, ThreadTypes, registerErrorCount
<1>4. ClientTypes'
  BY DEF TypeInv, ClientTypes, registerErrorCount, clientVars, serverClocks
<1>5. QED
  BY <1>1, <1>2, <1>3, <1>4 DEF TypeInv

LEMMA ListTyped ==
  ASSUME TypeInv, List
  PROVE  TypeInv'
<1>1. SessionTypes'
  BY DEF TypeInv, SessionTypes, ThreadTypes, List
<1>2. MapTypes'
  BY DEF TypeInv, MapTypes, List, maps, monitorVars
<1>3. ThreadTypes'
  BY DEF TypeInv, ThreadTypes, List
<1>4. ClientTypes'
  BY DEF TypeInv, ThreadTypes, ClientTypes, List
<1>5. QED
  BY <1>1, <1>2, <1>3, <1>4 DEF TypeInv

LEMMA BeatTyped ==
  ASSUME TypeInv, NEW s \in Session, Beat(s)
  PROVE  TypeInv'
<1>1. SessionTypes'
  BY DEF TypeInv, SessionTypes, Beat, sessionVars
<1>2. MapTypes'
  BY DEF TypeInv, MapTypes, Beat, maps, monitorVars, threadVars
<1>3. ThreadTypes'
  BY DEF TypeInv, ThreadTypes, Beat, threadVars
<1>4. ClientTypes'
  BY DEF TypeInv, ClientTypes, Beat, serverClocks
<1>5. QED
  BY <1>1, <1>2, <1>3, <1>4 DEF TypeInv

LEMMA HearTyped ==
  ASSUME TypeInv, NEW s \in Session, Hear(s)
  PROVE  TypeInv'
<1>1. SessionTypes'
  BY DEF TypeInv, SessionTypes, Hear, sessionVars
<1>2. MapTypes'
  BY DEF TypeInv, MapTypes, Hear, maps, monitorVars, threadVars
<1>3. ThreadTypes'
  BY DEF TypeInv, ThreadTypes, Hear, threadVars
<1>4. ClientTypes'
  BY DEF TypeInv, ClientTypes, Hear, serverClocks
<1>5. QED
  BY <1>1, <1>2, <1>3, <1>4 DEF TypeInv

LEMMA LoseTyped ==
  ASSUME TypeInv, NEW s \in Session, Lose(s)
  PROVE  TypeInv'
<1>1. SessionTypes'
  BY DEF TypeInv, SessionTypes, Lose, sessionVars
<1>2. MapTypes'
  BY DEF TypeInv, MapTypes, Lose, maps, monitorVars, threadVars
<1>3. ThreadTypes'
  BY DEF TypeInv, ThreadTypes, Lose, threadVars
<1>4. ClientTypes'
  BY DEF TypeInv, ClientTypes, Lose, Gone, serverClocks
<1>5. QED
  BY <1>1, <1>2, <1>3, <1>4 DEF TypeInv

LEMMA TickTyped ==
  ASSUME TypeInv, Tick
  PROVE  TypeInv'
<1>1. SessionTypes'
  BY DEF TypeInv, SessionTypes, Tick, sessionVars
<1>2. MapTypes'
  BY DEF TypeInv, MapTypes, Tick, maps, monitorVars, threadVars
<1>3. ThreadTypes'
  BY DEF TypeInv, ThreadTypes, Tick, threadVars
<1>4. ClientTypes'
  <2>1. alive' \subseteq Session /\ beat' \in [Session -> {"none", "asked", "answered"}]
    BY DEF TypeInv, ClientTypes, Tick
  <2>2. connectTime' \in [Session -> 0..SESSION_START_TIME + 1]
    BY DEF TypeInv, ClientTypes, Tick, Later
  <2>3. lastHeartBeatTime' \in [Session -> 0..HEART_BEAT_TIME_OUT + 1]
    BY DEF TypeInv, ClientTypes, Tick, Later
  <2>4. heard' \in [Session -> Nat]
    BY DEF TypeInv, ClientTypes, Tick
  <2>5. sent' \in [Session -> 0..DELAY]
    BY DEF TypeInv, ClientTypes, Tick, Timely
  <2>6. QED
    BY <2>1, <2>2, <2>3, <2>4, <2>5 DEF ClientTypes
<1>5. QED
  BY <1>1, <1>2, <1>3, <1>4 DEF TypeInv

LEMMA HEART_BEATTyped ==
  ASSUME TypeInv, NEW h \in Handler, NEW s \in Session, HEART_BEAT(h, s)
  PROVE  TypeInv'
<1>1. SessionTypes'
  BY DEF TypeInv, SessionTypes, HEART_BEAT, sessionVars
<1>2. MapTypes'
  BY DEF TypeInv, MapTypes, HEART_BEAT, maps, monitorVars, threadVars
<1>3. ThreadTypes'
  BY DEF TypeInv, ThreadTypes, HEART_BEAT, threadVars
<1>4. ClientTypes'
  BY DEF TypeInv, ClientTypes, HEART_BEAT
<1>5. QED
  BY <1>1, <1>2, <1>3, <1>4 DEF TypeInv

LEMMA PUT_PRANKKEYTyped ==
  ASSUME TypeInv, NEW h \in Handler, NEW s \in Session, PUT_PRANKKEY(h, s)
  PROVE  TypeInv'
<1>1. SessionTypes'
  BY DEF TypeInv, SessionTypes, PUT_PRANKKEY
<1>2. MapTypes'
  BY DEF TypeInv, MapTypes, PUT_PRANKKEY, maps, monitorVars, threadVars
<1>3. ThreadTypes'
  BY DEF TypeInv, ThreadTypes, PUT_PRANKKEY, threadVars
<1>4. ClientTypes'
  BY DEF TypeInv, ClientTypes, PUT_PRANKKEY, clientVars, serverClocks
<1>5. QED
  BY <1>1, <1>2, <1>3, <1>4 DEF TypeInv

LEMMA BYETyped ==
  ASSUME TypeInv, NEW h \in Handler, NEW s \in Session, BYE(h, s)
  PROVE  TypeInv'
<1>1. SessionTypes'
  BY DEF TypeInv, SessionTypes, BYE, closeSession, Cross
<1>2. MapTypes'
  BY DEF TypeInv, MapTypes, BYE, closeSession, maps, monitorVars
<1>3. ThreadTypes'
  BY DEF TypeInv, ThreadTypes, BYE, closeSession
<1>4. ClientTypes'
  BY DEF TypeInv, ClientTypes, BYE, closeSession, Gone, serverClocks
<1>5. QED
  BY <1>1, <1>2, <1>3, <1>4 DEF TypeInv

LEMMA addErrorCountTyped ==
  ASSUME TypeInv, NEW t \in Thread, NEW s \in Session, addErrorCount(t, s)
  PROVE  TypeInv'
<1>1. SessionTypes'
  BY DEF TypeInv, SessionTypes, addErrorCount, sessionVars
<1>2. MapTypes'
  BY DEF TypeInv, MapTypes, addErrorCount, monitorVars
<1>3. ThreadTypes'
  BY DEF TypeInv, ThreadTypes, addErrorCount
<1>4. ClientTypes'
  BY DEF TypeInv, ClientTypes, addErrorCount, clientVars, serverClocks
<1>5. QED
  BY <1>1, <1>2, <1>3, <1>4 DEF TypeInv

LEMMA CountTyped ==
  ASSUME TypeInv, NEW t \in Thread, Count(t)
  PROVE  TypeInv'
<1>1. SessionTypes'
  BY DEF TypeInv, SessionTypes, Count, sessionVars
<1>2. MapTypes'
  <2> DEFINE s == session[t]
  <2>1. s \in Session /\ addCount[t] \in Nat
    BY DEF TypeInv, ThreadTypes, Count
  <2>2. errorCountMap' \in [Session -> Nat \cup {None}]
    BY <2>1 DEF TypeInv, MapTypes, Count
  <2>3. errorLock => at'[Monitor] = at[Monitor]
    BY DEF TypeInv, MapTypes, Count
  <2>4. QED
    BY <2>2, <2>3 DEF TypeInv, MapTypes, Count, monitorVars
<1>3. ThreadTypes'
  BY DEF TypeInv, ThreadTypes, Count
<1>4. ClientTypes'
  BY DEF TypeInv, ClientTypes, Count, clientVars, serverClocks
<1>5. QED
  BY <1>1, <1>2, <1>3, <1>4 DEF TypeInv

LEMMA queueInvalidSessionTyped ==
  ASSUME TypeInv, NEW s \in Session, queueInvalidSession(s)
  PROVE  TypeInv'
<1>1. SessionTypes'
  BY DEF TypeInv, SessionTypes, queueInvalidSession, sessionVars
<1>2. MapTypes'
  BY DEF TypeInv, MapTypes, queueInvalidSession, maps, threadVars
<1>3. ThreadTypes'
  BY DEF TypeInv, ThreadTypes, queueInvalidSession, threadVars
<1>4. ClientTypes'
  BY DEF TypeInv, ClientTypes, queueInvalidSession, clientVars, serverClocks
<1>5. QED
  BY <1>1, <1>2, <1>3, <1>4 DEF TypeInv

LEMMA DieTyped ==
  ASSUME TypeInv, NEW t \in Thread, Die(t)
  PROVE  TypeInv'
<1>1. SessionTypes'
  BY DEF TypeInv, SessionTypes, Die, sessionVars
<1>2. MapTypes'
  BY DEF TypeInv, MapTypes, ThreadTypes, Die, monitorVars
<1>3. ThreadTypes'
  BY DEF TypeInv, ThreadTypes, Die
<1>4. ClientTypes'
  BY DEF TypeInv, ClientTypes, Die, Gone, serverClocks
<1>5. QED
  BY <1>1, <1>2, <1>3, <1>4 DEF TypeInv

LEMMA TestIPTyped ==
  ASSUME TypeInv, NEW t \in Thread, TestIP(t)
  PROVE  TypeInv'
<1>1. SessionTypes'
  BY DEF TypeInv, SessionTypes, TestIP, sessionVars
<1>2. MapTypes'
  BY DEF TypeInv, MapTypes, TestIP, maps, monitorVars
<1>3. ThreadTypes'
  BY DEF TypeInv, ThreadTypes, TestIP
<1>4. ClientTypes'
  BY DEF TypeInv, ClientTypes, TestIP, clientVars, serverClocks
<1>5. QED
  BY <1>1, <1>2, <1>3, <1>4 DEF TypeInv

LEMMA removeConnectedIPTyped ==
  ASSUME TypeInv, NEW t \in Thread, removeConnectedIP(t)
  PROVE  TypeInv'
<1>1. SessionTypes'
  BY DEF TypeInv, SessionTypes, removeConnectedIP, sessionVars
<1>2. MapTypes'
  BY DEF TypeInv, MapTypes, ThreadTypes, removeConnectedIP, monitorVars
<1>3. ThreadTypes'
  BY DEF TypeInv, ThreadTypes, removeConnectedIP
<1>4. ClientTypes'
  BY DEF TypeInv, ClientTypes, removeConnectedIP, clientVars, serverClocks
<1>5. QED
  BY <1>1, <1>2, <1>3, <1>4 DEF TypeInv

LEMMA ClearIPTyped ==
  ASSUME TypeInv, NEW t \in Thread, ClearIP(t)
  PROVE  TypeInv'
<1>1. SessionTypes'
  BY DEF TypeInv, SessionTypes, ClearIP
<1>2. MapTypes'
  BY DEF TypeInv, MapTypes, ClearIP, maps, monitorVars
<1>3. ThreadTypes'
  BY DEF TypeInv, ThreadTypes, ClearIP
<1>4. ClientTypes'
  BY DEF TypeInv, ClientTypes, ClearIP, clientVars, serverClocks
<1>5. QED
  BY <1>1, <1>2, <1>3, <1>4 DEF TypeInv

LEMMA removeSessionInErrorCountMapTyped ==
  ASSUME TypeInv, NEW t \in Thread, removeSessionInErrorCountMap(t)
  PROVE  TypeInv'
<1>1. SessionTypes'
  BY DEF TypeInv, SessionTypes, removeSessionInErrorCountMap, sessionVars
<1>2. MapTypes'
  BY DEF TypeInv, MapTypes, ThreadTypes, removeSessionInErrorCountMap, monitorVars
<1>3. ThreadTypes'
  BY DEF TypeInv, ThreadTypes, removeSessionInErrorCountMap
<1>4. ClientTypes'
  BY DEF TypeInv, ClientTypes, removeSessionInErrorCountMap, clientVars, serverClocks
<1>5. QED
  BY <1>1, <1>2, <1>3, <1>4 DEF TypeInv

LEMMA DeallocateTyped ==
  ASSUME TypeInv, NEW t \in Thread, Deallocate(t)
  PROVE  TypeInv'
<1>1. SessionTypes'
  BY DEF TypeInv, SessionTypes, ThreadTypes, Deallocate
<1>2. MapTypes'
  BY DEF TypeInv, MapTypes, ThreadTypes, Deallocate, monitorVars
<1>3. ThreadTypes'
  BY DEF TypeInv, ThreadTypes, Deallocate
<1>4. ClientTypes'
  BY DEF TypeInv, ClientTypes, Deallocate, clientVars, serverClocks
<1>5. QED
  BY <1>1, <1>2, <1>3, <1>4 DEF TypeInv

LEMMA ScanTyped ==
  ASSUME TypeInv, NEW s \in Session, Scan(s)
  PROVE  TypeInv'
<1>1. SessionTypes'
  BY DEF TypeInv, SessionTypes, Scan, sessionVars
<1>2. MapTypes'
  BY DEF TypeInv, MapTypes, Scan, Once, maps
<1>3. ThreadTypes'
  BY DEF TypeInv, ThreadTypes, Scan, threadVars
<1>4. ClientTypes'
  BY DEF TypeInv, ClientTypes, Scan, clientVars, serverClocks
<1>5. QED
  BY <1>1, <1>2, <1>3, <1>4 DEF TypeInv

LEMMA EndScanTyped ==
  ASSUME TypeInv, EndScan
  PROVE  TypeInv'
<1>1. SessionTypes'
  BY DEF TypeInv, SessionTypes, EndScan, sessionVars
<1>2. MapTypes'
  BY DEF TypeInv, MapTypes, EndScan, maps, monitorVars
<1>3. ThreadTypes'
  BY DEF TypeInv, ThreadTypes, EndScan
<1>4. ClientTypes'
  BY DEF TypeInv, ClientTypes, EndScan, clientVars, serverClocks
<1>5. QED
  BY <1>1, <1>2, <1>3, <1>4 DEF TypeInv

LEMMA DeleteInvalidTyped ==
  ASSUME TypeInv, DeleteInvalid
  PROVE  TypeInv'
<1>1. PICK s \in Session : closeSession(Monitor, s)
  BY Emptied DEF TypeInv, MapTypes, DeleteInvalid
<1>2. /\ invalidSessionQueue' \in Seq(Session)
      /\ UNCHANGED <<inUse, sessionList, ipLong, sessionHandler, address, maps, unseen, addCount,
                     serverClocks>>
  BY Emptied DEF TypeInv, MapTypes, DeleteInvalid
<1>3. SessionTypes'
  BY <1>1, <1>2 DEF TypeInv, SessionTypes, closeSession, Cross
<1>4. MapTypes'
  BY <1>1, <1>2 DEF TypeInv, MapTypes, ThreadTypes, closeSession, maps
<1>5. ThreadTypes'
  BY <1>1, <1>2 DEF TypeInv, ThreadTypes, closeSession
<1>6. ClientTypes'
  BY <1>1, <1>2 DEF TypeInv, ClientTypes, closeSession, Gone, serverClocks
<1>7. QED
  BY <1>3, <1>4, <1>5, <1>6 DEF TypeInv

LEMMA EndDeleteTyped ==
  ASSUME TypeInv, EndDelete
  PROVE  TypeInv'
<1>1. SessionTypes'
  BY DEF TypeInv, SessionTypes, EndDelete, sessionVars
<1>2. MapTypes'
  BY DEF TypeInv, MapTypes, ThreadTypes, EndDelete, monitorVars
<1>3. ThreadTypes'
  BY DEF TypeInv, ThreadTypes, EndDelete
<1>4. ClientTypes'
  BY DEF TypeInv, ClientTypes, EndDelete, clientVars, serverClocks
<1>5. QED
  BY <1>1, <1>2, <1>3, <1>4 DEF TypeInv

LEMMA DeleteErroneousTyped ==
  ASSUME TypeInv, NEW s \in Session, DeleteErroneous(s)
  PROVE  TypeInv'
<1>1. SessionTypes'
  BY DEF TypeInv, SessionTypes, DeleteErroneous, closeSession, Cross
<1>2. MapTypes'
  BY DEF TypeInv, MapTypes, DeleteErroneous, closeSession, maps, monitorVars
<1>3. ThreadTypes'
  BY DEF TypeInv, ThreadTypes, DeleteErroneous, closeSession
<1>4. ClientTypes'
  BY DEF TypeInv, ClientTypes, DeleteErroneous, closeSession, Gone, serverClocks
<1>5. QED
  BY <1>1, <1>2, <1>3, <1>4 DEF TypeInv

LEMMA EndErrorsTyped ==
  ASSUME TypeInv, EndErrors
  PROVE  TypeInv'
<1>1. SessionTypes'
  BY DEF TypeInv, SessionTypes, EndErrors, sessionVars
<1>2. MapTypes'
  BY DEF TypeInv, MapTypes, EndErrors
<1>3. ThreadTypes'
  BY DEF TypeInv, ThreadTypes, EndErrors
<1>4. ClientTypes'
  BY DEF TypeInv, ClientTypes, EndErrors, clientVars, serverClocks
<1>5. QED
  BY <1>1, <1>2, <1>3, <1>4 DEF TypeInv



-----------------------------------------------------------------------------
(***************************************************************************)
(* A session's life goes on through steps that have nothing to do with it. *)
(***************************************************************************)
Aside(t, s) ==
  \/ at'[t] = at[t] /\ session'[t] = session[t] /\ addCount'[t] = addCount[t]
  \/ ~ Busy(t, s) /\ ~ Busy(t, s)'

Same(s) ==
  /\ s \in inUse' <=> s \in inUse
  /\ state'[s] = state[s] /\ ipLong'[s] = ipLong[s] /\ address'[s] = address[s]
  /\ sessionHandler'[s] = sessionHandler[s]
  /\ errorCountMap'[s] = errorCountMap[s] /\ made'[s] = made[s]
  /\ \A a \in Address : connectedIPMap'[a][s] = connectedIPMap[a][s]

LEMMA Untouched ==
  ASSUME NEW s \in Session, Life(s), Same(s), \A t \in Thread : Aside(t, s)
  PROVE  Life(s)'
<1>1. \A t \in Thread : Busy(t, s)' <=> Busy(t, s)
  BY DEF Aside, Busy
<1>2. \A t \in Thread : Busy(t, s) => at'[t] = at[t] /\ addCount'[t] = addCount[t]
  BY DEF Aside
<1>3. \A t \in Thread : Pending(t, s)' = Pending(t, s)
  BY DEF Aside, Busy, Pending
<1>4. (Accepting(s)' <=> Accepting(s)) /\ (Accepting(s) => at'[Reader] = at[Reader])
  BY <1>1, <1>2 DEF Busy, Accepting
<1>5. (Unlisted(s)' <=> Unlisted(s)) /\ (Admitted(s)' <=> Admitted(s))
  BY DEF Same, Unlisted, Admitted
<1>6. Pooled(s)'
  BY <1>5 DEF Life, Pooled, Same
<1>7. Accepted(s)'
  BY <1>1, <1>4, <1>5 DEF Life, Accepted, Same
<1>8. OneAddress(s)'
  BY DEF Life, OneAddress, Same
<1>9. Open(s)'
  <2>1. state[s] # "ENDED" =>
          /\ Pending(Reader, s)' = Pending(Reader, s)
          /\ Pending(sessionHandler[s], s)' = Pending(sessionHandler[s], s)
          /\ sessionHandler'[s] = sessionHandler[s]
    BY <1>3 DEF Life, Open, Same
  <2>2. QED
    BY <1>5, <2>1 DEF Life, Open, Same
<1>10. Closed(s)'
  <2> SUFFICES ASSUME NEW t \in Thread, session'[t] = s, at'[t] \in Working
               PROVE  session[t] = s /\ at'[t] = at[t]
    BY <1>5 DEF Life, Closed, Same
  <2>1. QED
    BY DEF Aside, Busy
<1>11. QED
  BY <1>6, <1>7, <1>8, <1>9, <1>10 DEF Life

LEMMA allocateLives ==
  ASSUME TypeInv, LifeInv, NEW r \in Session, NEW a \in Address, NEW h \in Handler, allocate(r, a, h)
  PROVE  LifeInv'
<1> SUFFICES ASSUME NEW s \in Session, s \notin crossed'
             PROVE  Life(s)'
  BY DEF LifeInv
<1>1. Life(s)
  BY DEF LifeInv, allocate, Cross
<1>2. CASE s # r
  <2>1. Same(s)
    BY <1>2 DEF Same, allocate, maps
  <2>2. \A t \in Thread : Aside(t, s)
    BY <1>2 DEF TypeInv, ThreadTypes, Aside, Busy, allocate
  <2>3. QED
    BY <1>1, <2>1, <2>2, Untouched
<1>3. CASE s = r
  <2>1. \A t \in Thread : ~ Busy(t, s)
    BY <1>3 DEF allocate, Cross, Works, Busy
  <2>2. state[s] = "ENDED" /\ errorCountMap[s] = None /\ Unlisted(s)
    BY <1>1, <1>3 DEF Life, Pooled, allocate
  <2>3. Pooled(s)'
    BY <1>1, <1>3, <2>1, <2>2 DEF Pooled, allocate
  <2>4. Accepted(s)'
    BY <1>1, <1>3, <2>1, <2>2 DEF TypeInv, SessionTypes, Accepted, Accepting, Busy,
        Unlisted, allocate, maps
  <2>5. OneAddress(s)'
    BY <1>1, <1>3, <2>1, <2>2 DEF OneAddress, Unlisted, allocate, maps
  <2>6. Open(s)'
    BY <1>1, <1>3, <2>1, <2>2 DEF Open, allocate
  <2>7. Closed(s)'
    BY <1>1, <1>3, <2>1, <2>2 DEF Closed, Busy, allocate
  <2>8. QED
    BY <2>3, <2>4, <2>5, <2>6, <2>7 DEF Life
<1>4. QED
  BY <1>2, <1>3

LEMMA putConnectedIPLives ==
  ASSUME TypeInv, LifeInv, putConnectedIP
  PROVE  LifeInv'
<1> SUFFICES ASSUME NEW s \in Session, s \notin crossed'
             PROVE  Life(s)'
  BY DEF LifeInv
<1>1. Life(s)
  BY DEF LifeInv, putConnectedIP
<1>2. CASE s # session[Reader]
  <2>1. Same(s)
    BY <1>2 DEF Same, putConnectedIP, sessionVars
  <2>2. \A t \in Thread : Aside(t, s)
    BY <1>2 DEF Aside, Busy, putConnectedIP
  <2>3. QED
    BY <1>1, <2>1, <2>2, Untouched
<1>3. CASE s = session[Reader]
  <2>1. Pooled(s)'
    BY <1>1, <1>3 DEF Life, Pooled, Accepted, Accepting, putConnectedIP, sessionVars
  <2>2. Accepted(s)'
    BY <1>1, <1>3 DEF TypeInv, MapTypes, ThreadTypes, Life, Accepted, Accepting, Busy,
        Unlisted, Admitted, putConnectedIP, sessionVars
  <2>3. OneAddress(s)'
    BY <1>1, <1>3 DEF Life, Accepted, OneAddress, Accepting, Unlisted, putConnectedIP,
        sessionVars
  <2>4. Open(s)'
    BY <1>1, <1>3 DEF Life, Accepted, Open, Accepting, putConnectedIP, sessionVars
  <2>5. Closed(s)'
    BY <1>1, <1>3 DEF Life, Accepted, Closed, Accepting, Busy, putConnectedIP
  <2>6. QED
    BY <2>1, <2>2, <2>3, <2>4, <2>5 DEF Life
<1>4. QED
  BY <1>2, <1>3

LEMMA registerErrorCountLives ==
  ASSUME TypeInv, LifeInv, registerErrorCount
  PROVE  LifeInv'
<1> SUFFICES ASSUME NEW s \in Session, s \notin crossed'
             PROVE  Life(s)'
  BY DEF LifeInv
<1>1. Life(s)
  BY DEF LifeInv, registerErrorCount
<1>2. CASE s # session[Reader]
  <2>1. Same(s)
    BY <1>2 DEF Same, registerErrorCount, sessionVars
  <2>2. \A t \in Thread : Aside(t, s)
    BY <1>2 DEF Aside, Busy, registerErrorCount
  <2>3. QED
    BY <1>1, <2>1, <2>2, Untouched
<1>3. CASE s = session[Reader]
  <2>1. Pooled(s)'
    BY <1>1, <1>3 DEF Life, Pooled, Accepted, Accepting, registerErrorCount, sessionVars
  <2>2. Accepted(s)'
    BY <1>1, <1>3 DEF TypeInv, MapTypes, Life, Accepted, Accepting, Busy, Admitted,
        registerErrorCount, sessionVars
  <2>3. OneAddress(s)'
    BY <1>1, <1>3 DEF Life, OneAddress, registerErrorCount, sessionVars
  <2>4. Open(s)'
    BY <1>1, <1>3 DEF Life, Accepted, Open, Accepting, registerErrorCount, sessionVars
  <2>5. Closed(s)'
    BY <1>1, <1>3 DEF Life, Accepted, Closed, Accepting, Busy, registerErrorCount
  <2>6. QED
    BY <2>1, <2>2, <2>3, <2>4, <2>5 DEF Life
<1>4. QED
  BY <1>2, <1>3

LEMMA ListLives ==
  ASSUME TypeInv, LifeInv, List
  PROVE  LifeInv'
<1> SUFFICES ASSUME NEW s \in Session, s \notin crossed'
             PROVE  Life(s)'
  BY DEF LifeInv
<1>1. Life(s)
  BY DEF LifeInv, List
<1>2. CASE s # session[Reader]
  <2>1. Same(s)
    BY <1>2 DEF Same, List, maps
  <2>2. \A t \in Thread : Aside(t, s)
    BY <1>2 DEF Aside, Busy, List
  <2>3. QED
    BY <1>1, <2>1, <2>2, Untouched
<1>3. CASE s = session[Reader]
  <2>1. Pooled(s)'
    BY <1>1, <1>3 DEF Life, Pooled, Accepted, Accepting, List
  <2>2. Accepted(s)'
    BY <1>1, <1>3 DEF TypeInv, ThreadTypes, Accepted, Accepting, List
  <2>3. OneAddress(s)'
    BY <1>1, <1>3 DEF Life, OneAddress, List, maps
  <2>4. Open(s)'
    BY <1>1, <1>3 DEF Life, Accepted, Open, Accepting, Busy, Pending, Admitted, List, maps
  <2>5. Closed(s)'
    BY <1>1, <1>3 DEF Life, Accepted, Closed, Accepting, Busy, List
  <2>6. QED
    BY <2>1, <2>2, <2>3, <2>4, <2>5 DEF Life
<1>4. QED
  BY <1>2, <1>3

LEMMA BeatLives ==
  ASSUME TypeInv, LifeInv, NEW r \in Session, Beat(r)
  PROVE  LifeInv'
<1> SUFFICES ASSUME NEW s \in Session, s \notin crossed'
             PROVE  Life(s)'
  BY DEF LifeInv
<1>1. Life(s)
  BY DEF LifeInv, Beat
<1>2. Same(s)
  BY DEF Same, Beat, sessionVars, maps
<1>3. \A t \in Thread : Aside(t, s)
  BY DEF Aside, Beat, threadVars
<1>4. QED
  BY <1>1, <1>2, <1>3, Untouched

LEMMA HearLives ==
  ASSUME TypeInv, LifeInv, NEW r \in Session, Hear(r)
  PROVE  LifeInv'
<1> SUFFICES ASSUME NEW s \in Session, s \notin crossed'
             PROVE  Life(s)'
  BY DEF LifeInv
<1>1. Life(s)
  BY DEF LifeInv, Hear
<1>2. Same(s)
  BY DEF Same, Hear, sessionVars, maps
<1>3. \A t \in Thread : Aside(t, s)
  BY DEF Aside, Hear, threadVars
<1>4. QED
  BY <1>1, <1>2, <1>3, Untouched

LEMMA LoseLives ==
  ASSUME TypeInv, LifeInv, NEW r \in Session, Lose(r)
  PROVE  LifeInv'
<1> SUFFICES ASSUME NEW s \in Session, s \notin crossed'
             PROVE  Life(s)'
  BY DEF LifeInv
<1>1. Life(s)
  BY DEF LifeInv, Lose
<1>2. Same(s)
  BY DEF Same, Lose, sessionVars, maps
<1>3. \A t \in Thread : Aside(t, s)
  BY DEF Aside, Lose, threadVars
<1>4. QED
  BY <1>1, <1>2, <1>3, Untouched

LEMMA TickLives ==
  ASSUME TypeInv, LifeInv, Tick
  PROVE  LifeInv'
<1> SUFFICES ASSUME NEW s \in Session, s \notin crossed'
             PROVE  Life(s)'
  BY DEF LifeInv
<1>1. Life(s)
  BY DEF LifeInv, Tick
<1>2. Same(s)
  BY DEF Same, Tick, sessionVars, maps
<1>3. \A t \in Thread : Aside(t, s)
  BY DEF Aside, Tick, threadVars
<1>4. QED
  BY <1>1, <1>2, <1>3, Untouched

LEMMA HEART_BEATLives ==
  ASSUME TypeInv, LifeInv, NEW h \in Handler, NEW r \in Session, HEART_BEAT(h, r)
  PROVE  LifeInv'
<1> SUFFICES ASSUME NEW s \in Session, s \notin crossed'
             PROVE  Life(s)'
  BY DEF LifeInv
<1>1. Life(s)
  BY DEF LifeInv, HEART_BEAT
<1>2. Same(s)
  BY DEF Same, HEART_BEAT, sessionVars, maps
<1>3. \A t \in Thread : Aside(t, s)
  BY DEF Aside, HEART_BEAT, threadVars
<1>4. QED
  BY <1>1, <1>2, <1>3, Untouched

LEMMA PUT_PRANKKEYLives ==
  ASSUME TypeInv, LifeInv, NEW h \in Handler, NEW r \in Session, PUT_PRANKKEY(h, r)
  PROVE  LifeInv'
<1> SUFFICES ASSUME NEW s \in Session, s \notin crossed'
             PROVE  Life(s)'
  BY DEF LifeInv
<1>1. Life(s)
  BY DEF LifeInv, PUT_PRANKKEY
<1>2. CASE s # r
  <2>1. Same(s)
    BY <1>2 DEF Same, PUT_PRANKKEY, maps
  <2>2. \A t \in Thread : Aside(t, s)
    BY <1>2 DEF Aside, PUT_PRANKKEY, threadVars
  <2>3. QED
    BY <1>1, <2>1, <2>2, Untouched
<1>3. CASE s = r
  <2>1. Pooled(s)'
    BY <1>1, <1>3 DEF Life, Pooled, PUT_PRANKKEY
  <2>2. Accepted(s)'
    BY <1>1, <1>3 DEF Life, Accepted, Accepting, PUT_PRANKKEY, threadVars
  <2>3. OneAddress(s)'
    BY <1>1, <1>3 DEF Life, OneAddress, PUT_PRANKKEY, maps
  <2>4. Open(s)'
    BY <1>1, <1>3 DEF Life, Open, Pending, Admitted, PUT_PRANKKEY, maps, threadVars
  <2>5. Closed(s)'
    BY <1>1, <1>3 DEF Life, Closed, PUT_PRANKKEY, threadVars
  <2>6. QED
    BY <2>1, <2>2, <2>3, <2>4, <2>5 DEF Life
<1>4. QED
  BY <1>2, <1>3

LEMMA BYELives ==
  ASSUME TypeInv, LifeInv, NEW h \in Handler, NEW r \in Session, BYE(h, r)
  PROVE  LifeInv'
<1> SUFFICES ASSUME NEW s \in Session, s \notin crossed'
             PROVE  Life(s)'
  BY DEF LifeInv
<1>1. Life(s)
  BY DEF LifeInv, BYE, closeSession, Cross
<1>2. CASE s # r
  <2>1. Same(s)
    BY <1>2 DEF Same, BYE, closeSession, maps
  <2>2. \A t \in Thread : Aside(t, s)
    BY <1>2 DEF TypeInv, ThreadTypes, Aside, Busy, BYE, Serves, closeSession
  <2>3. QED
    BY <1>1, <2>1, <2>2, Untouched
<1>3. CASE s = r
  <2>1. Pooled(s)'
    BY <1>1, <1>3 DEF Pooled, BYE
  <2>2. Accepted(s)'
    BY <1>1, <1>3 DEF Accepted, Accepting, BYE, closeSession, Cross
  <2>3. OneAddress(s)'
    BY <1>1, <1>3 DEF Life, OneAddress, BYE, maps
  <2>4. Open(s)'
    BY <1>1, <1>3 DEF Life, Open, Pending, Admitted, BYE, Serves, closeSession, maps
  <2>5. Closed(s)'
    BY <1>1, <1>3 DEF TypeInv, SessionTypes, Life, Closed, Unlisted, BYE, Serves,
        closeSession, maps
  <2>6. QED
    BY <2>1, <2>2, <2>3, <2>4, <2>5 DEF Life
<1>4. QED
  BY <1>2, <1>3

LEMMA addErrorCountLives ==
  ASSUME TypeInv, LifeInv, NEW t \in Thread, NEW r \in Session, addErrorCount(t, r)
  PROVE  LifeInv'
<1> SUFFICES ASSUME NEW s \in Session, s \notin crossed'
             PROVE  Life(s)'
  BY DEF LifeInv
<1>1. Life(s)
  BY DEF LifeInv, addErrorCount
<1>2. CASE s # r
  <2>1. Same(s)
    BY <1>2 DEF Same, addErrorCount, sessionVars
  <2>2. \A u \in Thread : Aside(u, s)
    BY <1>2 DEF TypeInv, ThreadTypes, Aside, Busy, addErrorCount
  <2>3. QED
    BY <1>1, <2>1, <2>2, Untouched
<1>3. CASE s = r
  <2>1. Pooled(s)'
    BY <1>1, <1>3 DEF Pooled, addErrorCount, sessionVars
  <2>2. Accepted(s)'
    BY <1>1, <1>3 DEF Life, Accepted, Accepting, addErrorCount
  <2>3. OneAddress(s)'
    BY <1>1, <1>3 DEF Life, OneAddress, addErrorCount, sessionVars
  <2>4. Open(s)'
    BY <1>1, <1>3 DEF TypeInv, MapTypes, ThreadTypes, Life, Accepted, Open, Busy, Pending,
        Admitted, addErrorCount, Serves, sessionVars
  <2>5. Closed(s)'
    BY <1>1, <1>3 DEF Life, Closed, addErrorCount, Serves, sessionVars
  <2>6. QED
    BY <2>1, <2>2, <2>3, <2>4, <2>5 DEF Life
<1>4. QED
  BY <1>2, <1>3

LEMMA CountLives ==
  ASSUME TypeInv, LifeInv, NEW t \in Thread, Count(t)
  PROVE  LifeInv'
<1> SUFFICES ASSUME NEW s \in Session, s \notin crossed'
             PROVE  Life(s)'
  BY DEF LifeInv
<1>1. Life(s)
  BY DEF LifeInv, Count
<1>2. CASE s # session[t]
  <2>1. Same(s)
    BY <1>2 DEF Same, Count, sessionVars
  <2>2. \A u \in Thread : Aside(u, s)
    BY <1>2 DEF Aside, Busy, Count
  <2>3. QED
    BY <1>1, <2>1, <2>2, Untouched
<1>3. CASE s = session[t]
  <2>1. t \in {Reader, sessionHandler[s]} /\ addCount[t] \in Nat
    BY <1>1, <1>3 DEF TypeInv, ThreadTypes, Life, Closed, Count
  <2>2. Pending(t, s) = addCount[t] /\ Pending(t, s)' = 0
    BY <1>3 DEF Pending, TypeInv, ThreadTypes, Count
  <2>3. \A u \in Thread \ {t} : Pending(u, s)' = Pending(u, s) /\ Pending(u, s) \in Nat
    BY DEF Pending, TypeInv, ThreadTypes, Count
  <2>4. Pooled(s)'
    BY <1>1, <1>3, <2>1, <2>2, <2>3 DEF Life, Pooled, Unlisted, Count, sessionVars
  <2>5. Accepted(s)'
    BY <1>1, <1>3, <2>1, <2>2, <2>3 DEF Life, Accepted, Accepting, Busy, Count
  <2>6. OneAddress(s)'
    BY <1>1, <1>3, <2>1, <2>2, <2>3 DEF Life, OneAddress, Count, sessionVars
  <2>7. Open(s)'
    <3> SUFFICES ASSUME state[s] # "ENDED"
                 PROVE  Open(s)'
      BY DEF Open, Count, sessionVars
    <3>1. Admitted(s)' /\ sessionHandler'[s] = sessionHandler[s] /\ sessionHandler[s] \in Handler
      BY <1>1 DEF Life, Open, Admitted, Count, sessionVars
    <3>2. errorCountMap'[s] = errorCountMap[s] + addCount[t] /\ errorCountMap[s] \in Nat
      BY <1>1, <1>3 DEF Life, Open, Count, TypeInv, MapTypes
    <3>3. made'[s] = made[s] /\ made[s] = errorCountMap[s] + Pending(Reader, s)
                                             + Pending(sessionHandler[s], s)
      BY <1>1 DEF Life, Open, Count
    <3>4. Pending(Reader, s)' + Pending(sessionHandler[s], s)' + addCount[t]
            = Pending(Reader, s) + Pending(sessionHandler[s], s)
      <4>1. CASE t = Reader
        BY <2>1, <2>2, <2>3, <3>1, <4>1
      <4>2. CASE t = sessionHandler[s]
        BY <2>1, <2>2, <2>3, <3>1, <4>2
      <4>3. QED
        BY <2>1, <4>1, <4>2
    <3>5. /\ Pending(Reader, s)' \in Nat /\ Pending(sessionHandler[s], s)' \in Nat
          /\ Pending(Reader, s) \in Nat /\ Pending(sessionHandler[s], s) \in Nat
      BY <2>1, <2>2, <2>3, <3>1
    <3>6. QED
      BY <2>1, <3>1, <3>2, <3>3, <3>4, <3>5 DEF Open
  <2>8. Closed(s)'
    BY <1>1, <1>3, <2>1, <2>2, <2>3 DEF Life, Closed, Unlisted, Count, sessionVars
  <2>9. QED
    BY <2>4, <2>5, <2>6, <2>7, <2>8 DEF Life
<1>4. QED
  BY <1>2, <1>3

LEMMA queueInvalidSessionLives ==
  ASSUME TypeInv, LifeInv, NEW r \in Session, queueInvalidSession(r)
  PROVE  LifeInv'
<1> SUFFICES ASSUME NEW s \in Session, s \notin crossed'
             PROVE  Life(s)'
  BY DEF LifeInv
<1>1. Life(s)
  BY DEF LifeInv, queueInvalidSession
<1>2. Same(s)
  BY DEF Same, queueInvalidSession, sessionVars, maps
<1>3. \A t \in Thread : Aside(t, s)
  BY DEF Aside, queueInvalidSession, threadVars
<1>4. QED
  BY <1>1, <1>2, <1>3, Untouched

LEMMA DieLives ==
  ASSUME TypeInv, LifeInv, NEW t \in Thread, Die(t)
  PROVE  LifeInv'
<1> SUFFICES ASSUME NEW s \in Session, s \notin crossed'
             PROVE  Life(s)'
  BY DEF LifeInv
<1>1. Life(s)
  BY DEF LifeInv, Die
<1>2. CASE s # session[t]
  <2>1. Same(s)
    BY <1>2 DEF Same, Die, sessionVars
  <2>2. \A u \in Thread : Aside(u, s)
    BY <1>2 DEF Aside, Busy, Die
  <2>3. QED
    BY <1>1, <2>1, <2>2, Untouched
<1>3. CASE s = session[t]
  <2>1. Pooled(s)'
    BY <1>1, <1>3 DEF Life, Pooled, Unlisted, Die, sessionVars
  <2>2. Accepted(s)'
    BY <1>1, <1>3 DEF Life, Accepted, Accepting, Busy, Die
  <2>3. OneAddress(s)'
    BY <1>1, <1>3 DEF Life, OneAddress, Die, sessionVars
  <2>4. Open(s)'
    BY <1>1, <1>3 DEF Life, Open, Closed, Die, sessionVars
  <2>5. Closed(s)'
    BY <1>1, <1>3 DEF Life, Closed, Unlisted, Die, sessionVars
  <2>6. QED
    BY <2>1, <2>2, <2>3, <2>4, <2>5 DEF Life
<1>4. QED
  BY <1>2, <1>3

LEMMA TestIPLives ==
  ASSUME TypeInv, LifeInv, NEW t \in Thread, TestIP(t)
  PROVE  LifeInv'
<1> SUFFICES ASSUME NEW s \in Session, s \notin crossed'
             PROVE  Life(s)'
  BY DEF LifeInv
<1>1. Life(s)
  BY DEF LifeInv, TestIP
<1>2. CASE s # session[t]
  <2>1. Same(s)
    BY <1>2 DEF Same, TestIP, sessionVars, maps
  <2>2. \A u \in Thread : Aside(u, s)
    BY <1>2 DEF Aside, Busy, TestIP
  <2>3. QED
    BY <1>1, <2>1, <2>2, Untouched
<1>3. CASE s = session[t]
  <2>1. ipLong[s] = None => Unlisted(s)
    BY <1>1 DEF Life, OneAddress, Unlisted
  <2>2. session' = session /\ ipLong' = ipLong /\ (Unlisted(s)' <=> Unlisted(s))
    BY DEF TestIP, Unlisted, sessionVars, maps
  <2>3. \A u \in Thread \ {t} : at'[u] = at[u]
    BY DEF TestIP
  <2>4. Pooled(s)'
    BY <1>1, <1>3, <2>1, <2>2, <2>3 DEF Life, Pooled, TestIP, sessionVars, maps
  <2>5. Accepted(s)'
    BY <1>1, <1>3, <2>1, <2>2, <2>3 DEF Life, Accepted, Accepting, Busy, TestIP
  <2>6. OneAddress(s)'
    BY <1>1, <1>3, <2>1, <2>2, <2>3 DEF Life, OneAddress, TestIP, sessionVars, maps
  <2>7. Open(s)'
    BY <1>1, <1>3, <2>1, <2>2, <2>3 DEF Life, Open, Closed, TestIP, sessionVars
  <2>8. Closed(s)'
    BY <1>1, <1>3, <2>1, <2>2, <2>3 DEF Life, Closed, TestIP, sessionVars, maps
  <2>9. QED
    BY <2>4, <2>5, <2>6, <2>7, <2>8 DEF Life
<1>4. QED
  BY <1>2, <1>3

LEMMA removeConnectedIPLives ==
  ASSUME TypeInv, LifeInv, NEW t \in Thread, removeConnectedIP(t)
  PROVE  LifeInv'
<1> SUFFICES ASSUME NEW s \in Session, s \notin crossed'
             PROVE  Life(s)'
  BY DEF LifeInv
<1>1. Life(s)
  BY DEF LifeInv, removeConnectedIP
<1>2. CASE s # session[t]
  <2>1. Same(s)
    BY <1>2 DEF Same, removeConnectedIP, sessionVars
  <2>2. \A u \in Thread : Aside(u, s)
    BY <1>2 DEF Aside, Busy, removeConnectedIP
  <2>3. QED
    BY <1>1, <2>1, <2>2, Untouched
<1>3. CASE s = session[t]
  <2>1. Pooled(s)'
    BY <1>1, <1>3 DEF Life, Pooled, Unlisted, removeConnectedIP, sessionVars
  <2>2. Accepted(s)'
    BY <1>1, <1>3 DEF Life, Accepted, Accepting, Busy, removeConnectedIP
  <2>3. OneAddress(s)'
    BY <1>1, <1>3 DEF Life, OneAddress, removeConnectedIP, sessionVars
  <2>4. Open(s)'
    BY <1>1, <1>3 DEF Life, Open, Closed, removeConnectedIP, sessionVars
  <2>5. Closed(s)'
    BY <1>1, <1>3 DEF TypeInv, MapTypes, Life, OneAddress, Closed, Unlisted,
        removeConnectedIP, sessionVars
  <2>6. QED
    BY <2>1, <2>2, <2>3, <2>4, <2>5 DEF Life
<1>4. QED
  BY <1>2, <1>3

LEMMA ClearIPLives ==
  ASSUME TypeInv, LifeInv, NEW t \in Thread, ClearIP(t)
  PROVE  LifeInv'
<1> SUFFICES ASSUME NEW s \in Session, s \notin crossed'
             PROVE  Life(s)'
  BY DEF LifeInv
<1>1. Life(s)
  BY DEF LifeInv, ClearIP
<1>2. CASE s # session[t]
  <2>1. Same(s)
    BY <1>2 DEF Same, ClearIP, maps
  <2>2. \A u \in Thread : Aside(u, s)
    BY <1>2 DEF Aside, Busy, ClearIP
  <2>3. QED
    BY <1>1, <2>1, <2>2, Untouched
<1>3. CASE s = session[t]
  <2>1. Pooled(s)'
    BY <1>1, <1>3 DEF Life, Pooled, Unlisted, ClearIP, maps
  <2>2. Accepted(s)'
    BY <1>1, <1>3 DEF Life, Accepted, Accepting, Busy, ClearIP
  <2>3. OneAddress(s)'
    BY <1>1, <1>3 DEF Life, OneAddress, Closed, Unlisted, ClearIP, maps
  <2>4. Open(s)'
    BY <1>1, <1>3 DEF Life, Open, Closed, ClearIP
  <2>5. Closed(s)'
    BY <1>1, <1>3 DEF Life, Closed, Unlisted, ClearIP, maps
  <2>6. QED
    BY <2>1, <2>2, <2>3, <2>4, <2>5 DEF Life
<1>4. QED
  BY <1>2, <1>3

LEMMA removeSessionInErrorCountMapLives ==
  ASSUME TypeInv, LifeInv, NEW t \in Thread, removeSessionInErrorCountMap(t)
  PROVE  LifeInv'
<1> SUFFICES ASSUME NEW s \in Session, s \notin crossed'
             PROVE  Life(s)'
  BY DEF LifeInv
<1>1. Life(s)
  BY DEF LifeInv, removeSessionInErrorCountMap
<1>2. CASE s # session[t]
  <2>1. Same(s)
    BY <1>2 DEF Same, removeSessionInErrorCountMap, sessionVars
  <2>2. \A u \in Thread : Aside(u, s)
    BY <1>2 DEF Aside, Busy, removeSessionInErrorCountMap
  <2>3. QED
    BY <1>1, <2>1, <2>2, Untouched
<1>3. CASE s = session[t]
  <2>1. Pooled(s)'
    BY <1>1, <1>3 DEF Life, Pooled, Unlisted, removeSessionInErrorCountMap, sessionVars
  <2>2. Accepted(s)'
    BY <1>1, <1>3 DEF Life, Accepted, Accepting, Busy, removeSessionInErrorCountMap
  <2>3. OneAddress(s)'
    BY <1>1, <1>3 DEF Life, OneAddress, Closed, Unlisted, removeSessionInErrorCountMap
  <2>4. Open(s)'
    BY <1>1, <1>3 DEF Life, Open, Closed, removeSessionInErrorCountMap, sessionVars
  <2>5. Closed(s)'
    BY <1>1, <1>3 DEF TypeInv, MapTypes, Life, Closed, Unlisted,
        removeSessionInErrorCountMap, sessionVars
  <2>6. QED
    BY <2>1, <2>2, <2>3, <2>4, <2>5 DEF Life
<1>4. QED
  BY <1>2, <1>3

LEMMA DeallocateLives ==
  ASSUME TypeInv, LifeInv, NEW t \in Thread, Deallocate(t)
  PROVE  LifeInv'
<1> SUFFICES ASSUME NEW s \in Session, s \notin crossed'
             PROVE  Life(s)'
  BY DEF LifeInv
<1>1. Life(s)
  BY DEF LifeInv, Deallocate
<1>2. CASE s # session[t]
  <2>1. Same(s)
    BY <1>2 DEF Same, Deallocate
  <2>2. \A u \in Thread : Aside(u, s)
    BY <1>2 DEF Aside, Busy, Deallocate
  <2>3. QED
    BY <1>1, <2>1, <2>2, Untouched
<1>3. CASE s = session[t]
  <2>1. Pooled(s)'
    BY <1>1, <1>3 DEF Life, Pooled, Closed, Unlisted, Deallocate
  <2>2. Accepted(s)'
    BY <1>1, <1>3 DEF Life, Accepted, Accepting, Busy, Deallocate
  <2>3. OneAddress(s)'
    BY <1>1, <1>3 DEF Life, OneAddress, Deallocate
  <2>4. Open(s)'
    BY <1>1, <1>3 DEF Life, Open, Closed, Deallocate
  <2>5. Closed(s)'
    BY <1>1, <1>3 DEF Life, Closed, Unlisted, Deallocate
  <2>6. QED
    BY <2>1, <2>2, <2>3, <2>4, <2>5 DEF Life
<1>4. QED
  BY <1>2, <1>3

LEMMA ScanLives ==
  ASSUME TypeInv, LifeInv, NEW r \in Session, Scan(r)
  PROVE  LifeInv'
<1> SUFFICES ASSUME NEW s \in Session, s \notin crossed'
             PROVE  Life(s)'
  BY DEF LifeInv
<1>1. Life(s)
  BY DEF LifeInv, Scan
<1>2. Same(s)
  BY DEF Same, Scan, sessionVars, maps
<1>3. \A t \in Thread : Aside(t, s)
  BY DEF Aside, Scan, threadVars
<1>4. QED
  BY <1>1, <1>2, <1>3, Untouched

LEMMA EndScanLives ==
  ASSUME TypeInv, LifeInv, EndScan
  PROVE  LifeInv'
<1> SUFFICES ASSUME NEW s \in Session, s \notin crossed'
             PROVE  Life(s)'
  BY DEF LifeInv
<1>1. Life(s)
  BY DEF LifeInv, EndScan
<1>2. Same(s)
  BY DEF Same, EndScan, sessionVars, maps
<1>3. \A t \in Thread : Aside(t, s)
  BY DEF Aside, Busy, EndScan
<1>4. QED
  BY <1>1, <1>2, <1>3, Untouched

LEMMA DeleteInvalidLives ==
  ASSUME TypeInv, LifeInv, DeleteInvalid
  PROVE  LifeInv'
<1> SUFFICES ASSUME NEW s \in Session, s \notin crossed'
             PROVE  Life(s)'
  BY DEF LifeInv
<1>1. Life(s)
  BY DEF LifeInv, DeleteInvalid, closeSession, Cross
<1>2. CASE s # Head(invalidSessionQueue)
  <2>1. Same(s)
    BY <1>2 DEF Same, DeleteInvalid, closeSession, maps
  <2>2. \A t \in Thread : Aside(t, s)
    BY <1>2 DEF TypeInv, ThreadTypes, Aside, Busy, DeleteInvalid, closeSession
  <2>3. QED
    BY <1>1, <2>1, <2>2, Untouched
<1>3. CASE s = Head(invalidSessionQueue)
  <2>1. Pooled(s)'
    BY <1>1, <1>3 DEF Life, Pooled, Unlisted, DeleteInvalid, closeSession, maps
  <2>2. Accepted(s)'
    BY <1>1, <1>3 DEF Accepted, Accepting, DeleteInvalid, closeSession, Cross
  <2>3. OneAddress(s)'
    BY <1>1, <1>3 DEF Life, OneAddress, DeleteInvalid, maps
  <2>4. Open(s)'
    BY <1>1, <1>3 DEF Life, Open, Pending, Admitted, DeleteInvalid, closeSession, maps
  <2>5. Closed(s)'
    BY <1>1, <1>3 DEF TypeInv, SessionTypes, Life, Closed, Unlisted, DeleteInvalid,
        closeSession, maps
  <2>6. QED
    BY <2>1, <2>2, <2>3, <2>4, <2>5 DEF Life
<1>4. QED
  BY <1>2, <1>3

LEMMA EndDeleteLives ==
  ASSUME TypeInv, LifeInv, EndDelete
  PROVE  LifeInv'
<1> SUFFICES ASSUME NEW s \in Session, s \notin crossed'
             PROVE  Life(s)'
  BY DEF LifeInv
<1>1. Life(s)
  BY DEF LifeInv, EndDelete
<1>2. Same(s)
  BY DEF Same, EndDelete, sessionVars
<1>3. \A t \in Thread : Aside(t, s)
  BY DEF Aside, Busy, EndDelete
<1>4. QED
  BY <1>1, <1>2, <1>3, Untouched

LEMMA DeleteErroneousLives ==
  ASSUME TypeInv, LifeInv, NEW r \in Session, DeleteErroneous(r)
  PROVE  LifeInv'
<1> SUFFICES ASSUME NEW s \in Session, s \notin crossed'
             PROVE  Life(s)'
  BY DEF LifeInv
<1>1. Life(s)
  BY DEF LifeInv, DeleteErroneous, closeSession, Cross
<1>2. CASE s # r
  <2>1. Same(s)
    BY <1>2 DEF Same, DeleteErroneous, closeSession, maps
  <2>2. \A t \in Thread : Aside(t, s)
    BY <1>2 DEF TypeInv, ThreadTypes, Aside, Busy, DeleteErroneous, closeSession
  <2>3. QED
    BY <1>1, <2>1, <2>2, Untouched
<1>3. CASE s = r
  <2>1. Pooled(s)'
    BY <1>1, <1>3 DEF Life, Pooled, Unlisted, DeleteErroneous, closeSession, maps
  <2>2. Accepted(s)'
    BY <1>1, <1>3 DEF Accepted, Accepting, DeleteErroneous, closeSession, Cross
  <2>3. OneAddress(s)'
    BY <1>1, <1>3 DEF Life, OneAddress, DeleteErroneous, maps
  <2>4. Open(s)'
    BY <1>1, <1>3 DEF Life, Open, Pending, Admitted, DeleteErroneous, closeSession, maps
  <2>5. Closed(s)'
    BY <1>1, <1>3 DEF TypeInv, SessionTypes, Life, Closed, Unlisted, DeleteErroneous,
        closeSession, maps
  <2>6. QED
    BY <2>1, <2>2, <2>3, <2>4, <2>5 DEF Life
<1>4. QED
  BY <1>2, <1>3

LEMMA EndErrorsLives ==
  ASSUME TypeInv, LifeInv, EndErrors
  PROVE  LifeInv'
<1> SUFFICES ASSUME NEW s \in Session, s \notin crossed'
             PROVE  Life(s)'
  BY DEF LifeInv
<1>1. Life(s)
  BY DEF LifeInv, EndErrors
<1>2. Same(s)
  BY DEF Same, EndErrors, sessionVars
<1>3. \A t \in Thread : Aside(t, s)
  BY DEF Aside, Busy, EndErrors
<1>4. QED
  BY <1>1, <1>2, <1>3, Untouched



-----------------------------------------------------------------------------
(***************************************************************************)
(* The clocks of client and server.                                        *)
(***************************************************************************)

\* A client that is gone is not asked for.
LEMMA GoneClocks ==
  ASSUME TypeInv, Clocks, NEW S \in SUBSET Session, Gone(S),
         UNCHANGED serverClocks \/ (lastHeartBeatTime' = lastHeartBeatTime)
  PROVE  Clocks'
<1> SUFFICES ASSUME NEW s \in alive'
             PROVE  /\ s \in alive /\ beat'[s] = beat[s] /\ heard'[s] = heard[s]
                    /\ sent'[s] = sent[s] /\ lastHeartBeatTime'[s] = lastHeartBeatTime[s]
  BY DEF Clocks
<1>1. s \in alive /\ s \in Session /\ s \notin S
  BY DEF TypeInv, ClientTypes, Gone
<1>2. QED
  BY <1>1 DEF Gone, serverClocks

LEMMA ListClocks ==
  ASSUME TypeInv, Clocks, List
  PROVE  Clocks'
<1> SUFFICES ASSUME NEW s \in alive'
             PROVE  \/ /\ s \in alive /\ beat'[s] = beat[s] /\ heard'[s] = heard[s]
                       /\ sent'[s] = sent[s] /\ lastHeartBeatTime'[s] = lastHeartBeatTime[s]
                    \/ /\ beat'[s] = "none" /\ lastHeartBeatTime'[s] = 0
                       /\ heard'[s] \in 0..HEART_BEAT_PERIOD
  BY DEF Clocks
<1>1. session[Reader] \in Session /\ s \in Session
  BY DEF TypeInv, ThreadTypes, ClientTypes, List
<1>2. CASE s = session[Reader]
  BY <1>1, <1>2 DEF TypeInv, ClientTypes, List
<1>3. CASE s # session[Reader]
  BY <1>1, <1>3 DEF List
<1>4. QED
  BY <1>2, <1>3

LEMMA BeatClocks ==
  ASSUME TypeInv, Clocks, NEW r \in Session, Beat(r) \/ Hear(r)
  PROVE  Clocks'
<1>1. CASE Beat(r)
  BY <1>1 DEF TypeInv, ClientTypes, Clocks, Beat, serverClocks
<1>2. CASE Hear(r)
  BY <1>2 DEF TypeInv, ClientTypes, Clocks, Hear, serverClocks
<1>3. QED
  BY <1>1, <1>2

LEMMA HEART_BEATClocks ==
  ASSUME TypeInv, Clocks, NEW h \in Handler, NEW r \in Session, HEART_BEAT(h, r)
  PROVE  Clocks'
BY DEF TypeInv, ClientTypes, Clocks, HEART_BEAT

\* Time passes for client and server alike, and no longer than the client waits.
LEMMA TickClocks ==
  ASSUME TypeInv, Clocks, Tick
  PROVE  Clocks'
<1> SUFFICES ASSUME NEW s \in alive
             PROVE  /\ beat[s] = "none" =>
                         /\ lastHeartBeatTime'[s] <= heard'[s] + DELAY
                         /\ heard'[s] <= HEART_BEAT_PERIOD + LOOP
                    /\ beat[s] = "asked" =>
                         /\ lastHeartBeatTime'[s] <= heard'[s] + DELAY
                         /\ heard'[s] <= HEART_BEAT_PERIOD + LOOP + sent'[s]
                    /\ beat[s] = "answered" =>
                         /\ lastHeartBeatTime'[s] <= sent'[s]
                         /\ heard'[s] <= HEART_BEAT_PERIOD + LOOP + DELAY + sent'[s]
  BY DEF Clocks, Tick
<1>1. /\ s \in Session /\ heard[s] \in Nat /\ sent[s] \in Nat
      /\ lastHeartBeatTime[s] \in Nat
  BY DEF TypeInv, ClientTypes
<1>2. lastHeartBeatTime'[s] <= lastHeartBeatTime[s] + 1 /\ lastHeartBeatTime'[s] \in Nat
  BY <1>1 DEF Tick, Later
<1>3. /\ heard'[s] = heard[s] + 1
      /\ sent'[s] = IF beat[s] = "none" THEN sent[s] ELSE sent[s] + 1
  BY <1>1 DEF Tick
<1>4. IF beat[s] = "none" THEN heard[s] < HEART_BEAT_PERIOD + LOOP ELSE sent[s] < DELAY
  BY DEF Tick, Timely
<1>5. QED
  BY <1>1, <1>2, <1>3, <1>4 DEF Clocks

-----------------------------------------------------------------------------
(***************************************************************************)
(* Every step keeps the invariant.                                         *)
(***************************************************************************)
LEMMA Initially ==
  ASSUME Init
  PROVE  IInv
<1>1. TypeInv
  <2>1. SessionTypes
    BY DEF Init, SessionTypes
  <2>2. MapTypes
    <3>1. invalidSessionQueue \in Seq(Session) /\ unseen \subseteq Session
      BY DEF Init
    <3>2. connectedIPMap \in [Address -> [Session -> Nat]]
      BY DEF Init
    <3>3. /\ errorCountMap \in [Session -> Nat \cup {None}] /\ made \in [Session -> Nat]
          /\ errorLock = FALSE
      BY DEF Init
    <3>4. QED
      BY <3>1, <3>2, <3>3 DEF MapTypes
  <2>3. ThreadTypes
    BY DEF Init, ThreadTypes
  <2>4. ClientTypes
    BY DEF Init, ClientTypes
  <2>5. QED
    BY <2>1, <2>2, <2>3, <2>4 DEF TypeInv
<1>2. Clocks
  BY DEF Init, Clocks
<1>3. LifeInv
  BY DEF Init, LifeInv, Life, Pooled, Accepted, OneAddress, Open, Closed, Accepting,
      Unlisted
<1>4. QED
  BY <1>1, <1>2, <1>3 DEF IInv

LEMMA StepKept ==
  ASSUME IInv, Next
  PROVE  IInv'
<1> USE DEF IInv
<1>1. ASSUME NEW s \in Session, NEW a \in Address, NEW h \in Handler, allocate(s, a, h) PROVE IInv'
  <2> DEFINE S == {s}
  <2>1. S \in SUBSET Session /\ Gone(S) /\ lastHeartBeatTime' = lastHeartBeatTime
    BY <1>1 DEF allocate
  <2> HIDE DEF S
  <2>2. QED
    BY <1>1, <2>1, allocateTyped, allocateLives, GoneClocks
<1>2. CASE putConnectedIP
  <2>1. Clocks'
    BY <1>2 DEF Clocks, putConnectedIP, clientVars, serverClocks
  <2>2. QED
    BY <1>2, <2>1, putConnectedIPTyped, putConnectedIPLives
<1>3. CASE registerErrorCount
  <2>1. Clocks'
    BY <1>3 DEF Clocks, registerErrorCount, clientVars, serverClocks
  <2>2. QED
    BY <1>3, <2>1, registerErrorCountTyped, registerErrorCountLives
<1>4. CASE List
  BY <1>4, ListTyped, ListLives, ListClocks
<1>5. ASSUME NEW s \in Session, Beat(s) PROVE IInv'
  BY <1>5, BeatTyped, BeatLives, BeatClocks
<1>6. ASSUME NEW s \in Session, Hear(s) PROVE IInv'
  BY <1>6, HearTyped, HearLives, BeatClocks
<1>7. ASSUME NEW s \in Session, Lose(s) PROVE IInv'
  <2> DEFINE S == {s}
  <2>1. S \in SUBSET Session /\ Gone(S) /\ lastHeartBeatTime' = lastHeartBeatTime
    BY <1>7 DEF Lose, serverClocks
  <2> HIDE DEF S
  <2>2. QED
    BY <1>7, <2>1, LoseTyped, LoseLives, GoneClocks
<1>8. CASE Tick
  BY <1>8, TickTyped, TickLives, TickClocks
<1>9. ASSUME NEW h \in Handler, NEW s \in Session, HEART_BEAT(h, s) PROVE IInv'
  BY <1>9, HEART_BEATTyped, HEART_BEATLives, HEART_BEATClocks
<1>10. ASSUME NEW h \in Handler, NEW s \in Session, PUT_PRANKKEY(h, s) PROVE IInv'
  <2>1. Clocks'
    BY <1>10 DEF Clocks, PUT_PRANKKEY, clientVars, serverClocks
  <2>2. QED
    BY <1>10, <2>1, PUT_PRANKKEYTyped, PUT_PRANKKEYLives
<1>11. ASSUME NEW h \in Handler, NEW s \in Session, BYE(h, s) PROVE IInv'
  <2> DEFINE S == {s}
  <2>1. S \in SUBSET Session /\ Gone(S) /\ lastHeartBeatTime' = lastHeartBeatTime
    BY <1>11 DEF BYE, closeSession, serverClocks
  <2> HIDE DEF S
  <2>2. QED
    BY <1>11, <2>1, BYETyped, BYELives, GoneClocks
<1>12. ASSUME NEW t \in Thread, NEW s \in Session, addErrorCount(t, s) PROVE IInv'
  <2>1. Clocks'
    BY <1>12 DEF Clocks, addErrorCount, clientVars, serverClocks
  <2>2. QED
    BY <1>12, <2>1, addErrorCountTyped, addErrorCountLives
<1>13. ASSUME NEW t \in Thread, Count(t) PROVE IInv'
  <2>1. Clocks'
    BY <1>13 DEF Clocks, Count, clientVars, serverClocks
  <2>2. QED
    BY <1>13, <2>1, CountTyped, CountLives
<1>14. ASSUME NEW s \in Session, queueInvalidSession(s) PROVE IInv'
  <2>1. Clocks'
    BY <1>14 DEF Clocks, queueInvalidSession, clientVars, serverClocks
  <2>2. QED
    BY <1>14, <2>1, queueInvalidSessionTyped, queueInvalidSessionLives
<1>15. ASSUME NEW t \in Thread, Die(t) PROVE IInv'
  <2> DEFINE S == {r \in Session : sessionHandler[r] = t}
  <2>1. S \in SUBSET Session /\ Gone(S) /\ lastHeartBeatTime' = lastHeartBeatTime
    BY <1>15 DEF Die, serverClocks
  <2> HIDE DEF S
  <2>2. QED
    BY <1>15, <2>1, DieTyped, DieLives, GoneClocks
<1>16. ASSUME NEW t \in Thread, TestIP(t) PROVE IInv'
  <2>1. Clocks'
    BY <1>16 DEF Clocks, TestIP, clientVars, serverClocks
  <2>2. QED
    BY <1>16, <2>1, TestIPTyped, TestIPLives
<1>17. ASSUME NEW t \in Thread, removeConnectedIP(t) PROVE IInv'
  <2>1. Clocks'
    BY <1>17 DEF Clocks, removeConnectedIP, clientVars, serverClocks
  <2>2. QED
    BY <1>17, <2>1, removeConnectedIPTyped, removeConnectedIPLives
<1>18. ASSUME NEW t \in Thread, ClearIP(t) PROVE IInv'
  <2>1. Clocks'
    BY <1>18 DEF Clocks, ClearIP, clientVars, serverClocks
  <2>2. QED
    BY <1>18, <2>1, ClearIPTyped, ClearIPLives
<1>19. ASSUME NEW t \in Thread, removeSessionInErrorCountMap(t) PROVE IInv'
  <2>1. Clocks'
    BY <1>19 DEF Clocks, removeSessionInErrorCountMap, clientVars, serverClocks
  <2>2. QED
    BY <1>19, <2>1, removeSessionInErrorCountMapTyped, removeSessionInErrorCountMapLives
<1>20. ASSUME NEW t \in Thread, Deallocate(t) PROVE IInv'
  <2>1. Clocks'
    BY <1>20 DEF Clocks, Deallocate, clientVars, serverClocks
  <2>2. QED
    BY <1>20, <2>1, DeallocateTyped, DeallocateLives
<1>21. ASSUME NEW s \in Session, Scan(s) PROVE IInv'
  <2>1. Clocks'
    BY <1>21 DEF Clocks, Scan, clientVars, serverClocks
  <2>2. QED
    BY <1>21, <2>1, ScanTyped, ScanLives
<1>22. CASE EndScan
  <2>1. Clocks'
    BY <1>22 DEF Clocks, EndScan, clientVars, serverClocks
  <2>2. QED
    BY <1>22, <2>1, EndScanTyped, EndScanLives
<1>23. CASE DeleteInvalid
  <2> DEFINE S == {Head(invalidSessionQueue)}
  <2>1. S \in SUBSET Session /\ Gone(S) /\ lastHeartBeatTime' = lastHeartBeatTime
    BY <1>23, Emptied DEF TypeInv, MapTypes, DeleteInvalid, closeSession, serverClocks
  <2> HIDE DEF S
  <2>2. QED
    BY <1>23, <2>1, DeleteInvalidTyped, DeleteInvalidLives, GoneClocks
<1>24. CASE EndDelete
  <2>1. Clocks'
    BY <1>24 DEF Clocks, EndDelete, clientVars, serverClocks
  <2>2. QED
    BY <1>24, <2>1, EndDeleteTyped, EndDeleteLives
<1>25. ASSUME NEW s \in Session, DeleteErroneous(s) PROVE IInv'
  <2> DEFINE S == {s}
  <2>1. S \in SUBSET Session /\ Gone(S) /\ lastHeartBeatTime' = lastHeartBeatTime
    BY <1>25 DEF DeleteErroneous, closeSession, serverClocks
  <2> HIDE DEF S
  <2>2. QED
    BY <1>25, <2>1, DeleteErroneousTyped, DeleteErroneousLives, GoneClocks
<1>26. CASE EndErrors
  <2>1. Clocks'
    BY <1>26 DEF Clocks, EndErrors, clientVars, serverClocks
  <2>2. QED
    BY <1>26, <2>1, EndErrorsTyped, EndErrorsLives
<1>27. QED
  BY <1>1, <1>2, <1>3, <1>4, <1>5, <1>6, <1>7, <1>8, <1>9, <1>10, <1>11, <1>12, <1>13,
      <1>14, <1>15, <1>16, <1>17, <1>18, <1>19, <1>20, <1>21, <1>22, <1>23, <1>24,
      <1>25, <1>26 DEF Next, Accepts, Client, Closes, Loop

LEMMA Inductive ==
  ASSUME IInv, [Next]_vars
  PROVE  IInv'
<1>1. CASE Next
  BY <1>1, StepKept
<1>2. CASE UNCHANGED vars
  <2>1. TypeInv' /\ Clocks'
    BY <1>2 DEF IInv, TypeInv, SessionTypes, MapTypes, ThreadTypes, ClientTypes, Clocks,
        vars, sessionVars, maps, monitorVars, threadVars, clientVars, serverClocks
  <2>2. LifeInv'
    <3> SUFFICES ASSUME NEW s \in Session, s \notin crossed'
                 PROVE  Life(s)'
      BY DEF LifeInv
    <3>1. Life(s) /\ Same(s) /\ \A t \in Thread : Aside(t, s)
      BY <1>2 DEF IInv, LifeInv, Same, Aside, vars, sessionVars, maps, threadVars
    <3>2. QED
      BY <3>1, Untouched
  <2>3. QED
    BY <2>1, <2>2 DEF IInv
<1>3. QED
  BY <1>1, <1>2

LEMMA Invariant == Spec => []IInv
<1>1. Init => IInv
  BY Initially
<1>2. IInv /\ [Next]_vars => IInv'
  BY Inductive
<1>3. QED
  BY <1>1, <1>2, PTL DEF Spec

-----------------------------------------------------------------------------
(***************************************************************************)
(* What follows from it.                                                   *)
(***************************************************************************)

\* Every variable has the type of the field it stands for, whatever the threads of the
\* server, the clients and time do.
THEOREM TypeCorrect == Spec => []TypeOK
<1>1. IInv => TypeOK
  BY DEF IInv, TypeInv, SessionTypes, MapTypes, ThreadTypes, ClientTypes, TypeOK,
      ClosePlaces
<1>2. QED
  BY <1>1, Invariant, PTL

\* A client that runs, and whose messages arrive within DELAY, is never found late by
\* ConnectionMonitor.run and never gives up the server itself, for all time-outs that
\* exceed the period by a loop and two ways.
THEOREM NeverTooLate == Spec => []HeardIsKept
<1>1. IInv => HeardIsKept
  <2> SUFFICES ASSUME IInv, NEW s \in alive
               PROVE  /\ lastHeartBeatTime[s] <= HEART_BEAT_TIME_OUT
                      /\ heard[s] <= HEART_BEAT_TIME_OUT
    BY DEF HeardIsKept
  <2>1. /\ heard[s] \in Nat /\ sent[s] \in 0..DELAY /\ lastHeartBeatTime[s] \in Nat
        /\ beat[s] \in {"none", "asked", "answered"}
    BY DEF IInv, TypeInv, ClientTypes
  <2>2. QED
    BY <2>1 DEF IInv, Clocks
<1>2. QED
  BY <1>1, Invariant, PTL

\* Whoever is connected may open voice channels, and has all his errors counted, however
\* many sessions of his address are closed and by however many threads: putConnectedIP
\* and removeConnectedIP are paired, although ipLong is read twice and cleared late.
THEOREM ConnectedAreKnown == Spec => []ConnectedIsKnown
<1>1. IInv => ConnectedIsKnown
  <2> SUFFICES ASSUME IInv, NEW s \in Session \ crossed, state[s] # "ENDED"
               PROVE  /\ isValidIP(address[s]) /\ ipLong[s] = address[s]
                      /\ errorCountMap[s] # None
                      /\ \/ errorCountMap[s] = made[s]
                         \/ \E t \in Thread : Works(t, s) /\ at[t] = "count"
    BY DEF ConnectedIsKnown
  <2>1. Open(s)
    BY DEF IInv, LifeInv, Life
  <2>2. isValidIP(address[s]) /\ ipLong[s] = address[s] /\ errorCountMap[s] \in Nat
    BY <2>1 DEF Open, Admitted, isValidIP
  <2>3. CASE \E t \in {Reader, sessionHandler[s]} : session[t] = s /\ at[t] = "count"
    BY <2>1, <2>2, <2>3 DEF Open, Works
  <2>4. CASE \A t \in {Reader, sessionHandler[s]} : ~ (session[t] = s /\ at[t] = "count")
    <3>1. Pending(Reader, s) = 0 /\ Pending(sessionHandler[s], s) = 0
      BY <2>4 DEF Pending
    <3>2. QED
      BY <2>1, <2>2, <3>1 DEF Open
  <2>5. QED
    BY <2>3, <2>4
<1>2. QED
  BY <1>1, Invariant, PTL

\* An address of which no session is connected is not admitted, and no errors are kept
\* of a session in the pool: two threads that close one session, or a handler that adds
\* an error too late, leave nothing behind.
THEOREM NobodyElseIsKnown == Spec => []OthersAreUnknown
<1>1. IInv => OthersAreUnknown
  <2> SUFFICES ASSUME IInv, NEW s \in Session \ crossed
               PROVE  /\ \A a \in Address : connectedIPMap[a][s] > 0 =>
                           s \in inUse /\ address[s] = a
                      /\ errorCountMap[s] # None => s \in inUse
    BY DEF OthersAreUnknown
  <2>1. Pooled(s) /\ OneAddress(s)
    BY DEF IInv, LifeInv, Life
  <2>2. \A a \in Address : connectedIPMap[a][s] \in Nat
    BY DEF IInv, TypeInv, MapTypes
  <2>3. QED
    BY <2>1, <2>2 DEF Pooled, OneAddress, Unlisted
<1>2. QED
  BY <1>1, Invariant, PTL

=============================================================================
