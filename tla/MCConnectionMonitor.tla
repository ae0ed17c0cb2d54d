------------------------- MODULE MCConnectionMonitor -------------------------
(***************************************************************************)
(* ConnectionMonitor for TLC.  A budget says which sessions are accepted,  *)
(* how often, whether time passes, and how many times sessions are queued  *)
(* as invalid, are closed by BYE or make an error, and how many threads    *)
(* die.                                                                    *)
(***************************************************************************)
EXTENDS ConnectionMonitor

CONSTANTS Budgets, s1, s2, h1, h2, a1, a2

MCSession == {s1, s2}
MCHandler == {h1, h2}
MCAddress == {a1, a2}

VARIABLES left

mcVars == <<vars, left>>

\* Both sessions have been accepted, by different handlers and perhaps from the same
\* address, and are logged in.
Connected ==
  /\ inUse = Session /\ alive = Session
  /\ sessionList = [s \in Session |-> 1]
  /\ state = [s \in Session |-> "STARTED"]
  /\ \E a \in Address : address = [s \in Session |-> IF s = s1 THEN a1 ELSE a]
  /\ ipLong = address
  /\ sessionHandler = [s \in Session |-> IF s = s1 THEN h1 ELSE h2]
  /\ connectedIPMap = [a \in Address |-> [s \in Session |-> IF a = address[s] THEN 1 ELSE 0]]
  /\ errorCountMap = [s \in Session |-> 0] /\ made = errorCountMap
  /\ errorLock = FALSE /\ invalidSessionQueue = << >> /\ unseen = {}
  /\ at = [t \in Thread |-> IF t = Monitor THEN "scan" ELSE "loop"]
  /\ session = [t \in Thread |-> None]
  /\ addCount = [t \in Thread |-> 0]
  /\ connectTime = [s \in Session |-> 0]
  /\ lastHeartBeatTime = connectTime /\ heard = connectTime /\ sent = connectTime
  /\ beat = [s \in Session |-> "none"]
  /\ crossed = {}

MCInit ==
  /\ left \in Budgets
  /\ IF left.sessions = Session THEN Connected ELSE Init

MCBudgets ==
  {[sessions |-> {s1}, accepts |-> 1, time |-> TRUE, faults |-> 1, deaths |-> 1],
   [sessions |-> {s1}, accepts |-> 2, time |-> TRUE, faults |-> 0, deaths |-> 1],
   [sessions |-> {s1}, accepts |-> 2, time |-> FALSE, faults |-> 2, deaths |-> 0],
   [sessions |-> {s1, s2}, accepts |-> 1, time |-> FALSE, faults |-> 2, deaths |-> 0],
   [sessions |-> {s1, s2}, accepts |-> 0, time |-> FALSE, faults |-> 3, deaths |-> 0]}

Spend(f) == left[f] > 0 /\ left' = [left EXCEPT ![f] = @ - 1]
Free == UNCHANGED left

\* The pool hands out s1 first, and the first connection is h1's and from a1.
MCNext ==
  \/ /\ Spend("accepts")
     /\ \E s \in left.sessions, a \in Address, h \in Handler :
          /\ sessionHandler[s1] = None => s = s1 /\ a = a1 /\ h = h1
          /\ allocate(s, a, h)
  \/ /\ Spend("faults")
     /\ \/ \E s \in Session : queueInvalidSession(s)
        \/ \E h \in Handler, s \in Session : BYE(h, s)
        \/ \E t \in Thread, s \in Session : addErrorCount(t, s)
  \/ /\ Spend("deaths")
     /\ \E t \in Thread : Die(t)
  \/ /\ left.time /\ Free
     /\ Tick \/ \E s \in Session : Client(s) \/ Lose(s)
  \/ /\ Free
     /\ \/ Accepts \/ Loop
        \/ \E h \in Handler, s \in Session : HEART_BEAT(h, s) \/ PUT_PRANKKEY(h, s)
        \/ \E t \in Thread : Count(t) \/ Closes(t)

MCSpec == MCInit /\ [][MCNext]_mcVars

MCFairSpec ==
  /\ MCSpec
  /\ WF_mcVars(Accepts /\ Free) /\ WF_mcVars(Loop /\ Free) /\ WF_mcVars(left.time /\ Tick /\ Free)
  /\ \A t \in Thread : WF_mcVars(Count(t) /\ Free) /\ WF_mcVars(Closes(t) /\ Free)
  /\ \A s \in Session :
       /\ WF_mcVars(left.time /\ Client(s) /\ Free)
       /\ WF_mcVars(s \in alive /\ (\E h \in Handler : HEART_BEAT(h, s)) /\ Free)

\* ConnectionMonitor's FaultyIsClosed, where time passes: what should end a session ends
\* it (ConnectionMonitor.run), unless the monitor has died.
FaultyIsClosedInTime == left.time => FaultyIsClosed
=============================================================================
